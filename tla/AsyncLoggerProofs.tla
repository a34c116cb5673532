------------------------- MODULE AsyncLoggerProofs -------------------------
(***************************************************************************)
(* Theorems about AsyncLogger, for any threads and descriptors and any     *)
(* bounds: the queues lose and reorder nothing, whoever waits for the      *)
(* writer waits long enough, and SIGUSR1 leaves one log file open.         *)
(*                                                                         *)
(* The second rests on the first: the writer broadcasts, or stops, when    *)
(* both queues are empty, and then what was pushed is what it is done      *)
(* with.  The third follows which descriptors are log files while a        *)
(* handler is between its open(), its close() and its assignment.          *)
(*                                                                         *)
(* And about LogFiles, for any days, limits and lengths: what the loops    *)
(* that remove files leave (Trims), and that no log is newer than the one  *)
(* that is open (NoneNewer), so that the one in use is the last to go.     *)
(***************************************************************************)
EXTENDS AsyncLogger, LogFiles, SequenceTheorems, FiniteSetTheorems, WellFoundedInduction, TLAPS

Lines       == Loggers \X Nat
Entries     == Lines \cup {Null}
WriterSteps == {"unborn", "drain", "write", "wait", "exited"}
LogSteps    == {"idle", "flush", "wait", "woken", "abort", "signal", "join"}
LogLevels   == {"info", "error", "fatal"}
Ends        == {"no", "aborted", "exited"}
Files       == {"free", "log", "client"}
ReopenSteps == {"none", "close", "assign"}

TypeOK ==
  /\ stopped \in BOOLEAN
  /\ buffer \in Seq(Entries) /\ bg \in Seq(Entries)
  /\ writer \in WriterSteps /\ str \in Entries /\ fd \in Descriptors
  /\ pc \in [Loggers -> LogSteps] /\ level \in [Loggers -> LogLevels]
  /\ ended \in Ends
  /\ g_log_fd \in Descriptors /\ fds \in [Descriptors -> Files]
  /\ reopen \in [Threads -> ReopenSteps] /\ newFd \in [Threads -> Descriptors]
  /\ overlap \in BOOLEAN /\ raced \in BOOLEAN
  /\ order \in Seq(Entries) /\ handled \in Seq(Entries)

(* Whom the writer woke has its lines written.                             *)
Told == \A t \in Loggers \ unasked :
          pc[t] \in {"woken", "abort"} => LinesOf(t) \subseteq HandledLines

(* Once exit() has been called the writer stops when it is done.           *)
Stopping ==
  /\ due \subseteq ToSet(order)
  /\ writer = "exited" => stopped /\ due \subseteq HandledLines
  /\ ended = "exited" => due \subseteq HandledLines

LogFds == {d \in Descriptors : fds[d] = "log"}

(* Handlers one at a time, and the log files there are at each step of one.*)
OneHandler == \A t, u \in Threads : reopen[t] # "none" /\ reopen[u] # "none" => t = u
LogsNow ==
  ended = "no" =>
    /\ (\A t \in Threads : reopen[t] = "none") => LogFds = {g_log_fd}
    /\ \A t \in Threads :
         /\ reopen[t] = "close" => LogFds = {g_log_fd, newFd[t]} /\ newFd[t] # g_log_fd
         /\ reopen[t] = "assign" => LogFds = {newFd[t]}

(* What the writer is about to write to, if no handler came between.       *)
InLog ==
  ~raced => /\ astray = {}
            /\ writer = "write" => /\ fd = g_log_fd
                                   /\ \A t \in Threads : reopen[t] # "assign"

ReopenInv == ~overlap => OneHandler /\ LogsNow /\ InLog

IInv == TypeOK /\ LinesConserved /\ Told /\ Stopping /\ ReopenInv

-----------------------------------------------------------------------------
(* Operators of the model.                                                  *)

(* There is a least descriptor, so CHOOSE finds it.                        *)
LEMMA LowestExists ==
  ASSUME NEW S, S \subseteq Nat, S # {}
  PROVE  Lowest(S) \in S /\ \A d \in S : Lowest(S) <= d
<1> DEFINE R == OpToRel(<, Nat)
<1>1. IsWellFoundedOn(R, Nat)
  BY NatLessThanWellFounded
<1>2. PICK d \in S : \A e \in S : <<e, d>> \notin R
  <2> HIDE DEF R
  <2>1. IsWellFoundedOn(R, S)
    BY <1>1, IsWellFoundedOnSubset
  <2> QED BY <2>1, WFMin
<1>3. ASSUME NEW e \in S, e < d PROVE FALSE
  <2>1. <<e, d>> \in Nat \X Nat /\ <<e, d>>[1] < <<e, d>>[2]
    BY <1>3
  <2>2. <<e, d>> \in R
    BY <2>1, Zenon DEF OpToRel
  <2> QED BY <1>2, <2>2
<1>4. \A e \in S : d <= e
  BY <1>3
<1> QED BY <1>4 DEF Lowest

LEMMA LowestFree == ASSUME TypeOK, Free # {} PROVE Lowest(Free) \in Descriptors /\ fds[Lowest(Free)] = "free"
<1>1. Free \subseteq Nat
  BY LoggerAssumption DEF Free
<1>2. Lowest(Free) \in Free
  BY <1>1, LowestExists
<1> QED BY <1>2 DEF Free

LEMMA SetOfAppend ==
  ASSUME NEW S, NEW s \in Seq(S), NEW e \in S
  PROVE  /\ Append(s, e) \in Seq(S)
         /\ ToSet(Append(s, e)) = ToSet(s) \cup {e}
<1>1. /\ Append(s, e) \in Seq(S) /\ Len(Append(s, e)) = Len(s) + 1
      /\ \A i \in 1 .. Len(s) : Append(s, e)[i] = s[i]
      /\ Append(s, e)[Len(s) + 1] = e
  BY AppendProperties
<1>2. Len(s) \in Nat /\ DOMAIN s = 1 .. Len(s) /\ DOMAIN Append(s, e) = 1 .. (Len(s) + 1)
  BY <1>1, LenProperties
<1>3. ASSUME NEW x PROVE x \in ToSet(Append(s, e)) <=> x \in ToSet(s) \cup {e}
  BY <1>1, <1>2 DEF ToSet
<1> QED BY <1>1, <1>3

LEMMA Pieces ==
  ASSUME NEW s \in Seq(Entries)
  PROVE  /\ ToSet(s) \subseteq Entries
         /\ \A e \in Entries : <<e>> \in Seq(Entries)
         /\ <<>> \in Seq(Entries)
         /\ s # <<>> => Head(s) \in Entries /\ Tail(s) \in Seq(Entries) /\ s = <<Head(s)>> \o Tail(s)
<1>1. ToSet(s) \subseteq Entries
  <2>1. DOMAIN s = 1 .. Len(s) /\ \A i \in 1 .. Len(s) : s[i] \in Entries
    BY ElementOfSeq, LenProperties
  <2> QED BY <2>1 DEF ToSet
<1>2. <<>> \in Seq(Entries) /\ \A e \in Entries : <<e>> \in Seq(Entries)
  OBVIOUS
<1>3. ASSUME s # <<>> PROVE s = <<Head(s)>> \o Tail(s)
  BY <1>3
<1>4. ASSUME s # <<>> PROVE Head(s) \in Entries /\ Tail(s) \in Seq(Entries)
  BY <1>4, HeadTailProperties
<1> QED BY <1>1, <1>2, <1>3, <1>4

LEMMA CountIsNat == ASSUME TypeOK, NEW t \in Loggers
                    PROVE  Count(t) \in Nat /\ <<t, Count(t) + 1>> \in Lines
<1>1. DOMAIN order = 1 .. Len(order) /\ Len(order) \in Nat
  BY LenProperties DEF TypeOK
<1>2. IsFiniteSet(1 .. Len(order))
  BY <1>1, FS_Interval
<1> DEFINE Mine == {i \in DOMAIN order : order[i][1] = t}
<1>3. IsFiniteSet(Mine)
  <2>1. Mine \subseteq 1 .. Len(order)
    BY <1>1
  <2> HIDE DEF Mine
  <2> QED BY <1>2, <2>1, FS_Subset
<1>4. Cardinality(Mine) \in Nat
  <2> HIDE DEF Mine
  <2> QED BY <1>3, FS_CardinalityType
<1>5. Count(t) \in Nat
  BY <1>4 DEF Count
<1> QED BY <1>5 DEF Lines

LEMMA NullIsNoLine == Null \in Entries /\ Null \notin Lines /\ Lines \subseteq Entries /\ \A t \in Loggers : Null[1] # t
BY LoggerAssumption DEF Null, Entries, Lines

-----------------------------------------------------------------------------
(* Types.                                                                   *)

LEMMA InitType == Init => TypeOK
<1> SUFFICES ASSUME Init PROVE TypeOK
  OBVIOUS
<1>1. Descriptors # {}
  BY LoggerAssumption, FS_EmptySet
<1>2. Lowest(Descriptors) \in Descriptors
  BY <1>1, LoggerAssumption, LowestExists
<1>3. <<>> \in Seq(Entries) /\ Null \in Entries
  BY NullIsNoLine
<1> QED BY <1>2, <1>3 DEF Init, TypeOK, WriterSteps, LogSteps, LogLevels, Ends, Files, ReopenSteps

LEMMA TypeStep ==
  ASSUME TypeOK, [Next]_vars
  PROVE  TypeOK'
<1> USE DEF TypeOK
<1> DEFINE WriterType == writer \in WriterSteps
           LogType    == pc \in [Loggers -> LogSteps] /\ level \in [Loggers -> LogLevels]
<1>1. CASE UNCHANGED vars
  BY <1>1 DEF vars, queues, writing, logging, files, handlers, history
<1>2. CASE StartLog
  BY <1>2 DEF StartLog, WriterAt, WriterSteps, queues, logging, files, handlers, history
<1>3. CASE AsyncWriter
  <2>1. CASE Pop
    <3>1. Head(bg) \in Entries /\ Tail(bg) \in Seq(Entries)
      BY <2>1, Pieces DEF Pop
    <3>2. Append(handled, Null) \in Seq(Entries)
      BY NullIsNoLine, SetOfAppend
    <3>3. raced' \in BOOLEAN
      BY <2>1, Zenon DEF Pop
    <3> QED BY <2>1, <3>1, <3>2, <3>3
            DEF Pop, WriterAt, WriterSteps, logging, files, handlers
  <2>2. CASE Write
    <3>1. Append(handled, str) \in Seq(Entries) /\ Null \in Entries
      BY NullIsNoLine, SetOfAppend
    <3> QED BY <2>2, <3>1 DEF Write, WriterAt, WriterSteps, queues, logging, files, handlers
  <2>3. CASE LookForWork
    BY <2>3 DEF LookForWork, WriterAt, WriterSteps, BroadcastDone, LogSteps, queues, files, handlers, history
  <2> QED BY <1>3, <2>1, <2>2, <2>3 DEF AsyncWriter
<1>4. CASE SpuriousWakeup
  BY <1>4 DEF SpuriousWakeup, WriterAt, WriterSteps, queues, logging, files, handlers, history
<1>5. CASE AcceptClient
  BY <1>5, LowestFree DEF AcceptClient, Files, queues, writing, logging, handlers, history
<1>6. CASE CloseClient
  BY <1>6 DEF CloseClient, Files, queues, writing, logging, handlers, history
<1>7. CASE Ended
  BY <1>7 DEF Ended, vars, queues, writing, logging, files, handlers, history
<1>8. ASSUME NEW t \in Loggers, WriteLog(t) PROVE TypeOK'
  <2>1. <<t, Count(t) + 1>> \in Entries
    BY CountIsNat, NullIsNoLine
  <2>2. Append(buffer, <<t, Count(t) + 1>>) \in Seq(Entries) /\ Append(order, <<t, Count(t) + 1>>) \in Seq(Entries)
    BY <2>1, SetOfAppend
  <2>3. LogType' /\ WriterType'
    BY <1>8 DEF WriteLog, LogAt, SignalJobs, LogSteps, LogLevels, WriterSteps
  <2> QED BY <1>8, <2>2, <2>3 DEF WriteLog, files, handlers
<1>9. ASSUME NEW t \in Loggers, Logger(t) PROVE TypeOK'
  <2>1. CASE Flush(t)
    <3>1. Append(buffer, Null) \in Seq(Entries) /\ Append(order, Null) \in Seq(Entries)
      BY NullIsNoLine, SetOfAppend
    <3>2. LogType' /\ WriterType'
      BY <2>1 DEF Flush, LogAt, SignalJobs, LogSteps, WriterSteps
    <3> QED BY <2>1, <3>1, <3>2 DEF Flush, files, handlers
  <2>2. CASE FlushReturns(t)
    BY <2>2 DEF FlushReturns, LogAt, LogSteps, queues, writing, files, handlers, history
  <2>3. CASE Abort(t)
    BY <2>3 DEF Abort, LogAt, LogSteps, Ends, queues, writing, files, handlers, history
  <2>4. CASE DestroySignals(t)
    BY <2>4 DEF DestroySignals, LogAt, SignalJobs, LogSteps, WriterSteps, queues, files, handlers, history
  <2>5. CASE DestroyJoins(t)
    BY <2>5 DEF DestroyJoins, LogAt, LogSteps, Ends, Files, queues, writing, handlers, history
  <2> QED BY <1>9, <2>1, <2>2, <2>3, <2>4, <2>5 DEF Logger
<1>10. ASSUME NEW t \in Loggers, CallExit(t) PROVE TypeOK'
  BY <1>10, Pieces DEF CallExit, LogAt, LogSteps, queues, writing, files, handlers
<1>11. ASSUME NEW t \in Loggers, SpuriousFlush(t) PROVE TypeOK'
  BY <1>11 DEF SpuriousFlush, LogAt, LogSteps, queues, writing, files, handlers
<1>12. ASSUME NEW t \in Signalled, OpenNew(t) PROVE TypeOK'
  <2>1. overlap' \in BOOLEAN
    BY <1>12, Zenon DEF OpenNew
  <2>2. fds' \in [Descriptors -> Files] /\ newFd' \in [Threads -> Descriptors] /\ reopen' \in [Threads -> ReopenSteps]
    <3>1. CASE Free = {}
      BY <1>12, <3>1 DEF OpenNew, ReopenAt, ReopenSteps
    <3>2. CASE Free # {}
      BY <1>12, <3>2, LowestFree DEF OpenNew, ReopenAt, ReopenSteps, Files
    <3> QED BY <3>1, <3>2
  <2> QED BY <1>12, <2>1, <2>2 DEF OpenNew, queues, writing, logging, history
<1>13. ASSUME NEW t \in Signalled, Reopen(t) PROVE TypeOK'
  <2>1. CASE CloseOld(t)
    <3>1. raced' \in BOOLEAN
      BY <2>1, Zenon DEF CloseOld
    <3> QED BY <2>1, <3>1 DEF CloseOld, ReopenAt, ReopenSteps, Files, queues, writing, logging
  <2>2. CASE AssignNew(t)
    BY <2>2, LoggerAssumption DEF AssignNew, ReopenAt, ReopenSteps, queues, writing, logging, handlers, history
  <2> QED BY <1>13, <2>1, <2>2 DEF Reopen
<1> QED BY <1>1, <1>2, <1>3, <1>4, <1>5, <1>6, <1>7, <1>8, <1>9, <1>10, <1>11, <1>12, <1>13 DEF Next

-----------------------------------------------------------------------------
(* The queues.                                                              *)

QueueVars == <<order, handled, bg, buffer>>

(* Every step but these four leaves the queues and what is written alone.  *)
LEMMA QueueSteps ==
  ASSUME TypeOK, [Next]_vars
  PROVE  \/ \E e \in Entries : /\ order' = Append(order, e) /\ buffer' = Append(buffer, e)
                               /\ UNCHANGED <<handled, bg, str>>
                               /\ (writer' = "write") = (writer = "write")
         \/ Pop \/ Write \/ LookForWork
         \/ UNCHANGED QueueVars /\ str' = str /\ (writer' = "write") = (writer = "write")
<1> USE DEF QueueVars
<1>1. CASE UNCHANGED vars
  BY <1>1 DEF vars, queues, writing, history
<1>2. CASE StartLog \/ SpuriousWakeup \/ AcceptClient \/ CloseClient \/ Ended
  BY <1>2 DEF StartLog, SpuriousWakeup, AcceptClient, CloseClient, Ended, WriterAt, vars, queues, writing, history
<1>3. ASSUME NEW t \in Loggers, WriteLog(t) \/ Flush(t)
      PROVE  \E e \in Entries : /\ order' = Append(order, e) /\ buffer' = Append(buffer, e)
                                /\ UNCHANGED <<handled, bg, str>>
                                /\ (writer' = "write") = (writer = "write")
  <2>1. CASE WriteLog(t)
    <3>1. <<t, Count(t) + 1>> \in Entries
      BY CountIsNat, NullIsNoLine
    <3> QED BY <2>1, <3>1 DEF WriteLog, SignalJobs
  <2>2. CASE Flush(t)
    BY <2>2, NullIsNoLine DEF Flush, SignalJobs
  <2> QED BY <1>3, <2>1, <2>2
<1>4. ASSUME NEW t \in Loggers,
             FlushReturns(t) \/ Abort(t) \/ DestroySignals(t) \/ DestroyJoins(t) \/ CallExit(t) \/ SpuriousFlush(t)
      PROVE  UNCHANGED QueueVars /\ str' = str /\ (writer' = "write") = (writer = "write")
  BY <1>4 DEF FlushReturns, Abort, DestroySignals, DestroyJoins, CallExit, SpuriousFlush, SignalJobs, queues, writing, history
<1>5. ASSUME NEW t \in Signalled, OpenNew(t) \/ Reopen(t)
      PROVE  UNCHANGED QueueVars /\ str' = str /\ writer' = writer
  BY <1>5 DEF OpenNew, Reopen, CloseOld, AssignNew, queues, writing, history
<1> QED BY <1>1, <1>2, <1>3, <1>4, <1>5 DEF Next, AsyncWriter, Logger

LEMMA ConservedStep ==
  ASSUME TypeOK, LinesConserved, [Next]_vars
  PROVE  LinesConserved'
<1> DEFINE now == IF writer = "write" THEN <<str>> ELSE <<>>
<1>1. /\ order \in Seq(Entries) /\ handled \in Seq(Entries) /\ bg \in Seq(Entries) /\ buffer \in Seq(Entries)
      /\ str \in Entries /\ Null \in Entries
  BY NullIsNoLine DEF TypeOK
<1>2. now \in Seq(Entries)
  BY <1>1, Pieces
<1>3. order = handled \o now \o bg \o buffer
  BY DEF LinesConserved
<1>4. ASSUME NEW e \in Entries, order' = Append(order, e), buffer' = Append(buffer, e),
             UNCHANGED <<handled, bg, str>>, (writer' = "write") = (writer = "write")
      PROVE  LinesConserved'
  <2> HIDE DEF now
  <2>1. handled \o now \o bg \in Seq(Entries)
    BY <1>1, <1>2, ConcatProperties
  <2>2. <<e>> \in Seq(Entries)
    BY <1>1, Pieces
  <2>3. Append(order, e) = order \o <<e>> /\ Append(buffer, e) = buffer \o <<e>>
    BY <1>1, AppendIsConcat
  <2>4. order \o <<e>> = handled \o now \o bg \o (buffer \o <<e>>)
    BY <1>1, <1>3, <2>1, <2>2, ConcatAssociative
  <2>5. now' = now
    BY <1>4 DEF now
  <2> QED BY <1>4, <2>3, <2>4, <2>5 DEF LinesConserved, now
<1>5. CASE Pop
  <2>1. now = <<>>
    BY <1>5 DEF Pop, WriterAt
  <2>2. bg = <<Head(bg)>> \o bg' /\ bg' \in Seq(Entries) /\ Head(bg) \in Entries /\ <<Head(bg)>> \in Seq(Entries)
    BY <1>1, <1>5, Pieces DEF Pop
  <2>3. order = handled \o <<Head(bg)>> \o bg' \o buffer
    <3>1. handled \o now = handled
      BY <1>1, <2>1, ConcatEmptySeq
    <3>2. handled \o bg = handled \o <<Head(bg)>> \o bg'
      <4>1. bg' \in Seq(Entries)
        BY <2>2
      <4>2. \A s \in Seq(Entries) : handled \o s \o bg' = handled \o (s \o bg')
        <5> SUFFICES ASSUME NEW s \in Seq(Entries) PROVE handled \o s \o bg' = handled \o (s \o bg')
          OBVIOUS
        <5> DEFINE rest == bg'
                   before == handled
        <5>1. before \in Seq(Entries) /\ rest \in Seq(Entries)
          BY <1>1, <4>1
        <5> HIDE DEF rest, before
        <5>2. (before \o s) \o rest = before \o (s \o rest)
          BY <5>1, ConcatAssociative
        <5> QED BY <5>2 DEF rest, before
      <4> QED BY <2>2, <4>2, Zenon
    <3>3. order = handled \o bg \o buffer
      BY <1>3, <3>1
    <3> QED BY <3>2, <3>3
  <2>4. CASE Head(bg) = Null
    <3>1. handled' = handled \o <<Head(bg)>>
      BY <1>1, <1>5, <2>4, AppendIsConcat DEF Pop
    <3>2. writer' = "drain" /\ buffer' = buffer /\ order' = order
      BY <1>5, <2>4 DEF Pop, WriterAt
    <3>3. handled' \in Seq(Entries)
      BY <1>1, <2>2, <3>1, ConcatProperties
    <3>4. handled' \o <<>> = handled'
      BY <3>3, ConcatEmptySeq
    <3> QED BY <2>3, <3>1, <3>2, <3>4 DEF LinesConserved
  <2>5. CASE Head(bg) # Null
    <3>1. writer' = "write" /\ buffer' = buffer /\ order' = order /\ handled' = handled /\ str' = Head(bg)
      BY <1>5, <2>5 DEF Pop, WriterAt
    <3> QED BY <2>3, <3>1 DEF LinesConserved
  <2> QED BY <2>4, <2>5
<1>6. CASE Write
  <2>1. now = <<str>> /\ writer' = "drain" /\ UNCHANGED <<order, bg, buffer>> /\ handled' = Append(handled, str)
    BY <1>6 DEF Write, WriterAt, queues
  <2>2. handled' = handled \o <<str>>
    BY <1>1, <2>1, AppendIsConcat
  <2>3. handled' \o <<>> = handled'
    BY <1>1, <1>2, <2>1, <2>2, ConcatProperties, ConcatEmptySeq
  <2> QED BY <1>3, <2>1, <2>2, <2>3 DEF LinesConserved
<1>7. CASE LookForWork
  <2>1. now = <<>> /\ bg = <<>> /\ UNCHANGED <<order, handled>> /\ writer' # "write"
    BY <1>7 DEF LookForWork, WriterAt, history
  <2>2. \/ bg' = buffer /\ buffer' = <<>>
        \/ bg' = bg /\ buffer' = buffer
    BY <1>7 DEF LookForWork, queues
  <2>3. handled \o <<>> \o <<>> = handled /\ handled \o buffer \o <<>> = handled \o buffer /\ handled \o <<>> = handled
    BY <1>1, ConcatProperties, ConcatEmptySeq
  <2> QED BY <1>3, <2>1, <2>2, <2>3 DEF LinesConserved
<1>8. ASSUME UNCHANGED QueueVars, str' = str, (writer' = "write") = (writer = "write")
      PROVE  LinesConserved'
  BY <1>3, <1>8 DEF QueueVars, LinesConserved
<1> QED BY QueueSteps, <1>4, <1>5, <1>6, <1>7, <1>8

(* An empty queue and nothing in hand: the writer is done with everything. *)
LEMMA AllHandled ==
  ASSUME TypeOK, LinesConserved, writer # "write", bg = <<>>, buffer = <<>>
  PROVE  order = handled
<1>1. handled \o <<>> \o <<>> \o <<>> = handled
  BY ConcatEmptySeq DEF TypeOK
<1> QED BY <1>1 DEF LinesConserved

LEMMA HandledGrows ==
  ASSUME TypeOK, [Next]_vars
  PROVE  HandledLines \subseteq HandledLines'
<1>1. \A e \in Entries : HandledLines \subseteq ToSet(Append(handled, e))
  BY SetOfAppend DEF TypeOK, HandledLines
<1>2. handled' = handled \/ \E e \in Entries : handled' = Append(handled, e)
  <2>1. CASE Pop
    BY <2>1, NullIsNoLine DEF Pop
  <2>2. CASE Write
    BY <2>2 DEF Write, TypeOK
  <2>3. CASE LookForWork
    BY <2>3 DEF LookForWork, history
  <2> QED BY <2>1, <2>2, <2>3, QueueSteps DEF QueueVars
<1> QED BY <1>1, <1>2 DEF HandledLines

-----------------------------------------------------------------------------
(* Who waits for the writer.                                                *)

(* Nobody but a thread itself adds to what it logged.                      *)
LEMMA LinesStay ==
  ASSUME TypeOK, [Next]_vars
  PROVE  /\ ToSet(order) \subseteq ToSet(order')
         /\ \A t \in Loggers : WriteLog(t) \/ LinesOf(t)' = LinesOf(t)
<1>1. order \in Seq(Entries)
  BY DEF TypeOK
<1>2. ASSUME NEW u \in Loggers, WriteLog(u)
      PROVE  /\ ToSet(order) \subseteq ToSet(order')
             /\ \A t \in Loggers \ {u} : LinesOf(t)' = LinesOf(t)
  <2> DEFINE e == <<u, Count(u) + 1>>
  <2>1. e \in Entries /\ e[1] = u
    BY CountIsNat, NullIsNoLine
  <2>2. order' = Append(order, e)
    BY <1>2 DEF WriteLog
  <2>3. ToSet(order') = ToSet(order) \cup {e}
    BY <1>1, <2>1, <2>2, SetOfAppend
  <2> QED BY <2>1, <2>3 DEF LinesOf
<1>3. ASSUME NEW u \in Loggers, Flush(u)
      PROVE  /\ ToSet(order) \subseteq ToSet(order')
             /\ \A t \in Loggers : LinesOf(t)' = LinesOf(t)
  <2>1. ToSet(order') = ToSet(order) \cup {Null}
    BY <1>1, <1>3, NullIsNoLine, SetOfAppend DEF Flush
  <2> QED BY <2>1, NullIsNoLine DEF LinesOf
<1>4. ASSUME order' = order
      PROVE  /\ ToSet(order) \subseteq ToSet(order')
             /\ \A t \in Loggers : LinesOf(t)' = LinesOf(t)
  BY <1>4 DEF LinesOf
<1>5. \/ \E u \in Loggers : WriteLog(u) \/ Flush(u)
      \/ order' = order
  BY DEF Next, AsyncWriter, Logger, Reopen, StartLog, Pop, Write, LookForWork, SpuriousWakeup, AcceptClient,
         CloseClient, Ended, FlushReturns, Abort, DestroySignals, DestroyJoins, CallExit, SpuriousFlush,
         OpenNew, CloseOld, AssignNew, vars, history
<1> QED BY <1>2, <1>3, <1>4, <1>5

LEMMA Woken ==
  ASSUME TypeOK, [Next]_vars, NEW t \in Loggers, t \notin unasked', pc'[t] \in {"woken", "abort"}
  PROVE  /\ t \notin unasked /\ ~WriteLog(t)
         /\ pc[t] \in {"woken", "abort"} \/ (LookForWork /\ bg = <<>> /\ buffer = <<>> /\ writer = "drain")
<1>1. pc \in [Loggers -> LogSteps]
  BY DEF TypeOK
<1>2. ~WriteLog(t)
  BY <1>1 DEF WriteLog, LogAt
<1>3. CASE UNCHANGED <<pc, unasked>>
  BY <1>2, <1>3
<1>4. ASSUME NEW u \in Loggers,
             \/ WriteLog(u) \/ Flush(u) \/ FlushReturns(u) \/ Abort(u) \/ DestroySignals(u) \/ DestroyJoins(u)
             \/ CallExit(u)
      PROVE  pc[t] \in {"woken", "abort"} /\ unasked' = unasked
  <2>1. CASE WriteLog(u)
    BY <1>1, <2>1 DEF WriteLog, LogAt
  <2>2. CASE Flush(u)
    BY <1>1, <2>2 DEF Flush, LogAt
  <2>3. CASE FlushReturns(u)
    BY <1>1, <2>3 DEF FlushReturns, LogAt, history
  <2>4. CASE Abort(u) \/ DestroySignals(u) \/ DestroyJoins(u) \/ CallExit(u)
    BY <1>1, <2>4 DEF Abort, DestroySignals, DestroyJoins, CallExit, LogAt, history
  <2> QED BY <1>4, <2>1, <2>2, <2>3, <2>4
<1>5. ASSUME NEW u \in Loggers, SpuriousFlush(u)
      PROVE  t \notin unasked /\ pc[t] \in {"woken", "abort"}
  BY <1>1, <1>5 DEF SpuriousFlush, LogAt
<1>6. ASSUME LookForWork, pc[t] \notin {"woken", "abort"}
      PROVE  unasked' = unasked /\ bg = <<>> /\ buffer = <<>> /\ writer = "drain"
  BY <1>1, <1>6 DEF LookForWork, BroadcastDone, WriterAt, history
<1>7. LookForWork => unasked' = unasked
  BY DEF LookForWork, history
<1>8. \/ UNCHANGED <<pc, unasked>>
      \/ LookForWork
      \/ \E u \in Loggers :
           \/ WriteLog(u) \/ Flush(u) \/ FlushReturns(u) \/ Abort(u) \/ DestroySignals(u) \/ DestroyJoins(u)
           \/ CallExit(u)
           \/ SpuriousFlush(u)
  BY DEF Next, AsyncWriter, Logger, Reopen, StartLog, Pop, Write, SpuriousWakeup, AcceptClient, CloseClient, Ended,
         OpenNew, CloseOld, AssignNew, vars, logging, history
<1> QED BY <1>2, <1>3, <1>4, <1>5, <1>6, <1>7, <1>8

LEMMA ToldStep ==
  ASSUME TypeOK, LinesConserved, Told, [Next]_vars
  PROVE  Told'
<1> SUFFICES ASSUME NEW t \in Loggers, t \notin unasked', pc'[t] \in {"woken", "abort"}
             PROVE  LinesOf(t)' \subseteq HandledLines'
  BY DEF Told
<1>1. /\ t \notin unasked /\ ~WriteLog(t)
      /\ pc[t] \in {"woken", "abort"} \/ (LookForWork /\ bg = <<>> /\ buffer = <<>> /\ writer = "drain")
  BY Woken
<1>2. LinesOf(t)' = LinesOf(t)
  BY <1>1, LinesStay
<1>3. CASE pc[t] \in {"woken", "abort"}
  BY <1>1, <1>2, <1>3, HandledGrows DEF Told
<1>4. CASE LookForWork /\ bg = <<>> /\ buffer = <<>> /\ writer = "drain"
  <2>1. order = handled
    BY <1>4, AllHandled
  <2> QED BY <1>2, <2>1, HandledGrows DEF LinesOf, HandledLines
<1> QED BY <1>1, <1>3, <1>4

LEMMA StoppingStep ==
  ASSUME TypeOK, LinesConserved, Stopping, [Next]_vars
  PROVE  Stopping'
<1>1. HandledLines \subseteq HandledLines' /\ ToSet(order) \subseteq ToSet(order')
  BY HandledGrows, LinesStay
<1>2. CASE \E t \in Loggers : CallExit(t)
  <2>1. /\ due' = ToSet(order) /\ order' = order /\ ~stopped
        /\ writer' = writer /\ ended' = ended /\ ended = "no"
    BY <1>2 DEF CallExit, LogAt, Running, writing
  <2>2. ToSet(order') = ToSet(order)
    BY <2>1
  <2> QED BY <2>1, <2>2 DEF Stopping
<1>3. CASE LookForWork
  <2>1. due' = due /\ ended' = ended /\ stopped' = stopped /\ handled' = handled
    BY <1>3 DEF LookForWork, history
  <2>2. writer' = "exited" => stopped /\ writer = "drain" /\ bg = <<>> /\ buffer = <<>>
    BY <1>3 DEF LookForWork, WriterAt
  <2>3. writer' = "exited" => order = handled
    BY <2>2, AllHandled
  <2> QED BY <1>1, <2>1, <2>2, <2>3 DEF Stopping, HandledLines
<1>4. CASE /\ due' = due /\ (writer' = "exited" => writer = "exited" /\ stopped' = stopped)
           /\ (ended' = "exited" => ended = "exited" \/ writer = "exited")
  BY <1>1, <1>4 DEF Stopping
<1>5. \/ (\E t \in Loggers : CallExit(t)) \/ LookForWork
      \/ /\ due' = due /\ (writer' = "exited" => writer = "exited" /\ stopped' = stopped)
         /\ (ended' = "exited" => ended = "exited" \/ writer = "exited")
  <2>1. CASE StartLog \/ Pop \/ Write \/ SpuriousWakeup \/ AcceptClient \/ CloseClient \/ Ended \/ UNCHANGED vars
    BY <2>1 DEF StartLog, Pop, Write, SpuriousWakeup, AcceptClient, CloseClient, Ended, WriterAt, vars, writing, history
  <2>2. ASSUME NEW t \in Loggers, WriteLog(t) \/ Logger(t) \/ SpuriousFlush(t)
        PROVE  /\ due' = due /\ (writer' = "exited" => writer = "exited" /\ stopped' = stopped)
               /\ (ended' = "exited" => ended = "exited" \/ writer = "exited")
    BY <2>2 DEF WriteLog, Logger, Flush, FlushReturns, Abort, DestroySignals, DestroyJoins, SpuriousFlush, SignalJobs,
                writing, history
  <2>3. ASSUME NEW t \in Signalled, OpenNew(t) \/ Reopen(t)
        PROVE  due' = due /\ writer' = writer /\ stopped' = stopped /\ ended' = ended
    BY <2>3 DEF OpenNew, Reopen, CloseOld, AssignNew, writing, history
  <2> QED BY <2>1, <2>2, <2>3 DEF Next, AsyncWriter
<1> QED BY <1>2, <1>3, <1>4, <1>5

-----------------------------------------------------------------------------
(* The log files.                                                           *)

FileVars == <<fds, g_log_fd, reopen, newFd, overlap, ended>>
InLogVars == <<raced, astray, writer, fd>>

LEMMA OneHandlerStep ==
  ASSUME TypeOK, ReopenInv, [Next]_vars, ~overlap'
  PROVE  ~overlap /\ OneHandler /\ OneHandler'
<1>0. reopen \in [Threads -> ReopenSteps] /\ Signalled \subseteq Threads
  BY LoggerAssumption DEF TypeOK
<1>1. CASE UNCHANGED <<reopen, overlap>>
  BY <1>1 DEF ReopenInv, OneHandler
<1>2. ASSUME NEW t \in Signalled, OpenNew(t)
      PROVE  ~overlap /\ OneHandler /\ OneHandler'
  <2>1. ~overlap /\ \A u \in Threads : reopen[u] = "none"
    BY <1>2, Zenon DEF OpenNew
  <2>2. \A u \in Threads \ {t} : reopen'[u] = reopen[u]
    BY <1>0, <1>2 DEF OpenNew, ReopenAt
  <2> QED BY <2>1, <2>2 DEF ReopenInv, OneHandler
<1>3. ASSUME NEW t \in Signalled, Reopen(t)
      PROVE  ~overlap /\ OneHandler /\ OneHandler'
  <2>1. ~overlap /\ reopen[t] # "none" /\ \A u \in Threads \ {t} : reopen'[u] = reopen[u]
    BY <1>0, <1>3 DEF Reopen, CloseOld, AssignNew, ReopenAt, handlers
  <2> QED BY <2>1 DEF ReopenInv, OneHandler
<1>4. \/ UNCHANGED <<reopen, overlap>>
      \/ \E t \in Signalled : OpenNew(t) \/ Reopen(t)
  BY DEF Next, AsyncWriter, Logger, StartLog, Pop, Write, LookForWork, SpuriousWakeup, AcceptClient, CloseClient,
         Ended, WriteLog, Flush, FlushReturns, Abort, DestroySignals, DestroyJoins, CallExit, SpuriousFlush,
         vars, handlers
<1> QED BY <1>1, <1>2, <1>3, <1>4

(* A client takes a number that is free, and gives one back.               *)
LEMMA ClientsLeaveLogs ==
  ASSUME TypeOK, AcceptClient \/ CloseClient
  PROVE  LogFds' = LogFds
<1>1. CASE AcceptClient
  <2>1. /\ Lowest(Free) \in Descriptors /\ fds[Lowest(Free)] = "free"
        /\ fds' = [fds EXCEPT ![Lowest(Free)] = "client"]
    BY <1>1, LowestFree DEF AcceptClient
  <2> QED BY <2>1 DEF TypeOK, LogFds
<1>2. CASE CloseClient
  BY <1>2 DEF CloseClient, TypeOK, LogFds
<1> QED BY <1>1, <1>2

LEMMA LogsStep ==
  ASSUME TypeOK, ReopenInv, [Next]_vars, ~overlap'
  PROVE  LogsNow'
<1>0. /\ reopen \in [Threads -> ReopenSteps] /\ newFd \in [Threads -> Descriptors]
      /\ fds \in [Descriptors -> Files] /\ g_log_fd \in Descriptors /\ Signalled \subseteq Threads
  BY LoggerAssumption DEF TypeOK
<1>1. ~overlap /\ OneHandler /\ OneHandler' /\ LogsNow
  BY OneHandlerStep DEF ReopenInv
<1>2. CASE UNCHANGED <<LogFds, g_log_fd, reopen, newFd, ended>>
  BY <1>1, <1>2 DEF LogsNow
<1>3. CASE ended' # "no"
  BY <1>3 DEF LogsNow
<1>4. ASSUME NEW t \in Signalled, OpenNew(t)
      PROVE  LogsNow'
  <2>1. (\A u \in Threads : reopen[u] = "none") /\ g_log_fd' = g_log_fd /\ ended = "no"
    BY <1>4, Zenon DEF OpenNew, ReopenAt
  <2>2. LogFds = {g_log_fd}
    BY <1>1, <2>1 DEF LogsNow
  <2>3. CASE Free = {}
    <3>1. UNCHANGED <<fds, newFd>> /\ reopen' = reopen
      BY <1>0, <1>4, <2>1, <2>3 DEF OpenNew, ReopenAt
    <3> QED BY <2>1, <2>2, <3>1 DEF LogsNow, LogFds
  <2>4. CASE Free # {}
    <3> DEFINE d == Lowest(Free)
    <3>1. d \in Descriptors /\ fds[d] = "free"
      BY <2>4, LowestFree
    <3>2. /\ fds' = [fds EXCEPT ![d] = "log"] /\ newFd'[t] = d
          /\ reopen' = [reopen EXCEPT ![t] = "close"]
      BY <1>0, <1>4, <2>4 DEF OpenNew, ReopenAt
    <3> HIDE DEF d
    <3>3. LogFds' = {g_log_fd, d} /\ d # g_log_fd
      BY <1>0, <2>2, <3>1, <3>2 DEF LogFds
    <3>4. reopen'[t] = "close" /\ \A u \in Threads \ {t} : reopen'[u] = "none"
      BY <1>0, <2>1, <3>2
    <3> QED BY <1>0, <2>1, <3>2, <3>3, <3>4 DEF LogsNow
  <2> QED BY <2>3, <2>4
<1>5. ASSUME NEW t \in Signalled, CloseOld(t)
      PROVE  LogsNow'
  <2>1. /\ ended = "no" /\ reopen[t] = "close" /\ reopen' = [reopen EXCEPT ![t] = "assign"]
        /\ fds' = [fds EXCEPT ![g_log_fd] = "free"] /\ UNCHANGED <<g_log_fd, newFd>>
    BY <1>5 DEF CloseOld, ReopenAt
  <2>2. LogFds = {g_log_fd, newFd[t]} /\ newFd[t] # g_log_fd
    BY <1>0, <1>1, <2>1 DEF LogsNow
  <2>3. LogFds' = {newFd[t]}
    BY <1>0, <2>1, <2>2 DEF LogFds
  <2>4. reopen'[t] = "assign" /\ \A u \in Threads \ {t} : reopen'[u] = "none"
    BY <1>0, <1>1, <2>1 DEF OneHandler, ReopenSteps
  <2> QED BY <1>0, <2>1, <2>3, <2>4 DEF LogsNow
<1>6. ASSUME NEW t \in Signalled, AssignNew(t)
      PROVE  LogsNow'
  <2>1. /\ ended = "no" /\ reopen[t] = "assign" /\ reopen' = [reopen EXCEPT ![t] = "none"]
        /\ g_log_fd' = newFd[t] /\ fds' = fds
    BY <1>6 DEF AssignNew, ReopenAt
  <2>2. LogFds' = {newFd[t]}
    BY <1>0, <1>1, <2>1 DEF LogsNow, LogFds
  <2>3. \A u \in Threads : reopen'[u] = "none"
    BY <1>0, <1>1, <2>1 DEF OneHandler
  <2> QED BY <2>1, <2>2, <2>3 DEF LogsNow
<1>7. \/ UNCHANGED <<LogFds, g_log_fd, reopen, newFd, ended>> \/ ended' # "no"
      \/ \E t \in Signalled : OpenNew(t) \/ CloseOld(t) \/ AssignNew(t)
  <2>1. AcceptClient \/ CloseClient => UNCHANGED <<LogFds, g_log_fd, reopen, newFd, ended>>
    BY ClientsLeaveLogs DEF AcceptClient, CloseClient, handlers
  <2>2. fds' = fds => LogFds' = LogFds
    BY DEF LogFds
  <2>3. StartLog \/ AsyncWriter \/ SpuriousWakeup \/ Ended \/ UNCHANGED vars
          => UNCHANGED <<fds, g_log_fd, reopen, newFd, ended>>
    BY DEF AsyncWriter, StartLog, Pop, Write, LookForWork, SpuriousWakeup, Ended, vars, files, handlers
  <2>4. ASSUME NEW t \in Loggers, WriteLog(t) \/ Logger(t) \/ CallExit(t) \/ SpuriousFlush(t)
        PROVE  UNCHANGED <<fds, g_log_fd, reopen, newFd, ended>> \/ ended' # "no"
    BY <2>4 DEF WriteLog, Logger, Flush, FlushReturns, Abort, DestroySignals, DestroyJoins, CallExit, SpuriousFlush,
                files, handlers
  <2> QED BY <2>1, <2>2, <2>3, <2>4 DEF Next, Reopen
<1> QED BY <1>2, <1>3, <1>4, <1>5, <1>6, <1>7

LEMMA InLogStep ==
  ASSUME TypeOK, ReopenInv, [Next]_vars, ~overlap'
  PROVE  InLog'
<1>0. reopen \in [Threads -> ReopenSteps] /\ Signalled \subseteq Threads
  BY LoggerAssumption DEF TypeOK
<1>1. ~overlap /\ OneHandler /\ LogsNow /\ InLog
  BY OneHandlerStep DEF ReopenInv
<1>2. CASE Pop
  <2>1. writer' = "write" => fd' = g_log_fd'
    BY <1>2 DEF Pop, WriterAt, files
  <2>2. /\ reopen' = reopen /\ astray' = astray
        /\ ~raced' => ~raced /\ \A t \in Threads : reopen[t] # "assign"
    BY <1>2, Zenon DEF Pop, handlers
  <2> QED BY <1>1, <2>1, <2>2 DEF InLog
<1>3. CASE Write
  <2>1. writer = "write" /\ writer' = "drain" /\ raced' = raced /\ ended = "no"
    BY <1>3 DEF Write, WriterAt, Running
  <2>2. ASSUME ~raced PROVE fds[fd] = "log"
    <3>1. fd = g_log_fd /\ \A t \in Threads : reopen[t] # "assign"
      BY <1>1, <2>1, <2>2 DEF InLog
    <3>2. g_log_fd \in LogFds
      <4>1. CASE \A t \in Threads : reopen[t] = "none"
        BY <1>1, <2>1, <4>1 DEF LogsNow
      <4>2. ASSUME NEW t \in Threads, reopen[t] # "none" PROVE g_log_fd \in LogFds
        <5>1. reopen[t] = "close"
          BY <1>0, <3>1, <4>2 DEF ReopenSteps
        <5> QED BY <1>1, <2>1, <5>1 DEF LogsNow
      <4> QED BY <4>1, <4>2
    <3> QED BY <3>1, <3>2 DEF LogFds
  <2> QED BY <1>1, <1>3, <2>1, <2>2 DEF Write, InLog
<1>4. ASSUME NEW t \in Signalled, OpenNew(t)
      PROVE  InLog'
  <2>1. UNCHANGED <<InLogVars, g_log_fd>> /\ reopen \in [Threads -> ReopenSteps]
    BY <1>0, <1>4 DEF OpenNew, InLogVars, writing, history
  <2>2. \A u \in Threads : reopen'[u] = "assign" => reopen[u] = "assign"
    BY <1>0, <1>4 DEF OpenNew, ReopenAt
  <2> QED BY <1>1, <2>1, <2>2 DEF InLog, InLogVars
<1>5. ASSUME NEW t \in Signalled, CloseOld(t)
      PROVE  InLog'
  <2>1. ~raced' => ~raced /\ writer # "write"
    BY <1>5, Zenon DEF CloseOld
  <2> QED BY <1>1, <1>5, <2>1 DEF InLog, CloseOld, writing
<1>6. ASSUME NEW t \in Signalled, AssignNew(t)
      PROVE  InLog'
  <2>1. t \in Threads /\ reopen[t] = "assign" /\ UNCHANGED InLogVars
    BY <1>0, <1>6 DEF AssignNew, ReopenAt, InLogVars, writing, history
  <2> QED BY <1>1, <2>1 DEF InLog, InLogVars
<1>7. CASE UNCHANGED <<raced, astray, fd, g_log_fd, reopen>> /\ (writer' = "write" => writer = "write")
  BY <1>1, <1>7 DEF InLog
<1>8. \/ Pop \/ Write
      \/ \E t \in Signalled : OpenNew(t) \/ CloseOld(t) \/ AssignNew(t)
      \/ UNCHANGED <<raced, astray, fd, g_log_fd, reopen>> /\ (writer' = "write" => writer = "write")
  <2>1. CASE StartLog \/ LookForWork \/ SpuriousWakeup \/ AcceptClient \/ CloseClient \/ Ended \/ UNCHANGED vars
    BY <2>1 DEF StartLog, LookForWork, SpuriousWakeup, AcceptClient, CloseClient, Ended, WriterAt,
                vars, writing, files, handlers, history
  <2>2. ASSUME NEW t \in Loggers, WriteLog(t) \/ Logger(t) \/ CallExit(t) \/ SpuriousFlush(t)
        PROVE  UNCHANGED <<raced, astray, fd, g_log_fd, reopen>> /\ (writer' = "write" => writer = "write")
    BY <2>2 DEF WriteLog, Logger, Flush, FlushReturns, Abort, DestroySignals, DestroyJoins, CallExit, SpuriousFlush,
                SignalJobs, writing, files, handlers, history
  <2> QED BY <2>1, <2>2 DEF Next, AsyncWriter, Reopen
<1> QED BY <1>2, <1>3, <1>4, <1>5, <1>6, <1>7, <1>8

-----------------------------------------------------------------------------

LEMMA InitInvariant == Init => IInv
<1> SUFFICES ASSUME Init PROVE IInv
  OBVIOUS
<1>1. TypeOK
  BY InitType
<1>2. LinesConserved
  BY <1>1, AllHandled, ConcatEmptySeq DEF Init, LinesConserved, TypeOK
<1>3. Told /\ Stopping
  BY <1>1 DEF Init, Told, Stopping, TypeOK
<1>4. ReopenInv
  BY <1>1 DEF Init, ReopenInv, OneHandler, LogsNow, LogFds, InLog, TypeOK
<1> QED BY <1>1, <1>2, <1>3, <1>4 DEF IInv

LEMMA NextInvariant == IInv /\ [Next]_vars => IInv'
<1> SUFFICES ASSUME IInv, [Next]_vars PROVE IInv'
  OBVIOUS
<1>1. TypeOK /\ LinesConserved /\ Told /\ Stopping /\ ReopenInv
  BY DEF IInv
<1>2. TypeOK'
  BY <1>1, TypeStep
<1>3. LinesConserved'
  BY <1>1, ConservedStep
<1>4. Told'
  BY <1>1, ToldStep
<1>5. Stopping'
  BY <1>1, StoppingStep
<1>6. ReopenInv'
  BY <1>1, OneHandlerStep, LogsStep, InLogStep DEF ReopenInv
<1> QED BY <1>2, <1>3, <1>4, <1>5, <1>6 DEF IInv

LEMMA Invariant == Spec => []IInv
BY InitInvariant, NextInvariant, PTL DEF Spec

(* Whatever threads log, from whichever of them, WriteLog() and Flush()    *)
(* to write(), through both queues: every entry is there once, in order.   *)
THEOREM NothingLoggedIsLost == Spec => []LinesConserved
<1>1. IInv => LinesConserved
  BY DEF IInv
<1> QED BY <1>1, Invariant, PTL

(* Flush() and ~AsyncLogger() return only when the writer is done: Flush() *)
(* believes any wake-up of done_, and but for spurious ones each comes     *)
(* when both queues are empty.                                             *)
THEOREM FlushWaitsLongEnough == Spec => []LinesWritten
<1>1. IInv => LinesWritten
  BY DEF IInv, Told, Stopping, LinesWritten
<1> QED BY <1>1, Invariant, PTL

(* The SIGUSR1 handler, without a lock: one log file is open after it, and *)
(* lines go there but for two windows, if no two handlers run at once.     *)
THEOREM ReopenKeepsOneLog == Spec => []LinesReachLog
<1>1. IInv => LinesReachLog
  BY DEF IInv, ReopenInv, LogsNow, LogFds, InLog, LinesReachLog
<1> QED BY <1>1, Invariant, PTL

(* A handler's close() is of a log file, never of a client that took the   *)
(* number meanwhile, if no two handlers run at once.                       *)
ClosesLogs == \A t \in Signalled : CloseOld(t) /\ ~overlap => fds[g_log_fd] = "log"

THEOREM HandlersSpareClients == Spec => [][ClosesLogs]_vars
<1>1. IInv /\ [Next]_vars => [ClosesLogs]_vars
  <2> SUFFICES ASSUME IInv, NEW t \in Signalled, CloseOld(t), ~overlap
               PROVE  fds[g_log_fd] = "log"
    BY DEF ClosesLogs
  <2>1. t \in Threads /\ ended = "no" /\ reopen[t] = "close"
    BY LoggerAssumption DEF CloseOld, ReopenAt
  <2>2. g_log_fd \in LogFds
    BY <2>1 DEF IInv, ReopenInv, LogsNow
  <2> QED BY <2>2 DEF LogFds
<1> QED BY <1>1, Invariant, PTL DEF Spec


-----------------------------------------------------------------------------
(* The files.                                                               *)

Configs == [level : Int, size : Nat, count : Nat, limit : Nat]
Opened  == [name : {-1} \cup 2 .. Days, offset : Nat, append : BOOLEAN]

(* The newest log there can be: the one in use, or today's at the start.   *)
Newest == IF logFile.name = -1 THEN 2 ELSE logFile.name

FilesTyped ==
  /\ day \in 2 .. Days
  /\ disk \in [Names -> Int] /\ \A f \in Names : disk[f] >= -1
  /\ config \in Configs
  /\ logFile \in Opened /\ (logFile.name = -1 => logFile = Stdout)
  /\ g_log_set \in SUBSET Paths
  /\ named \in {"none", "bare", "./"} /\ (named = "none" => logFile = Stdout)
  /\ twice \in BOOLEAN /\ unnamed \in BOOLEAN

(* No log is newer than the one in use, and no other file is remembered    *)
(* while the log has its name.                                             *)
NoneNewer ==
  /\ Newest <= day
  /\ \A f \in Names : Newest < f /\ f < Stray => disk[f] = -1 /\ f \notin g_log_set
  /\ 0 \in g_log_set => unnamed

(* Only logs that were opened are remembered without the directory, each   *)
(* as long as it is there: then its other name, found later, is a second.  *)
Spellings ==
  /\ \A e \in g_log_set : e > Stray => named = "bare" /\ 2 <= File(e) /\ File(e) <= Newest
  /\ named = "bare" =>
       \A f \in Names : (2 < f /\ f < Stray) \/ f = logFile.name => disk[f] = -1 \/ Bare(f) \in g_log_set
  /\ named # "./" /\ ~twice => \A e \in g_log_set : e <= 2 \/ e >= Stray

FilesInv == FilesTyped /\ NoneNewer /\ Spellings

LEMMA NamesAreFinite ==
  /\ IsFiniteSet(Names) /\ Names = 0 .. Stray /\ Stray \in Nat /\ Stray = Days + 1 /\ Stray >= 3
  /\ IsFiniteSet(Paths) /\ Paths = 0 .. 2 * Stray + 1
<1>1. Stray \in Nat /\ Stray = Days + 1 /\ Stray >= 3
  BY FilesAssumption DEF Stray
<1>2. IsFiniteSet(0 .. Stray) /\ IsFiniteSet(0 .. 2 * Stray + 1)
  BY <1>1, FS_Interval
<1> QED BY <1>1, <1>2 DEF Names, Paths

LEMMA BothNames ==
  /\ \A f \in Names : /\ f \in Int /\ 0 <= f /\ f <= Stray /\ File(f) = f
                       /\ Bare(f) \in Paths /\ File(Bare(f)) = f /\ Bare(f) > Stray
  /\ \A e \in Paths : /\ e \in Int /\ File(e) \in Names
                      /\ e <= Stray => e \in Names /\ e = File(e)
                      /\ e > Stray => e = Bare(File(e))
  /\ Names \subseteq Paths
  BY NamesAreFinite DEF Bare, File

LEMMA LongerOfTwo == ASSUME NEW a \in Int, NEW b \in Int
                     PROVE  Max({a, b}) \in {a, b} /\ Max({a, b}) >= a /\ Max({a, b}) >= b
  BY DEF Max

(* How many files come before one: the later of two has more before it.    *)
Rank(place, set, f) == Cardinality({g \in set : place[g] < place[f]})

LEMMA Ranks ==
  ASSUME NEW place \in [Paths -> Int], NEW set \in SUBSET Paths, NEW f \in set, NEW g \in set
  PROVE  /\ Rank(place, set, f) \in Nat /\ Cardinality(set) \in Nat
         /\ Rank(place, set, f) < Cardinality(set)
         /\ place[f] <= place[g] => Rank(place, set, f) <= Rank(place, set, g)
         /\ place[f] < place[g] => Rank(place, set, f) < Rank(place, set, g)
<1> DEFINE F == {y \in set : place[y] < place[f]}
           G == {y \in set : place[y] < place[g]}
<1>1. IsFiniteSet(set)
  BY NamesAreFinite, FS_Subset
<1>2. F \subseteq set /\ G \subseteq set /\ F # set /\ f \notin F
  OBVIOUS
<1>3. place[f] <= place[g] => F \subseteq G
  OBVIOUS
<1>4. place[f] < place[g] => F \subseteq G /\ F # G
  OBVIOUS
<1> HIDE DEF F, G
<1>5. IsFiniteSet(F) /\ IsFiniteSet(G) /\ Cardinality(F) <= Cardinality(set) /\ Cardinality(F) # Cardinality(set)
  BY <1>1, <1>2, FS_Subset
<1>6. Cardinality(F) \in Nat /\ Cardinality(G) \in Nat /\ Cardinality(set) \in Nat
  BY <1>1, <1>5, FS_CardinalityType
<1>7. F \subseteq G => Cardinality(F) <= Cardinality(G) /\ (F # G => Cardinality(F) # Cardinality(G))
  BY <1>5, FS_Subset
<1>8. Rank(place, set, f) = Cardinality(F) /\ Rank(place, set, g) = Cardinality(G)
  BY DEF Rank, F, G
<1> QED BY <1>3, <1>4, <1>5, <1>6, <1>7, <1>8

(* What the loop removes: the oldest files, and under a limit of their     *)
(* number not all of them.                                                 *)
Trims(k, m) ==
  /\ \E removed : m = Without(k, removed)
  /\ m.set \subseteq k.set
  /\ m.disk = [f \in Names |-> IF (k.set \ m.set) \cap {f, Bare(f)} # {} THEN -1 ELSE k.disk[f]]
  /\ \A f \in k.set \ m.set, g \in m.set : f < g
  /\ k.set # m.set => config'.limit > 0 \/ m.set # {}

LEMMA LoopTrims ==
  ASSUME NEW disk0 \in [Names -> Int], NEW set \in SUBSET Paths, NEW total, config' \in Configs
  PROVE  Trims(Kept(disk0, set, total), Trimmed(Kept(disk0, set, total)))
<1> DEFINE k == Kept(disk0, set, total)
           place == [e \in Paths |-> e]
           Before(f) == Rank(place, set, f)
           After(n) == Without(k, Foremost(place, n, set))
           N == Cardinality(set)
           Enough == {n \in 0 .. N : LoopEnds(place, After(n))}
<1>1. place \in [Paths -> Int] /\ \A e \in Paths : place[e] = e
  BY NamesAreFinite
<1>2. k.set = set /\ k.disk = disk0
  BY DEF Kept
<1>3. IsFiniteSet(set) /\ N \in Nat
  BY NamesAreFinite, FS_Subset, FS_CardinalityType
<1> HIDE DEF place, k
<1>4. \A f \in set : Before(f) \in Nat /\ Before(f) < N
  BY <1>1, Ranks
<1>5. \A f, g \in set : /\ f <= g => Before(f) <= Before(g)
                        /\ f < g => Before(f) < Before(g)
  <2> SUFFICES ASSUME NEW f \in set, NEW g \in set
               PROVE  (f <= g => Before(f) <= Before(g)) /\ (f < g => Before(f) < Before(g))
    OBVIOUS
  <2>1. place[f] = f /\ place[g] = g
    BY <1>1
  <2>2. /\ place[f] <= place[g] => Before(f) <= Before(g)
        /\ place[f] < place[g] => Before(f) < Before(g)
    BY Ranks, <1>1, Zenon
  <2> HIDE DEF Before
  <2> QED BY <2>1, <2>2, Zenon
<1> HIDE DEF Before
<1>6. \A n : /\ After(n).set = {f \in set : ~(Before(f) < n)}
             /\ After(n).disk = [f \in Names |-> IF {g \in set : Before(g) < n} \cap {f, Bare(f)} # {} THEN -1 ELSE disk0[f]]
  <2> SUFFICES ASSUME NEW n
               PROVE  /\ After(n).set = {f \in set : ~(Before(f) < n)}
                      /\ After(n).disk = [f \in Names |-> IF {g \in set : Before(g) < n} \cap {f, Bare(f)} # {} THEN -1 ELSE disk0[f]]
    OBVIOUS
  <2>1. Foremost(place, n, set) = {f \in set : Before(f) < n}
    BY DEF Foremost, Before, Rank
  <2>2. After(n) = Kept([f \in Names |-> IF {g \in set : Before(g) < n} \cap {f, Bare(f)} # {} THEN -1 ELSE disk0[f]],
                        set \ {f \in set : Before(f) < n},
                        k.total - SizeOf(k.disk, {f \in set : Before(f) < n}))
    BY <1>2, <2>1 DEF Without
  <2> QED BY <2>2 DEF Kept
<1>7. N \in Enough
  <2>1. After(N).set = {}
    BY <1>4, <1>6
  <2> HIDE DEF After
  <2>2. LoopEnds(place, After(N))
    BY <2>1 DEF LoopEnds
  <2> QED BY <1>3, <2>2
<1>8. PICK n \in 0 .. N : LoopEnds(place, After(n)) /\ \A m \in 0 .. n - 1 : ~LoopEnds(place, After(m))
  <2>1. Enough \subseteq Nat /\ Enough # {}
    BY <1>3, <1>7
  <2> HIDE DEF After
  <2>2. Lowest(Enough) \in Enough /\ \A m \in Enough : Lowest(Enough) <= m
    <3> HIDE DEF Enough
    <3> QED BY <2>1, LowestExists
  <2> QED BY <1>3, <2>2
<1> DEFINE least == CHOOSE i \in 0 .. N : LoopEnds(place, After(i)) /\ \A m \in 0 .. i - 1 : ~LoopEnds(place, After(m))
<1>9. least \in 0 .. N /\ LoopEnds(place, After(least)) /\ \A m \in 0 .. least - 1 : ~LoopEnds(place, After(m))
  <2> HIDE DEF After
  <2> QED BY <1>8
<1>10. Trimmed(k) = After(least)
  BY <1>2, Zenon DEF Trimmed, TrimmedBy, place
<1> HIDE DEF least, Enough
<1>11. least \in Nat
  BY <1>3, <1>9
<1>12. /\ Trimmed(k).set = {f \in set : ~(Before(f) < least)}
       /\ Trimmed(k).disk = [f \in Names |-> IF {g \in set : Before(g) < least} \cap {f, Bare(f)} # {} THEN -1 ELSE disk0[f]]
  BY <1>6, <1>10, Zenon
<1>13. \E removed : Trimmed(k) = Without(k, removed)
  BY <1>10
<1>14. \A f \in k.set \ Trimmed(k).set, g \in Trimmed(k).set : f < g
  <2> SUFFICES ASSUME NEW f \in set, Before(f) < least, NEW g \in set, ~(Before(g) < least), ~(f < g) PROVE FALSE
    BY <1>2, <1>12
  <2>1. f \in Int /\ g \in Int /\ g <= f
    BY NamesAreFinite
  <2> QED BY <1>4, <1>5, <1>11, <2>1
<1>15. ASSUME k.set # Trimmed(k).set, Trimmed(k).set = {} PROVE config'.limit > 0
  <2>1. PICK f \in set : Before(f) < least
    BY <1>2, <1>12, <1>15
  <2>2. least - 1 \in 0 .. least - 1 /\ least - 1 \in Nat
    BY <1>4, <1>11, <2>1
  <2>3. ~LoopEnds(place, After(least - 1))
    BY <1>9, <2>2
  <2> DEFINE rest == After(least - 1).set
  <2>4. ASSUME NEW x \in rest, NEW y \in rest PROVE x = y
    <3>1. x \in set /\ y \in set /\ Before(x) = least - 1 /\ Before(y) = least - 1
      <4>1. x \in set /\ y \in set /\ ~(Before(x) < least - 1) /\ ~(Before(y) < least - 1)
        BY <1>6, <2>4
      <4>2. Before(x) < least /\ Before(y) < least
        BY <1>12, <1>15, <4>1
      <4> QED BY <1>4, <1>11, <4>1, <4>2
    <3>2. x \in Int /\ y \in Int /\ ~(x < y) /\ ~(y < x)
      BY <1>4, <1>5, <3>1, NamesAreFinite
    <3> QED BY <3>2
  <2>5. Cardinality(rest) \in Nat /\ Cardinality(rest) <= 1
    <3> HIDE DEF rest
    <3>1. CASE rest = {}
      BY <3>1, FS_EmptySet
    <3>2. CASE rest # {}
      <4>1. PICK x : rest = {x}
        BY <2>4, <3>2
      <4>2. Cardinality({x}) = 1
        BY FS_Singleton
      <4> QED BY <4>1, <4>2
    <3> QED BY <3>1, <3>2
  <2>6. TooMuch(After(least - 1))
    BY <2>3 DEF LoopEnds
  <2>7. \/ config'.count > 0 /\ Cardinality(rest) > config'.count
        \/ config'.limit > 0
    <3> HIDE DEF After
    <3> QED BY <2>6 DEF TooMuch
  <2>8. config'.count \in Nat
    BY DEF Configs
  <2> HIDE DEF rest
  <2> QED BY <2>5, <2>7, <2>8
<1>16. k.set \ Trimmed(k).set = {f \in set : Before(f) < least} /\ Trimmed(k).set \subseteq k.set
  BY <1>2, <1>12
<1>17. Trimmed(k).disk = [f \in Names |-> IF (k.set \ Trimmed(k).set) \cap {f, Bare(f)} # {} THEN -1 ELSE k.disk[f]]
  BY <1>2, <1>12, <1>16, Zenon
<1> HIDE DEF After
<1> QED BY <1>13, <1>14, <1>15, <1>16, <1>17, Zenon DEF Trims, k

-----------------------------------------------------------------------------
(* A step that removes files: what the loop is given has lost no file, and *)
(* names nothing newer than the log that is open afterwards.               *)

OnlyOldOnes ==
  \A f \in Names : disk[f] # -1 /\ disk'[f] = -1 /\ elsewhere' = elsewhere =>
       /\ f = 0 => unnamed'
       /\ ~twice' =>
            /\ \A e \in g_log_set' : f < File(e) \/ (f = Stray /\ named' = "bare")
            /\ f = logFile'.name => config'.limit > 0 \/ Stray \in g_log_set \cup g_log_set'

Given(disk0, set) ==
  /\ disk0 \in [Names -> Int] /\ set \in SUBSET Paths
  /\ \A f \in Names : disk0[f] >= -1 /\ (disk[f] # -1 => disk0[f] # -1)
  /\ \A f \in Names : Newest' < f /\ f < Stray => disk0[f] = -1 /\ f \notin set
  /\ 0 \in set => unnamed'
  /\ \A e \in set : e > Stray => named' = "bare" /\ 2 <= File(e) /\ File(e) <= Newest'
  /\ named' = "bare" =>
       \A f \in Names : (2 < f /\ f < Stray) \/ f = logFile'.name => disk0[f] = -1 \/ Bare(f) \in set
  /\ named' # "./" /\ ~twice' => \A e \in set : e <= 2 \/ e >= Stray
  /\ ~twice' => \A f \in Names : ~({f, Bare(f)} \subseteq set)

Settled ==
  /\ config' \in Configs /\ day' \in 2 .. Days /\ logFile' \in Opened /\ Newest' <= day'
  /\ logFile'.name = -1 => logFile' = Stdout
  /\ named' \in {"none", "bare", "./"} /\ (named' = "none" => logFile' = Stdout)
  /\ twice' \in BOOLEAN /\ unnamed' \in BOOLEAN

(* With the name bare, a log found as "./name" is gone before those that   *)
(* were opened, and by then all of them are later.                         *)
LEMMA OldOnesGo ==
  ASSUME FilesInv, NEW disk0, NEW set, NEW total, NEW m, Given(disk0, set),
         m = Trimmed(Kept(disk0, set, total)), g_log_set' = m.set,
         disk' \in [Names -> Int], \A f \in Names : disk'[f] >= -1 /\ (disk'[f] = -1 <=> m.disk[f] = -1),
         Settled
  PROVE  FilesInv' /\ OnlyOldOnes
<1>1. Trims(Kept(disk0, set, total), m)
  BY LoopTrims DEF Given, Settled
<1>2. /\ m.set \subseteq set
      /\ \A f \in Names : m.disk[f] = IF (set \ m.set) \cap {f, Bare(f)} # {} THEN -1 ELSE disk0[f]
      /\ \A e \in set \ m.set, g \in m.set : e < g
      /\ set # m.set => config'.limit > 0 \/ m.set # {}
  BY <1>1 DEF Trims, Kept
<1> HIDE DEF Trims
<1>3. ASSUME NEW f \in Names, Newest' < f, f < Stray PROVE disk'[f] = -1 /\ f \notin g_log_set'
  <2>1. disk0[f] = -1 /\ f \notin set
    BY <1>3 DEF Given
  <2> QED BY <1>2, <2>1
<1>4. FilesInv'
  <2>1. Stray' = Stray /\ Names' = Names /\ Paths' = Paths
    BY DEF Stray, Names, Paths
  <2>2. FilesTyped'
    BY <1>2, <2>1 DEF FilesTyped, Given, Settled
  <2>3. 0 \in g_log_set' => unnamed'
    BY <1>2 DEF Given
  <2>4. NoneNewer'
    BY <1>3, <2>1, <2>3, Zenon DEF NoneNewer, Settled
  <2>5. \A e \in g_log_set' : e > Stray => named' = "bare" /\ 2 <= File(e) /\ File(e) <= Newest'
    BY <1>2 DEF Given
  <2>6. ASSUME named' = "bare", NEW f \in Names, (2 < f /\ f < Stray) \/ f = logFile'.name, disk'[f] # -1
        PROVE  Bare(f) \in g_log_set'
    <3>1. m.disk[f] # -1
      BY <2>6
    <3>2. Bare(f) \notin set \ m.set /\ disk0[f] # -1
      BY <1>2, <3>1
    <3> QED BY <2>6, <3>2 DEF Given
  <2>7. named' # "./" /\ ~twice' => \A e \in g_log_set' : e <= 2 \/ e >= Stray
    BY <1>2 DEF Given
  <2>8. Spellings'
    BY <2>1, <2>5, <2>6, <2>7, Zenon DEF Spellings, File, Bare
  <2> QED BY <2>2, <2>4, <2>8 DEF FilesInv
<1>5. ASSUME NEW f \in Names, disk[f] # -1, disk'[f] = -1
      PROVE  /\ f = 0 => unnamed'
             /\ ~twice' =>
                  /\ \A g \in g_log_set' : f < File(g) \/ (f = Stray /\ named' = "bare")
                  /\ f = logFile'.name => config'.limit > 0 \/ Stray \in g_log_set'
  <2>1. PICK e \in {f, Bare(f)} : e \in set \ m.set
    <3>1. m.disk[f] = -1 /\ disk0[f] # -1
      BY <1>5 DEF Given
    <3> QED BY <1>2, <3>1
  <2>2. /\ e \in Paths /\ e \in Int /\ File(e) = f /\ f \in Int /\ 0 <= f /\ f <= Stray /\ Stray \in Int
        /\ e <= Stray => e = f
        /\ e > Stray => e = Bare(f)
    <3>1. e \in set /\ e \in Paths
      BY <2>1 DEF Given
    <3>2. f \in Int /\ 0 <= f /\ f <= Stray /\ Stray \in Int /\ File(f) = f /\ File(Bare(f)) = f /\ Bare(f) > Stray
      BY BothNames, NamesAreFinite
    <3>3. e \in Int
      BY <3>1, BothNames
    <3> QED BY <2>1, <3>1, <3>2, <3>3
  <2>3. e > Stray => named' = "bare" /\ 2 <= f /\ f <= Newest'
    BY <2>1, <2>2 DEF Given
  <2>4. f = 0 => unnamed'
    <3>1. f = 0 => e = 0
      BY <2>2, <2>3
    <3> QED BY <2>1, <3>1 DEF Given
  <2>5. ASSUME ~twice', NEW g \in g_log_set' PROVE f < File(g) \/ (f = Stray /\ named' = "bare")
    <3>1. g \in set /\ e < g
      BY <1>2, <2>1, <2>5
    <3>2. g \in Paths /\ g \in Int /\ File(g) \in Names /\ File(g) \in Int
      BY <3>1, BothNames DEF Given
    <3>3. CASE g <= Stray
      <4>1. g = File(g) /\ e = f
        BY <2>2, <3>1, <3>2, <3>3, BothNames
      <4> QED BY <3>1, <4>1
    <3>4. CASE e > Stray
      <4>1. g > Stray
        BY <2>2, <3>1, <3>2, <3>4
      <4>2. e = Bare(f) /\ g = Bare(File(g))
        BY <2>2, <3>2, <3>4, <4>1, BothNames
      <4> QED BY <2>2, <3>1, <3>2, <4>2 DEF Bare
    <3>5. CASE e <= Stray /\ g > Stray
      <4>1. named' = "bare" /\ 2 <= File(g) /\ g = Bare(File(g)) /\ e = f
        BY <2>2, <3>1, <3>2, <3>5, BothNames DEF Given
      <4>2. e <= 2 \/ e >= Stray
        BY <2>1, <2>5, <4>1 DEF Given
      <4>3. f # File(g)
        <5>1. ~({f, Bare(f)} \subseteq set)
          BY <2>5 DEF Given
        <5> QED BY <2>1, <3>1, <4>1, <5>1
      <4> QED BY <2>2, <3>2, <4>1, <4>2, <4>3
    <3> QED BY <2>2, <3>2, <3>3, <3>4, <3>5
  <2>6. ASSUME ~twice', f = logFile'.name, ~(config'.limit > 0) PROVE Stray \in g_log_set'
    <3>1. PICK g : g \in m.set
      BY <1>2, <2>1, <2>6
    <3>2. g \in Paths /\ g \in Int /\ g \in set /\ e < g /\ File(g) \in Int
      BY <1>2, <2>1, <3>1, BothNames DEF Given
    <3>3. Newest' = f /\ f < Stray
      <4>1. f \in 2 .. Days
        BY <2>2, <2>6 DEF Settled, Opened
      <4> QED BY <2>2, <2>6, <4>1, NamesAreFinite, FilesAssumption DEF Newest
    <3>4. CASE e > Stray
      <4>1. g > Stray
        BY <2>2, <3>2, <3>4
      <4>2. File(g) <= f
        BY <3>2, <3>3, <4>1 DEF Given
      <4>3. e = Bare(f) /\ g = Bare(File(g))
        BY <2>2, <3>2, <3>4, <4>1, BothNames
      <4> QED BY <2>2, <3>2, <4>2, <4>3 DEF Bare
    <3>5. CASE e <= Stray /\ g <= Stray
      <4>1. e = f /\ g \in Names
        BY <2>2, <3>2, <3>5, BothNames
      <4>2. ~(g < Stray)
        BY <1>3, <2>2, <3>1, <3>2, <3>3, <4>1
      <4> QED BY <2>2, <3>1, <3>2, <3>5, <4>2
    <3>6. CASE e <= Stray /\ g > Stray
      <4>1. named' = "bare" /\ e = f
        BY <2>2, <3>2, <3>6 DEF Given
      <4>2. disk0[f] # -1
        BY <1>5 DEF Given
      <4>3. Bare(f) \in set
        BY <2>6, <4>1, <4>2 DEF Given
      <4> QED BY <2>1, <2>6, <4>1, <4>3 DEF Given
    <3> QED BY <2>2, <3>2, <3>4, <3>5, <3>6
  <2> QED BY <2>4, <2>5, <2>6
<1> QED BY <1>4, <1>5 DEF OnlyOldOnes

LEMMA WritesRemoveNothing ==
  ASSUME NEW file \in Opened, file.name = -1 => file = Stdout, NEW n \in Nat,
         NEW before \in [Names -> Int], \A f \in Names : before[f] >= -1
  PROVE  /\ Written(file, before, n) \in [Names -> Int]
         /\ \A f \in Names : /\ Written(file, before, n)[f] >= -1
                             /\ Written(file, before, n)[f] = -1 <=> before[f] = -1
<1>1. CASE file = Stdout \/ before[file.name] = -1
  BY <1>1 DEF Written
<1>2. CASE ~(file = Stdout \/ before[file.name] = -1)
  <2> DEFINE d == file.name
             size == IF file.append THEN before[d] + n ELSE Max({before[d], file.offset + n})
  <2>1. d \in Names /\ d \in Int /\ file.offset \in Nat
    BY <1>2, NamesAreFinite, FilesAssumption DEF Opened
  <2>2. before[d] \in Int /\ before[d] >= 0 /\ file.offset + n \in Int
    BY <1>2, <2>1
  <2>3. Max({before[d], file.offset + n}) \in Int /\ Max({before[d], file.offset + n}) >= before[d]
    BY <2>2, LongerOfTwo
  <2>4. size \in Int /\ size >= 0
    BY <2>2, <2>3
  <2>5. Written(file, before, n) = [before EXCEPT ![d] = size]
    BY <1>2, Zenon DEF Written
  <2> HIDE DEF size, d
  <2> QED BY <2>1, <2>2, <2>4, <2>5
<1> QED BY <1>1, <1>2

LEMMA NamedDay == ASSUME FilesInv
                  PROVE  /\ day \in Names /\ day \in Int /\ 2 <= day /\ day < Stray /\ day <= Days
                         /\ \A f \in Names : f \in Int /\ 0 <= f /\ f <= Stray
                         /\ Newest \in Int /\ Newest <= day /\ 2 <= Newest
  BY NamesAreFinite, FilesAssumption DEF FilesInv, FilesTyped, NoneNewer, Newest, Opened

(* Today's log is begun.                                                   *)
LEMMA TodaysLog ==
  ASSUME FilesInv, logFile'.name = day, unnamed' = unnamed, Inserted({today}),
         named' \in {"bare", "./"}, named \in {"none", named'}
  PROVE  Given(Begun(disk), g_log_set \cup {today}) /\ twice' \in BOOLEAN
<1>1. Newest' = day
  BY NamedDay DEF Newest
<1>2. /\ disk \in [Names -> Int] /\ \A f \in Names : disk[f] >= -1
      /\ g_log_set \in SUBSET Paths /\ twice \in BOOLEAN
  BY DEF FilesInv, FilesTyped
<1>3. /\ Begun(disk) \in [Names -> Int]
      /\ \A f \in Names : /\ f # day => Begun(disk)[f] = disk[f]
                          /\ Begun(disk)[f] >= -1 /\ (disk[f] # -1 => Begun(disk)[f] # -1)
  BY <1>2, NamedDay DEF Begun
<1>4. /\ today \in Paths /\ File(today) = day /\ today # 0
      /\ today > Stray => today = Bare(day) /\ named' = "bare"
      /\ today <= Stray => today = day /\ named' = "./"
  <2>1. /\ day \in Paths /\ Bare(day) \in Paths /\ File(day) = day /\ File(Bare(day)) = day
        /\ Bare(day) > Stray /\ day # 0 /\ ~(day > Stray)
    <3>1. day \in Names /\ day \in Int /\ 2 <= day /\ day < Stray /\ Stray \in Int
      BY NamedDay, NamesAreFinite
    <3> QED BY <3>1, BothNames
  <2>2. (today = Bare(day) /\ named' = "bare") \/ (today = day /\ named' = "./")
    BY DEF today
  <2>3. Stray \in Int /\ Stray > 0 /\ ~(Bare(day) <= Stray) /\ Bare(day) # 0
    <3>1. Stray \in Int /\ Stray > 0 /\ day \in Int /\ 2 <= day
      BY NamedDay, NamesAreFinite
    <3> QED BY <3>1 DEF Bare
  <2> QED BY <2>1, <2>2, <2>3
<1>5. \A f \in Names : day < f /\ f < Stray => Begun(disk)[f] = -1 /\ f \notin g_log_set \cup {today}
  <2> SUFFICES ASSUME NEW f \in Names, day < f, f < Stray PROVE Begun(disk)[f] = -1 /\ f \notin g_log_set \cup {today}
    OBVIOUS
  <2>1. Newest < f /\ f # day
    BY NamedDay
  <2>2. disk[f] = -1 /\ f \notin g_log_set
    BY <2>1 DEF FilesInv, NoneNewer
  <2>3. f # today
    BY <1>4, <2>1, BothNames
  <2> QED BY <1>3, <2>1, <2>2, <2>3
<1>6. g_log_set \cup {today} \in SUBSET Paths /\ (0 \in g_log_set \cup {today} => unnamed')
  BY <1>2, <1>4 DEF FilesInv, NoneNewer
<1>7. ASSUME NEW e \in g_log_set \cup {today}, e > Stray
      PROVE  named' = "bare" /\ 2 <= File(e) /\ File(e) <= Newest'
  <2>1. CASE e = today
    BY <1>1, <1>4, <1>7, <2>1, NamedDay
  <2>2. CASE e \in g_log_set
    <3>1. named = "bare" /\ 2 <= File(e) /\ File(e) <= Newest
      BY <1>7, <2>2 DEF FilesInv, Spellings
    <3>2. File(e) \in Int
      BY <1>2, <2>2, BothNames
    <3> QED BY <1>1, <3>1, <3>2, NamedDay
  <2> QED BY <1>7, <2>1, <2>2
<1>8. ASSUME named' = "bare", NEW f \in Names, (2 < f /\ f < Stray) \/ f = logFile'.name, Begun(disk)[f] # -1
      PROVE  Bare(f) \in g_log_set \cup {today}
  <2>1. CASE f = day
    BY <1>8, <2>1 DEF today
  <2>2. CASE f # day
    <3>1. 2 < f /\ f < Stray /\ disk[f] # -1
      BY <1>3, <1>8, <2>2
    <3>2. ~(Newest < f)
      BY <3>1 DEF FilesInv, NoneNewer
    <3>3. named # "none"
      BY <3>1, <3>2, NamedDay DEF FilesInv, FilesTyped, Newest, Stdout
    <3> QED BY <1>8, <3>1, <3>3 DEF FilesInv, Spellings
  <2> QED BY <2>1, <2>2
<1>9. ASSUME named' # "./", ~twice', NEW e \in g_log_set \cup {today} PROVE e <= 2 \/ e >= Stray
  <2>1. ~twice
    BY <1>9 DEF Inserted
  <2>2. CASE e = today
    BY <1>4, <1>9, <2>2, BothNames, NamesAreFinite
  <2>3. CASE e \in g_log_set
    BY <1>9, <2>1, <2>3 DEF FilesInv, Spellings
  <2> QED BY <1>9, <2>2, <2>3
<1>10. /\ ~twice' => \A f \in Names : ~({f, Bare(f)} \subseteq g_log_set \cup {today})
       /\ twice' \in BOOLEAN
  BY <1>2 DEF Inserted
<1> HIDE DEF today
<1>11. \A f \in Names : Newest' < f /\ f < Stray => Begun(disk)[f] = -1 /\ f \notin g_log_set \cup {today}
  BY <1>1, <1>5
<1> QED BY <1>3, <1>6, <1>7, <1>8, <1>9, <1>10, <1>11 DEF Given

WithDisk(m, d) == [m EXCEPT !.disk = d]

LEMMA KeepsTrimmed ==
  ASSUME NEW disk0 \in [Names -> Int], NEW set \in SUBSET Paths, NEW total, config' \in Configs,
         \A f \in Names : disk0[f] >= -1
  PROVE  LET m == Trimmed(Kept(disk0, set, total))
         IN  /\ m.disk \in [Names -> Int] /\ \A f \in Names : m.disk[f] >= -1
             /\ \A d : WithDisk(m, d).disk = d /\ WithDisk(m, d).set = m.set
<1> DEFINE m == Trimmed(Kept(disk0, set, total))
<1>1. Trims(Kept(disk0, set, total), m)
  BY LoopTrims
<1>2. m.disk = [f \in Names |-> IF (set \ m.set) \cap {f, Bare(f)} # {} THEN -1 ELSE disk0[f]]
  BY <1>1 DEF Trims, Kept
<1>3. PICK removed : m = Without(Kept(disk0, set, total), removed)
  BY <1>1 DEF Trims
<1> HIDE DEF m
<1>4. \A d : WithDisk(m, d).disk = d /\ WithDisk(m, d).set = m.set
  BY <1>3 DEF Without, Kept, WithDisk
<1>5. m.disk \in [Names -> Int] /\ \A f \in Names : m.disk[f] >= -1
  BY <1>2
<1> QED BY <1>4, <1>5 DEF m

LEMMA NewLogRemovesOld ==
  ASSUME FilesInv, NEW append \in BOOLEAN, GetNewLog(append), config' = config, day' = day, unnamed' = unnamed,
         named' \in {"bare", "./"}, named \in {"none", named'}
  PROVE  FilesInv' /\ OnlyOldOnes
<1> DEFINE m == Trimmed(Kept(Begun(disk), g_log_set \cup {today}, current_total_size))
<1>1. /\ logFile' = [name |-> day, offset |-> 0, append |-> append] /\ disk' = m.disk /\ g_log_set' = m.set
      /\ Inserted({today})
  BY DEF GetNewLog, Keep
<1>2. Given(Begun(disk), g_log_set \cup {today}) /\ twice' \in BOOLEAN
  BY <1>1, TodaysLog
<1>3. config' \in Configs /\ day' \in 2 .. Days /\ unnamed' \in BOOLEAN
  BY DEF FilesInv, FilesTyped
<1>4. disk' \in [Names -> Int] /\ \A f \in Names : disk'[f] >= -1
  BY <1>1, <1>2, <1>3, KeepsTrimmed DEF Given
<1>5. logFile' \in Opened /\ logFile'.name # -1 /\ Newest' <= day'
  BY <1>1, <1>3, NamedDay DEF Opened, Newest
<1>6. Settled
  BY <1>2, <1>3, <1>5 DEF Settled
<1> HIDE DEF m
<1> QED BY <1>1, <1>2, <1>4, <1>6, OldOnesGo DEF m

LEMMA RecoveryRemovesOld ==
  ASSUME FilesInv, RecoverHistory, config' \in Configs, UNCHANGED <<day, named, opened>>
  PROVE  FilesInv' /\ OnlyOldOnes
<1> DEFINE set == g_log_set \cup History
           total == current_total_size + SizeOf(disk, History)
           m == Trimmed(Kept(disk, set, total))
<1>1. disk' = m.disk /\ g_log_set' = m.set /\ unnamed' = (unnamed \/ named = "none") /\ Inserted(History)
  BY DEF RecoverHistory, Keep
<1>2. logFile' = logFile /\ day' = day /\ Newest' = Newest /\ named' = named
  BY DEF opened, Newest
<1>3. /\ disk \in [Names -> Int] /\ \A f \in Names : disk[f] >= -1
      /\ g_log_set \in SUBSET Paths /\ twice \in BOOLEAN /\ unnamed \in BOOLEAN
  BY DEF FilesInv, FilesTyped
<1>4. Given(disk, set)
  <2>1. History \subseteq Names /\ \A f \in History : disk[f] # -1 /\ f \in Int /\ f >= 0 /\ ~(f > Stray)
    BY NamedDay, NamesAreFinite DEF History
  <2>2. set \in SUBSET Paths
    BY <1>3, <2>1, BothNames
  <2>3. 0 \in set => unnamed'
    BY <1>1 DEF FilesInv, NoneNewer, History
  <2>4. \A f \in Names : Newest' < f /\ f < Stray => disk[f] = -1 /\ f \notin set
    BY <1>2, <2>1 DEF FilesInv, NoneNewer
  <2>5. \A e \in set : e > Stray => named' = "bare" /\ 2 <= File(e) /\ File(e) <= Newest'
    BY <1>2, <2>1 DEF FilesInv, Spellings
  <2>6. named' = "bare" =>
          \A f \in Names : (2 < f /\ f < Stray) \/ f = logFile'.name => disk[f] = -1 \/ Bare(f) \in set
    BY <1>2 DEF FilesInv, Spellings
  <2>7. ~twice' => ~twice /\ \A f \in Names : ~({f, Bare(f)} \subseteq set)
    BY <1>1 DEF Inserted
  <2>8. ASSUME named' # "./", ~twice', NEW e \in History PROVE e <= 2 \/ e >= Stray
    <3> SUFFICES ASSUME 2 < e, e < Stray PROVE FALSE
      BY <2>1, <2>8, NamesAreFinite
    <3>1. e \in Names /\ e \in Int /\ disk[e] # -1 /\ ~(Newest < e)
      BY <2>1, <2>8 DEF FilesInv, NoneNewer
    <3>2. named = "bare"
      BY <1>2, <2>8, <3>1, NamedDay DEF FilesInv, FilesTyped, Newest, Stdout
    <3>3. Bare(e) \in g_log_set
      BY <3>1, <3>2 DEF FilesInv, Spellings
    <3> QED BY <2>7, <2>8, <3>1, <3>3
  <2>9. named' # "./" /\ ~twice' => \A e \in set : e <= 2 \/ e >= Stray
    BY <1>2, <2>7, <2>8 DEF FilesInv, Spellings
  <2> HIDE DEF set
  <2> QED BY <1>3, <2>2, <2>3, <2>4, <2>5, <2>6, <2>7, <2>9 DEF Given
<1>5. disk' \in [Names -> Int] /\ \A f \in Names : disk'[f] >= -1
  BY <1>1, <1>4, KeepsTrimmed DEF Given
<1>6. twice' \in BOOLEAN /\ unnamed' \in BOOLEAN
  BY <1>1, <1>3 DEF Inserted
<1>7. Settled
  BY <1>2, <1>6 DEF Settled, FilesInv, FilesTyped, NoneNewer
<1> HIDE DEF m, set, total
<1> QED BY <1>1, <1>4, <1>5, <1>7, OldOnesGo DEF m

LEMMA LineIsNat ==
  ASSUME NEW n \in Lengths, NEW l
  PROVE  LineLength(n) \in Nat /\ Times(l) * LineLength(n) \in Nat
<1>1. LineLength(n) \in Nat
  BY FilesAssumption DEF LineLength
<1>2. Times(l) \in {1, 2}
  BY DEF Times
<1> QED BY <1>1, <1>2

At(d, n) == [name |-> d, offset |-> n, append |-> FALSE]
MovedTo(file, n) == [file EXCEPT !.offset = n]

LEMMA AtOffset ==
  ASSUME NEW d \in 2 .. Days, NEW m \in Nat, NEW n
  PROVE  /\ MovedTo(At(d, m), n) = At(d, n)
         /\ At(d, m).offset = m /\ At(d, m).name = d /\ ~At(d, m).append
         /\ At(d, m) \in Opened
<1>1. \A b : [[name |-> d, offset |-> m, append |-> b] EXCEPT !.offset = n]
               = [name |-> d, offset |-> n, append |-> b]
  OBVIOUS
<1>2. [[name |-> d, offset |-> m, append |-> FALSE] EXCEPT !.offset = n]
       = [name |-> d, offset |-> n, append |-> FALSE]
  BY <1>1
<1>3. MovedTo(At(d, m), n) = At(d, n)
  BY <1>2 DEF At, MovedTo
<1>4. At(d, m).offset = m /\ At(d, m).name = d /\ ~At(d, m).append
  BY DEF At
<1>5. At(d, m) \in Opened
  BY DEF At, Opened
<1> QED BY <1>3, <1>4, <1>5

(* A log begun anew in the middle of logging a line.                       *)
KeepsRotated(total, bytes) ==
  LET k == Trimmed(Kept(Begun(disk), g_log_set \cup {today}, total))
  IN  Keep([k EXCEPT !.disk = Written([logFile' EXCEPT !.offset = 0], @, bytes)])

LEMMA RotationRemovesOld ==
  ASSUME FilesInv, NEW bytes \in Nat, NEW total,
         logFile' = Advanced([name |-> day, offset |-> 0, append |-> FALSE], bytes),
         KeepsRotated(total, bytes),
         config' = config, day' = day, unnamed' = unnamed, named' = named, logFile # Stdout, Inserted({today})
  PROVE  FilesInv' /\ OnlyOldOnes
<1> DEFINE m == Trimmed(Kept(Begun(disk), g_log_set \cup {today}, total))
           file == At(day, 0)
           after == Written(file, m.disk, bytes)
<1>1. day \in 2 .. Days /\ day # -1 /\ config' \in Configs
  BY NamedDay DEF FilesInv, FilesTyped
<1>2. /\ file \in Opened /\ file.name = day /\ file.offset = 0 /\ ~file.append
      /\ At(day, bytes) \in Opened /\ At(day, bytes).name = day
      /\ MovedTo(file, bytes) = At(day, bytes)
      /\ MovedTo(At(day, bytes), 0) = file
  <2>1. 0 \in Nat
    OBVIOUS
  <2> QED BY <1>1, <2>1, AtOffset
<1>3. logFile' = At(day, bytes)
  <2>1. logFile' = Advanced(file, bytes)
    BY DEF At
  <2> HIDE DEF file
  <2>2. file # Stdout
    BY <1>1, <1>2 DEF Stdout
  <2>3. Advanced(file, bytes) = MovedTo(file, file.offset + bytes)
    BY <1>2, <2>2, Zenon DEF Advanced, MovedTo
  <2>4. file.offset + bytes = bytes
    BY <1>2
  <2> QED BY <1>2, <2>1, <2>3, <2>4, Zenon
<1>4. Given(Begun(disk), g_log_set \cup {today}) /\ twice' \in BOOLEAN
  <2>1. named \in {"bare", "./"}
    BY DEF FilesInv, FilesTyped
  <2>2. logFile'.name = day
    BY <1>2, <1>3
  <2> QED BY <2>1, <2>2, TodaysLog
<1>5. /\ m.disk \in [Names -> Int] /\ \A f \in Names : m.disk[f] >= -1
      /\ WithDisk(m, after).disk = after /\ WithDisk(m, after).set = m.set
  <2>1. Begun(disk) \in [Names -> Int] /\ g_log_set \cup {today} \in SUBSET Paths /\ \A f \in Names : Begun(disk)[f] >= -1
    BY <1>4 DEF Given
  <2> HIDE DEF after
  <2>2. m.disk \in [Names -> Int] /\ \A f \in Names : m.disk[f] >= -1
    BY <1>1, <2>1, KeepsTrimmed
  <2>3. \A d : WithDisk(m, d).disk = d /\ WithDisk(m, d).set = m.set
    BY <1>1, <2>1, KeepsTrimmed, Zenon
  <2> HIDE DEF m
  <2> QED BY <2>2, <2>3
<1>6. disk' = after /\ g_log_set' = m.set
  <2>1. Keep(WithDisk(m, Written(MovedTo(logFile', 0), m.disk, bytes)))
    BY Zenon DEF KeepsRotated, WithDisk, MovedTo
  <2>2. MovedTo(logFile', 0) = file
    BY <1>2, <1>3, Zenon
  <2> HIDE DEF m, file
  <2>3. Keep(WithDisk(m, after))
    BY <2>1, <2>2, Zenon
  <2> HIDE DEF after
  <2> QED BY <1>5, <2>3 DEF Keep
<1> HIDE DEF file
<1>7. after \in [Names -> Int] /\ \A f \in Names : after[f] >= -1 /\ (after[f] = -1 <=> m.disk[f] = -1)
  <2> HIDE DEF m
  <2>1. file.name # -1
    BY <1>1, <1>2
  <2> QED BY <1>2, <1>5, <2>1, WritesRemoveNothing
<1>8. Settled
  <2>1. logFile' \in Opened /\ logFile'.name = day
    BY <1>2, <1>3, Zenon
  <2>2. Newest' <= day'
    BY <1>1, <2>1 DEF Newest
  <2>3. named \in {"bare", "./"} /\ unnamed \in BOOLEAN
    BY DEF FilesInv, FilesTyped
  <2> QED BY <1>1, <1>4, <2>1, <2>2, <2>3 DEF Settled
<1>9. disk' \in [Names -> Int] /\ \A f \in Names : disk'[f] >= -1 /\ (disk'[f] = -1 <=> m.disk[f] = -1)
  BY <1>6, <1>7, Zenon
<1> HIDE DEF after
<1> QED BY <1>1, <1>4, <1>6, <1>8, <1>9, OldOnesGo

-----------------------------------------------------------------------------

LEMMA FilesInit == LogInit => FilesInv
<1> SUFFICES ASSUME LogInit PROVE FilesInv
  OBVIOUS
<1>1. /\ day = 2 /\ logFile = Stdout /\ logFile.name = -1 /\ g_log_set = {}
      /\ named = "none" /\ twice = FALSE /\ unnamed = FALSE
  BY DEF LogInit, Stdout
<1>2. disk \in [Names -> Int] /\ \A f \in Names : disk[f] >= -1
  BY DEF LogInit
<1>3. logFile \in Opened /\ config \in Configs
  BY DEF LogInit, Stdout, Levels, Opened, Configs
<1>4. \A f \in Names : 2 < f /\ f < Stray => disk[f] = -1
  BY NamesAreFinite, FilesAssumption DEF LogInit
<1>5. day \in 2 .. Days
  BY <1>1, FilesAssumption
<1>6. FilesTyped
  BY <1>1, <1>2, <1>3, <1>5 DEF FilesTyped
<1>7. Newest = 2
  BY <1>1 DEF Newest
<1>8. NoneNewer /\ Spellings
  BY <1>1, <1>4, <1>7 DEF NoneNewer, Spellings
<1> QED BY <1>6, <1>8 DEF FilesInv

(* A step that removes nothing.                                            *)
LEMMA NothingRemoved ==
  ASSUME FilesInv, UNCHANGED <<g_log_set, unnamed, twice>>, logFile'.name = logFile.name,
         disk' \in [Names -> Int], \A f \in Names : disk'[f] >= -1 /\ (disk[f] = -1 => disk'[f] = -1),
         named' = named \/ (named = "none" /\ logFile = Stdout /\ named' \in {"bare", "./"}),
         Settled
  PROVE  FilesInv'
<1>1. Stray' = Stray /\ Names' = Names /\ Paths' = Paths /\ Newest' = Newest
  BY DEF Stray, Names, Paths, Newest
<1>2. FilesTyped'
  BY <1>1 DEF FilesInv, FilesTyped, Settled
<1>3. NoneNewer'
  BY <1>1 DEF FilesInv, NoneNewer, Settled
<1>4. \A e \in g_log_set' : e > Stray => named' = "bare" /\ 2 <= File(e) /\ File(e) <= Newest'
  BY <1>1 DEF FilesInv, Spellings
<1>5. ASSUME named' = "bare", NEW f \in Names, (2 < f /\ f < Stray) \/ f = logFile'.name, disk'[f] # -1
      PROVE  Bare(f) \in g_log_set'
  <2>1. disk[f] # -1
    BY <1>5
  <2>2. CASE named = "bare"
    BY <1>5, <2>1, <2>2 DEF FilesInv, Spellings
  <2>3. CASE named = "none"
    <3>1. logFile.name = -1 /\ Newest = 2
      BY <2>3 DEF FilesInv, FilesTyped, Stdout, Newest
    <3>2. Newest < f /\ f < Stray
      BY <1>5, <3>1, NamedDay
    <3> QED BY <2>1, <3>2 DEF FilesInv, NoneNewer
  <2> QED BY <1>5, <2>2, <2>3
<1>6. named' # "./" /\ ~twice' => \A e \in g_log_set' : e <= 2 \/ e >= Stray
  BY DEF FilesInv, Spellings
<1>7. Spellings'
  BY <1>1, <1>4, <1>5, <1>6, Zenon DEF Spellings, File, Bare
<1> QED BY <1>2, <1>3, <1>7 DEF FilesInv

LEMMA FilesStep == FilesInv /\ [LogNext]_logVars => FilesInv' /\ OnlyOldOnes
<1> SUFFICES ASSUME FilesInv, [LogNext]_logVars PROVE FilesInv' /\ OnlyOldOnes
  OBVIOUS
<1>0. /\ config \in Configs /\ day \in 2 .. Days /\ logFile \in Opened /\ Newest <= day
      /\ logFile.name = -1 => logFile = Stdout
      /\ named \in {"none", "bare", "./"} /\ (named = "none" => logFile = Stdout)
      /\ twice \in BOOLEAN /\ unnamed \in BOOLEAN
      /\ disk \in [Names -> Int] /\ \A f \in Names : disk[f] >= -1
  BY DEF FilesInv, FilesTyped, NoneNewer
<1>1. ASSUME UNCHANGED <<disk, day, logFile, g_log_set, unnamed, twice>>, config' \in Configs,
             named' = named \/ (named = "none" /\ named' \in {"bare", "./"})
      PROVE  FilesInv' /\ OnlyOldOnes
  <2>1. Newest' = Newest
    BY <1>1 DEF Newest
  <2>2. Settled
    BY <1>0, <1>1, <2>1 DEF Settled
  <2>3. named' = named \/ (named = "none" /\ logFile = Stdout /\ named' \in {"bare", "./"})
    BY <1>0, <1>1
  <2>4. FilesInv'
    BY <1>0, <1>1, <2>2, <2>3, NothingRemoved
  <2> QED BY <1>1, <2>4 DEF OnlyOldOnes
<1>2. ASSUME NEW append \in BOOLEAN, SetLogFile(append) PROVE FilesInv' /\ OnlyOldOnes
  <2>1. GetNewLog(append) /\ config' = config /\ day' = day /\ unnamed' = unnamed
    BY <1>2 DEF SetLogFile, Setting
  <2>2. named' \in {"bare", "./"} /\ named \in {"none", named'}
    BY <1>2 DEF SetLogFile, IsNamed
  <2> QED BY <2>1, <2>2, NewLogRemovesOld
<1>3. CASE SetLogFileFails
  <2>1. named' = named \/ (named = "none" /\ named' \in {"bare", "./"})
    BY <1>3 DEF SetLogFileFails, IsNamed
  <2> QED BY <1>0, <1>1, <1>3, <2>1 DEF SetLogFileFails, Setting, OpensNothing, opened
<1>4. CASE SetWarningFile
  BY <1>0, <1>1, <1>4 DEF SetWarningFile, Setting, OpensNothing, opened
<1>5. ASSUME NEW l \in {Levels.DEBUG, Levels.ERROR}, SetLogLevel(l) PROVE FilesInv' /\ OnlyOldOnes
  <2>1. config' \in Configs
    BY <1>0, <1>5 DEF SetLogLevel, Sets, Configs, Levels
  <2> QED BY <1>1, <1>5, <2>1 DEF SetLogLevel, Sets, Setting, OpensNothing, opened
<1>6. ASSUME NEW n \in Limits, SetLogSize(n) PROVE FilesInv' /\ OnlyOldOnes
  <2>1. config' \in Configs
    BY <1>0, <1>6, FilesAssumption DEF SetLogSize, Sets, Configs
  <2> QED BY <1>1, <1>6, <2>1 DEF SetLogSize, Sets, Setting, OpensNothing, opened
<1>7. ASSUME NEW n \in Limits, SetLogCount(n) \/ SetLogSizeLimit(n) PROVE FilesInv' /\ OnlyOldOnes
  <2>1. config' \in Configs
    BY <1>0, <1>7, FilesAssumption DEF SetLogCount, SetLogSizeLimit, Sets, Configs
  <2>2. RecoverHistory /\ UNCHANGED <<day, named, opened>>
    BY <1>7 DEF SetLogCount, SetLogSizeLimit, Sets, Setting
  <2> QED BY <2>1, <2>2, RecoveryRemovesOld
<1>8. CASE Tomorrow
  <2>1. UNCHANGED <<disk, logFile, g_log_set, unnamed, twice, config, named>> /\ day' \in 2 .. Days /\ day' = day + 1
    BY <1>8, NamedDay, FilesAssumption DEF Tomorrow, opened, sizes, settings
  <2>2. Newest' = Newest /\ Newest <= day'
    BY <2>1, NamedDay DEF Newest
  <2>3. Settled
    BY <1>0, <2>1, <2>2 DEF Settled
  <2>4. FilesInv'
    BY <1>0, <2>1, <2>3, NothingRemoved
  <2> QED BY <2>1, <2>4 DEF OnlyOldOnes
<1>9. CASE RemovedElsewhere
  <2>1. UNCHANGED <<day, logFile, g_log_set, unnamed, twice, config, named>> /\ elsewhere' # elsewhere
    BY <1>9 DEF RemovedElsewhere, opened, sizes, settings
  <2>2. PICK f \in Names : disk' = [disk EXCEPT ![f] = -1]
    BY <1>9 DEF RemovedElsewhere
  <2>3. disk' \in [Names -> Int] /\ \A g \in Names : disk'[g] >= -1 /\ (disk[g] = -1 => disk'[g] = -1)
    BY <1>0, <2>2
  <2>4. Newest' = Newest
    BY <2>1 DEF Newest
  <2>5. Settled
    BY <1>0, <2>1, <2>4 DEF Settled
  <2>6. FilesInv'
    BY <2>1, <2>3, <2>5, NothingRemoved
  <2> QED BY <2>1, <2>6 DEF OnlyOldOnes
<1>10. ASSUME NEW l \in {Levels.INFO, Levels.ERROR}, NEW n \in Lengths, Log(l, n)
       PROVE  FilesInv' /\ OnlyOldOnes
  <2> DEFINE length == LineLength(n)
             bytes == Times(l) * length
  <2>1. bytes \in Nat
    BY LineIsNat
  <2>2. UNCHANGED <<config, day, unnamed, named>>
    BY <1>10 DEF Log
  <2>3. CASE logFile # Stdout /\ config.size > 0 /\ size_ + length > config.size
    <3>1. /\ logFile' = Advanced([name |-> day, offset |-> 0, append |-> FALSE], bytes)
          /\ KeepsRotated(current_total_size + size_ + length, bytes)
          /\ Inserted({today})
      BY <1>10, <2>3, Zenon DEF Log, KeepsRotated
    <3> HIDE DEF bytes, length
    <3> QED BY <2>1, <2>2, <2>3, <3>1, RotationRemovesOld
  <2>4. CASE ~(logFile # Stdout /\ config.size > 0 /\ size_ + length > config.size)
    <3>1. logFile' = Advanced(logFile, bytes) /\ disk' = Written(logFile, disk, bytes) /\ UNCHANGED <<g_log_set, twice>>
      BY <1>10, <2>4 DEF Log
    <3> HIDE DEF bytes, length
    <3>2. disk' \in [Names -> Int] /\ \A f \in Names : disk'[f] >= -1 /\ (disk'[f] = -1 <=> disk[f] = -1)
      BY <1>0, <2>1, <3>1, WritesRemoveNothing
    <3>3. logFile' \in Opened /\ logFile'.name = logFile.name /\ (logFile = Stdout => logFile' = Stdout)
      BY <1>0, <2>1, <3>1 DEF Advanced, Opened
    <3>4. Newest' = Newest
      BY <3>3 DEF Newest
    <3>5. Settled
      BY <1>0, <2>2, <3>1, <3>3, <3>4 DEF Settled
    <3>6. FilesInv'
      BY <2>2, <3>1, <3>2, <3>3, <3>5, NothingRemoved
    <3> QED BY <3>2, <3>6 DEF OnlyOldOnes
  <2> QED BY <2>3, <2>4
<1>11. CASE UNCHANGED logVars
  BY <1>0, <1>1, <1>11 DEF logVars, opened, sizes, settings
<1> QED
  BY <1>2, <1>3, <1>4, <1>5, <1>6, <1>7, <1>8, <1>9, <1>10, <1>11 DEF LogNext, Setter

(* GetNewLog and RecoverHistory remove the oldest logs and nothing else,   *)
(* but for a log that is in g_log_set under two names: for any days,       *)
(* limits and lengths of lines, and the log named either way.              *)
THEOREM OldLogsGoFirst == LogSpec => OnlyOldLogsGo
<1>1. FilesInv /\ [LogNext]_logVars => FilesInv' /\ [OnlyOldOnes]_logVars
  BY FilesStep
<1> QED BY FilesInit, <1>1, PTL DEF LogSpec, OnlyOldLogsGo, OnlyOldOnes
=============================================================================
