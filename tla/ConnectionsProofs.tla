------------------------- MODULE ConnectionsProofs -------------------------
(***************************************************************************)
(* Theorems about Connections, for any connections, of which any may be    *)
(* kept and any may be rude, any descriptor numbers and any workers: no    *)
(* descriptor is lost, and responses reach their own connections while     *)
(* none is disturbed.                                                      *)
(*                                                                         *)
(* A descriptor that leaves the epoll set does so at the hands of whoever  *)
(* closes it next, which is the first.  For the second, every number that  *)
(* somebody holds has one holder, and what it stands for cannot change     *)
(* before that holder returns it: the receiver cannot find it readable.    *)
(***************************************************************************)
EXTENDS Connections, SequenceTheorems, TLAPS

Pieces     == {"whole", "head", "rest"}
Lives      == {"new", "backlog", "open", "shut", "gone"}
PollSteps  == {"wait", "accept", "read", "shut", "close"}
WorkSteps  == {"idle", "handle", "finish", "write", "shut", "close"}
Jobs       == [conn : Conns, fd : Fds, open : BOOLEAN]

TypeOK ==
  /\ file \in [Fds -> Conns \cup {None}] /\ polled \subseteq Fds
  /\ life \in [Conns -> Lives] /\ inbox \in [Conns -> Seq(Pieces)]
  /\ hup \in [Conns -> BOOLEAN] /\ asked \in [Conns -> Nat]
  /\ answers \in [Conns -> Seq(Conns)] /\ disturbed \subseteq Conns
  /\ pc \in PollSteps /\ cur \in Fds \cup {None}
  /\ pc \in {"read", "shut", "close"} => cur \in Fds
  /\ queue \in Seq(Jobs)
  /\ at \in [Workers -> WorkSteps] /\ job \in [Workers -> Jobs \cup {NoJob}]
  /\ \A w \in Workers : at[w] # "idle" => job[w] \in Jobs
  /\ failed \in [Workers -> BOOLEAN]

(* Who took a number out of the epoll set closes it.                       *)
Closes(w) == at[w] \in {"shut", "close"} \/ (at[w] = "write" /\ job[w].conn \notin Keep)
PolledOrClosed ==
  \A f \in Fds : file[f] # None =>
    \/ f \in polled
    \/ cur = f /\ pc \in {"shut", "close"}
    \/ \E w \in Workers : job[w].fd = f /\ Closes(w)

(* A connection has one number at most, and only while it is open.         *)
OneNumber ==
  \A f \in Fds : file[f] # None =>
    life[file[f]] \in {"open", "shut"} /\ \A g \in Fds : file[g] = file[f] => g = f

(* The numbers the receiver, the list and the workers hold.                *)
Own(j)   == file[j.fd] = j.conn
Quiet(c) == inbox[c] = <<>> /\ ~hup[c]
Busy(w)  == at[w] # "idle"

QueueOwn == \A i \in 1 .. Len(queue) : Own(queue[i]) /\ Quiet(queue[i].conn)
(* A worker's connection is one the receiver cannot find readable.         *)
JobsOwn ==
  \A w \in Workers : Busy(w) =>
    /\ Own(job[w])
    /\ Quiet(job[w].conn) \/ (Closes(w) /\ job[w].conn \notin Keep)
    /\ Closes(w) /\ job[w].conn \notin Keep => job[w].fd \notin polled
CurOwn ==
  pc \in {"read", "shut", "close"} =>
    /\ file[cur] # None
    /\ \A i \in 1 .. Len(queue) : queue[i].fd # cur
    /\ \A w \in Workers : Busy(w) => job[w].fd # cur
OneHolder ==
  /\ \A i, j \in 1 .. Len(queue) : queue[i].fd = queue[j].fd => i = j
  /\ \A i \in 1 .. Len(queue) : \A w \in Workers : Busy(w) => queue[i].fd # job[w].fd
  /\ \A v, w \in Workers : Busy(v) /\ Busy(w) /\ job[v].fd = job[w].fd => v = w
AnswersOwn == \A c \in Conns : \A i \in 1 .. Len(answers[c]) : answers[c][i] = c

Owned == QueueOwn /\ JobsOwn /\ CurOwn /\ OneHolder /\ AnswersOwn

IInv == TypeOK /\ PolledOrClosed /\ OneNumber /\ (disturbed = {} => Owned)

-----------------------------------------------------------------------------

LEMMA NoneIsOutside == None \notin Conns /\ None \notin Fds /\ NoJob \notin Jobs
  BY ConnsAssumption DEF NoJob, Jobs

LEMMA NothingIsASequence == <<>> \in Seq(Pieces) /\ <<>> \in Seq(Conns)
  BY EmptySeq

LEMMA PieceNames == "whole" \in Pieces /\ "head" \in Pieces /\ "rest" \in Pieces
  BY DEF Pieces

LEMMA CloseTypes ==
  ASSUME TypeOK, NEW f \in Fds, Close(f)
  PROVE  /\ file' \in [Fds -> Conns \cup {None}] /\ polled' \subseteq Fds
         /\ life' \in [Conns -> Lives] /\ inbox' \in [Conns -> Seq(Pieces)]
<1>1. file' \in [Fds -> Conns \cup {None}] /\ polled' \subseteq Fds
  BY DEF TypeOK, Close
<1>2. CASE file[f] = None
  BY <1>1, <1>2 DEF TypeOK, Close
<1>3. CASE file[f] # None
  <2>1. life' \in [Conns -> Lives]
    BY <1>3 DEF TypeOK, Close, Lives
  <2>2. inbox' \in [Conns -> Seq(Pieces)]
    BY <1>3, NothingIsASequence DEF TypeOK, Close
  <2>3. QED BY <1>1, <2>1, <2>2
<1>4. QED BY <1>2, <1>3

(* Types.                                                                  *)
LEMMA TypeNext ==
  ASSUME TypeOK, [Next]_vars
  PROVE  TypeOK'
<1> USE NoneIsOutside DEF TypeOK, PollSteps, WorkSteps, Lives, clients, receiver, workers
<1>1. CASE Receiver
  <2>1. CASE Accept          BY <2>1 DEF Accept, Backlog, Free
  <2>2. CASE AcceptFails     BY <2>2 DEF AcceptFails
  <2>3. CASE ReadSucceeds
    <3> DEFINE c == file[cur]
    <3>1. c \in Conns /\ cur \in Fds
      BY <2>3 DEF ReadSucceeds
    <3>2. ASSUME NEW n \in 1 .. Len(inbox[c]), NEW b \in BOOLEAN
          PROVE  /\ SubSeq(inbox[c], n + 1, Len(inbox[c])) \in Seq(Pieces)
                 /\ Append(queue, [conn |-> c, fd |-> cur, open |-> b]) \in Seq(Jobs)
      BY <3>1, AppendProperties DEF Jobs
    <3>3. inbox' \in [Conns -> Seq(Pieces)] /\ queue' \in Seq(Jobs)
      <4>1. PICK n \in 1 .. Len(inbox[c]) :
              /\ inbox' = [inbox EXCEPT ![c] = SubSeq(@, n + 1, Len(@))]
              /\ queue' = Append(queue, [conn |-> c, fd |-> cur,
                                         open |-> Head(inbox[c]) = "head" /\ n = 1])
        BY <2>3 DEF ReadSucceeds
      <4>2. (Head(inbox[c]) = "head" /\ n = 1) \in BOOLEAN
        OBVIOUS
      <4>3. queue' \in Seq(Jobs)
        BY <3>2, <4>1, <4>2, Zenon
      <4>4. inbox' \in [Conns -> Seq(Pieces)]
        BY <3>1, <3>2, <4>1
      <4>5. QED BY <4>3, <4>4
    <3>4. disturbed' \subseteq Conns
      BY <2>3, <3>1 DEF ReadSucceeds
    <3>5. QED BY <2>3, <3>3, <3>4 DEF ReadSucceeds
  <2>4. CASE ReadFails
    BY <2>4, NothingIsASequence DEF ReadFails, PollDel
  <2>5. CASE ShutFailed      BY <2>5 DEF ShutFailed, Shut
  <2>6. CASE CloseFailed
    <3>1. cur \in Fds /\ pc' = "wait" /\ cur' = None
      BY <2>6 DEF CloseFailed
    <3>2. /\ file' \in [Fds -> Conns \cup {None}] /\ polled' \subseteq Fds
          /\ life' \in [Conns -> Lives] /\ inbox' \in [Conns -> Seq(Pieces)]
      BY <2>6, <3>1, CloseTypes DEF CloseFailed
    <3>3. QED BY <2>6, <3>1, <3>2 DEF CloseFailed
  <2>7. QED BY <1>1, <2>1, <2>2, <2>3, <2>4, <2>5, <2>6 DEF Receiver
<1>2. CASE PollListener BY <1>2 DEF PollListener
<1>3. ASSUME NEW f \in Fds, PollConnection(f) PROVE TypeOK'
  BY <1>3 DEF PollConnection
<1>4. ASSUME NEW w \in Workers, Worker(w) PROVE TypeOK'
  <2> USE DEF Step
  <2>1. CASE Take(w)
    BY <2>1, HeadTailProperties DEF Take, Jobs
  <2>2. CASE ReadBody(w)
    BY <2>2, NothingIsASequence DEF ReadBody
  <2>3. CASE SkipBody(w)     BY <2>3 DEF SkipBody
  <2>4. CASE FinishRequest(w) BY <2>4 DEF FinishRequest, PollDel
  <2>5. CASE Write(w)
    <3>1. /\ answers' \in [Conns -> Seq(Conns)] /\ at' \in [Workers -> WorkSteps]
          /\ at[w] = "write" /\ \A v \in Workers \ {w} : at'[v] = at[v]
      <4>1. ASSUME NEW c \in Conns PROVE Append(answers[c], job[w].conn) \in Seq(Conns)
        BY <2>5, AppendProperties DEF Write, Jobs
      <4>2. file[job[w].fd] \in Conns \cup {None}
        BY <2>5 DEF Write, Jobs
      <4>3. QED BY <2>5, <4>1, <4>2 DEF Write, WriteArrives, WriteFails
    <3>2. /\ job' \in [Workers -> Jobs \cup {NoJob}]
          /\ \A v \in Workers : at'[v] # "idle" => job'[v] \in Jobs
      BY <2>5, <3>1 DEF Write
    <3>3. QED BY <2>5, <3>1, <3>2 DEF Write
  <2>6. CASE ShutDone(w)     BY <2>6 DEF ShutDone, Shut
  <2>7. CASE CloseDone(w)
    <3>1. job[w].fd \in Fds
      BY <2>7 DEF CloseDone, Jobs
    <3>2. /\ file' \in [Fds -> Conns \cup {None}] /\ polled' \subseteq Fds
          /\ life' \in [Conns -> Lives] /\ inbox' \in [Conns -> Seq(Pieces)]
      BY <2>7, <3>1, CloseTypes DEF CloseDone
    <3>3. QED BY <2>7, <3>2 DEF CloseDone
  <2>8. QED BY <1>4, <2>1, <2>2, <2>3, <2>4, <2>5, <2>6, <2>7 DEF Worker
<1>5. ASSUME NEW c \in Conns, Client(c) PROVE TypeOK'
  <2>1. CASE Connect(c)      BY <2>1 DEF Connect
  <2>2. CASE Ask(c)
    <3>1. ASSUME NEW piece \in Pieces, Send(c, piece)
          PROVE  inbox' \in [Conns -> Seq(Pieces)] /\ disturbed' \subseteq Conns
      BY <3>1, AppendProperties DEF Send, Disturb
    <3>2. inbox' \in [Conns -> Seq(Pieces)] /\ disturbed' \subseteq Conns
      BY <2>2, <3>1, PieceNames DEF Ask
    <3>3. UNCHANGED <<file, polled, life, hup, answers, receiver, queue, workers>>
      BY <2>2, Zenon DEF Ask, Send
    <3>4. asked' \in [Conns -> Nat]
      BY <2>2 DEF Ask
    <3>5. QED BY <3>2, <3>3, <3>4
  <2>3. CASE SendRest(c)
    BY <2>3, AppendProperties, PieceNames DEF SendRest, Send, Disturb
  <2>4. CASE HangUp(c)       BY <2>4 DEF HangUp, Disturb
  <2>5. CASE TakenElsewhere(c) BY <2>5 DEF TakenElsewhere
  <2>6. QED BY <1>5, <2>1, <2>2, <2>3, <2>4, <2>5 DEF Client
<1>6. CASE UNCHANGED vars BY <1>6 DEF vars
<1>7. QED BY <1>1, <1>2, <1>3, <1>4, <1>5, <1>6 DEF Next

(* Whoever takes a number out of the epoll set closes it.                  *)
LEMMA PolledNext ==
  ASSUME TypeOK, PolledOrClosed, [Next]_vars
  PROVE  PolledOrClosed'
<1> USE NoneIsOutside DEF TypeOK, PolledOrClosed, Closes, clients, receiver, workers
<1>1. CASE Receiver
  <2>1. CASE Accept          BY <2>1 DEF Accept, Backlog, Free
  <2>2. CASE AcceptFails     BY <2>2 DEF AcceptFails
  <2>3. CASE ReadSucceeds    BY <2>3 DEF ReadSucceeds
  <2>4. CASE ReadFails       BY <2>4 DEF ReadFails, PollDel
  <2>5. CASE ShutFailed      BY <2>5 DEF ShutFailed, Shut
  <2>6. CASE CloseFailed     BY <2>6 DEF CloseFailed, Close
  <2>7. QED BY <1>1, <2>1, <2>2, <2>3, <2>4, <2>5, <2>6 DEF Receiver
<1>2. CASE PollListener BY <1>2 DEF PollListener
<1>3. ASSUME NEW f \in Fds, PollConnection(f) PROVE PolledOrClosed'
  BY <1>3 DEF PollConnection
<1>4. ASSUME NEW w \in Workers, Worker(w) PROVE PolledOrClosed'
  <2> USE DEF Step
  <2>1. CASE Take(w)         BY <2>1 DEF Take
  <2>2. CASE ReadBody(w)     BY <2>2 DEF ReadBody
  <2>3. CASE SkipBody(w)     BY <2>3 DEF SkipBody
  <2>4. CASE FinishRequest(w) BY <2>4 DEF FinishRequest, PollDel
  <2>5. CASE Write(w)        BY <2>5 DEF Write, WriteArrives, WriteFails
  <2>6. CASE ShutDone(w)     BY <2>6 DEF ShutDone, Shut
  <2>7. CASE CloseDone(w)    BY <2>7 DEF CloseDone, Close
  <2>8. QED BY <1>4, <2>1, <2>2, <2>3, <2>4, <2>5, <2>6, <2>7 DEF Worker
<1>5. ASSUME NEW c \in Conns, Client(c) PROVE PolledOrClosed'
  <2>1. CASE Connect(c)      BY <2>1 DEF Connect
  <2>2. CASE Ask(c)
    <3>1. UNCHANGED <<file, polled, receiver, workers>>
      BY <2>2, Zenon DEF Ask, Send
    <3>2. QED BY <3>1
  <2>3. CASE SendRest(c)     BY <2>3 DEF SendRest, Send, Disturb
  <2>4. CASE HangUp(c)       BY <2>4 DEF HangUp, Disturb
  <2>5. CASE TakenElsewhere(c) BY <2>5 DEF TakenElsewhere
  <2>6. QED BY <1>5, <2>1, <2>2, <2>3, <2>4, <2>5 DEF Client
<1>6. CASE UNCHANGED vars BY <1>6 DEF vars
<1>7. QED BY <1>1, <1>2, <1>3, <1>4, <1>5, <1>6 DEF Next

(* One number for a connection.                                            *)
LEMMA OneNumberNext ==
  ASSUME TypeOK, OneNumber, [Next]_vars
  PROVE  OneNumber'
<1> USE NoneIsOutside DEF TypeOK, OneNumber, clients, receiver, workers
<1>1. CASE Receiver
  <2>1. CASE Accept
    <3>1. PICK c \in Conns, f \in Fds :
             /\ life[c] = "backlog" /\ file[f] = None
             /\ file' = [file EXCEPT ![f] = c] /\ life' = [life EXCEPT ![c] = "open"]
      BY <2>1 DEF Accept, Backlog, Free
    <3>2. \A g \in Fds : file[g] # c
      BY <3>1
    <3>3. QED BY <3>1, <3>2
  <2>2. CASE AcceptFails     BY <2>2 DEF AcceptFails
  <2>3. CASE ReadSucceeds    BY <2>3 DEF ReadSucceeds
  <2>4. CASE ReadFails       BY <2>4 DEF ReadFails, PollDel
  <2>5. CASE ShutFailed      BY <2>5 DEF ShutFailed, Shut
  <2>6. CASE CloseFailed     BY <2>6 DEF CloseFailed, Close
  <2>7. QED BY <1>1, <2>1, <2>2, <2>3, <2>4, <2>5, <2>6 DEF Receiver
<1>2. CASE PollListener BY <1>2 DEF PollListener
<1>3. ASSUME NEW f \in Fds, PollConnection(f) PROVE OneNumber'
  BY <1>3 DEF PollConnection
<1>4. ASSUME NEW w \in Workers, Worker(w) PROVE OneNumber'
  <2> USE DEF Step
  <2>1. CASE Take(w)         BY <2>1 DEF Take
  <2>2. CASE ReadBody(w)     BY <2>2 DEF ReadBody
  <2>3. CASE SkipBody(w)     BY <2>3 DEF SkipBody
  <2>4. CASE FinishRequest(w) BY <2>4 DEF FinishRequest, PollDel
  <2>5. CASE Write(w)        BY <2>5 DEF Write, WriteArrives, WriteFails
  <2>6. CASE ShutDone(w)     BY <2>6 DEF ShutDone, Shut
  <2>7. CASE CloseDone(w)
    <3>1. job[w].fd \in Fds
      BY <2>7 DEF CloseDone, Jobs
    <3>2. QED BY <2>7, <3>1 DEF CloseDone, Close
  <2>8. QED BY <1>4, <2>1, <2>2, <2>3, <2>4, <2>5, <2>6, <2>7 DEF Worker
<1>5. ASSUME NEW c \in Conns, Client(c) PROVE OneNumber'
  <2>1. CASE Connect(c)      BY <2>1 DEF Connect
  <2>2. CASE Ask(c)          BY <2>2 DEF Ask, Send, Disturb
  <2>3. CASE SendRest(c)     BY <2>3 DEF SendRest, Send, Disturb
  <2>4. CASE HangUp(c)       BY <2>4 DEF HangUp, Disturb
  <2>5. CASE TakenElsewhere(c) BY <2>5 DEF TakenElsewhere
  <2>6. QED BY <1>5, <2>1, <2>2, <2>3, <2>4, <2>5 DEF Client
<1>6. CASE UNCHANGED vars BY <1>6 DEF vars
<1>7. QED BY <1>1, <1>2, <1>3, <1>4, <1>5, <1>6 DEF Next

(* Numbers have one holder, who returns them unchanged.                    *)
LEMMA OwnedNext ==
  ASSUME TypeOK, OneNumber, Owned, [Next]_vars, disturbed' = {}
  PROVE  Owned'
<1> USE NoneIsOutside DEF clients, receiver, workers
<1>1. /\ \A w \in Workers : Busy(w) => job[w].fd \in Fds /\ job[w].conn \in Conns
      /\ \A i \in 1 .. Len(queue) : queue[i].fd \in Fds /\ queue[i].conn \in Conns
      /\ Len(queue) \in Nat /\ DOMAIN queue = 1 .. Len(queue)
  <2>1. \A j \in Jobs : j.fd \in Fds /\ j.conn \in Conns
    BY DEF Jobs
  <2>2. \A i \in 1 .. Len(queue) : queue[i] \in Jobs
    BY DEF TypeOK
  <2>3. Len(queue) \in Nat /\ DOMAIN queue = 1 .. Len(queue)
    BY LenProperties DEF TypeOK
  <2>4. \A w \in Workers : Busy(w) => job[w] \in Jobs
    BY DEF TypeOK, Busy
  <2>5. QED BY <2>1, <2>2, <2>3, <2>4
<1>2. QueueOwn /\ JobsOwn /\ CurOwn /\ OneHolder /\ AnswersOwn
  BY DEF Owned
<1> DEFINE Held(f) == \/ \E i \in 1 .. Len(queue) : queue[i].fd = f
                      \/ \E w \in Workers : Busy(w) /\ job[w].fd = f
<1>3. ASSUME UNCHANGED <<file, polled, inbox, hup, answers, queue, at, job, cur>>,
             pc' \in {"read", "shut", "close"} => pc \in {"read", "shut", "close"}
      PROVE  Owned'
  BY <1>2, <1>3 DEF Owned, QueueOwn, JobsOwn, CurOwn, OneHolder, AnswersOwn, Own, Quiet, Busy, Closes
<1>4. CASE Receiver
  <2>1. CASE Accept
    <3>1. PICK c \in Conns, f \in Fds :
            /\ life[c] = "backlog" /\ file[f] = None
            /\ file' = [file EXCEPT ![f] = c] /\ polled' = polled \cup {f}
      BY <2>1 DEF Accept, Backlog, Free
    <3>2. /\ UNCHANGED <<inbox, hup, answers, queue, at, job>>
          /\ pc' = "wait"
      BY <2>1 DEF Accept
    <3>3. \A g \in Fds : g # f => file'[g] = file[g]
      BY <3>1 DEF TypeOK
    <3>4. \A g \in Fds : Held(g) => g # f
      BY <1>1, <1>2, <3>1 DEF QueueOwn, JobsOwn, Own
    <3>5. QueueOwn'
      BY <1>1, <1>2, <3>2, <3>3, <3>4 DEF QueueOwn, Own, Quiet
    <3>6. JobsOwn'
      BY <1>1, <1>2, <3>1, <3>2, <3>3, <3>4 DEF JobsOwn, Own, Quiet, Busy, Closes
    <3>7. CurOwn' /\ OneHolder' /\ AnswersOwn'
      BY <1>2, <3>2 DEF CurOwn, OneHolder, AnswersOwn, Busy
    <3>8. QED BY <3>5, <3>6, <3>7 DEF Owned
  <2>2. CASE AcceptFails
    BY <1>3, <2>2 DEF AcceptFails
  <2>3. CASE ReadSucceeds
    <3> DEFINE c == file[cur]
    <3>1. c \in Conns /\ cur \in Fds /\ pc = "read" /\ pc' = "wait"
      BY <2>3 DEF ReadSucceeds, TypeOK
    <3>1a. PICK n \in 1 .. Len(inbox[c]) :
             \E b : /\ inbox' = [inbox EXCEPT ![c] = SubSeq(@, n + 1, Len(@))]
                    /\ queue' = Append(queue, [conn |-> c, fd |-> cur, open |-> b])
      BY <2>3 DEF ReadSucceeds
    <3>2. PICK b : /\ inbox' = [inbox EXCEPT ![c] = SubSeq(@, n + 1, Len(@))]
                   /\ queue' = Append(queue, [conn |-> c, fd |-> cur, open |-> b])
      BY <3>1a
    <3>3. UNCHANGED <<file, polled, hup, answers, at, job>>
      BY <2>3 DEF ReadSucceeds
    <3>4. inbox'[c] = <<>> /\ ~hup[c] /\ \A d \in Conns : d # c => inbox'[d] = inbox[d]
      BY <2>3, <3>1, <3>2 DEF ReadSucceeds, TypeOK
    <3>5. ~Held(cur)
      BY <1>2, <3>1 DEF CurOwn
    <3> DEFINE m == Len(queue) + 1
    <3>6. /\ m \in 1 .. Len(queue') /\ queue'[m].fd = cur /\ queue'[m].conn = c
          /\ \A i \in 1 .. Len(queue') : i = m \/ (i \in 1 .. Len(queue) /\ queue'[i] = queue[i])
      BY <1>1, <3>2 DEF TypeOK
    <3> HIDE DEF m
    <3>7. \A d \in Conns : Quiet(d) => Quiet(d)'
      BY <3>3, <3>4 DEF Quiet
    <3>8. QueueOwn'
      BY <1>1, <1>2, <3>3, <3>4, <3>6, <3>7 DEF QueueOwn, Own, Quiet
    <3>9. JobsOwn'
      BY <1>1, <1>2, <3>3, <3>7 DEF JobsOwn, Own, Busy, Closes
    <3>10. OneHolder'
      BY <1>2, <3>3, <3>5, <3>6 DEF OneHolder, Busy
    <3>11. CurOwn' /\ AnswersOwn'
      BY <1>2, <3>1, <3>3 DEF CurOwn, AnswersOwn
    <3>12. QED BY <3>8, <3>9, <3>10, <3>11 DEF Owned
  <2>4. CASE ReadFails
    <3>1. UNCHANGED <<file, hup, answers, queue, at, job, cur>>
      BY <2>4 DEF ReadFails
    <3>2. polled' \subseteq polled /\ pc = "read"
      BY <2>4 DEF ReadFails, PollDel
    <3>3. \A d \in Conns : Quiet(d) => Quiet(d)'
      BY <2>4 DEF ReadFails, Quiet, TypeOK
    <3>4. QueueOwn' /\ JobsOwn'
      BY <1>1, <1>2, <3>1, <3>2, <3>3 DEF QueueOwn, JobsOwn, Own, Busy, Closes
    <3>5. CurOwn' /\ OneHolder' /\ AnswersOwn'
      BY <1>2, <3>1, <3>2 DEF CurOwn, OneHolder, AnswersOwn, Busy
    <3>6. QED BY <3>4, <3>5 DEF Owned
  <2>5. CASE ShutFailed
    BY <1>3, <2>5 DEF ShutFailed
  <2>6. CASE CloseFailed
    <3>1. UNCHANGED <<hup, answers, queue, at, job>> /\ pc = "close" /\ pc' = "wait"
      BY <2>6 DEF CloseFailed
    <3>2. /\ \A g \in Fds : g # cur => file'[g] = file[g]
          /\ polled' \subseteq polled
      BY <2>6 DEF CloseFailed, Close, TypeOK
    <3>3. \A d \in Conns : Quiet(d) => Quiet(d)'
      BY <2>6 DEF CloseFailed, Close, Quiet, TypeOK
    <3>4. ~Held(cur)
      BY <1>2, <3>1 DEF CurOwn
    <3>5. QueueOwn' /\ JobsOwn'
      BY <1>1, <1>2, <3>1, <3>2, <3>3, <3>4 DEF QueueOwn, JobsOwn, Own, Busy, Closes
    <3>6. CurOwn' /\ OneHolder' /\ AnswersOwn'
      BY <1>2, <3>1 DEF CurOwn, OneHolder, AnswersOwn, Busy
    <3>7. QED BY <3>5, <3>6 DEF Owned
  <2>7. QED BY <1>4, <2>1, <2>2, <2>3, <2>4, <2>5, <2>6 DEF Receiver
<1>5. CASE PollListener
  BY <1>3, <1>5 DEF PollListener
<1>6. ASSUME NEW f \in Fds, PollConnection(f) PROVE Owned'
  <2>1. UNCHANGED <<file, polled, inbox, hup, answers, queue, at, job>> /\ cur' = f /\ f \in polled
    BY <1>6 DEF PollConnection
  <2>2. file[f] # None /\ ~Quiet(file[f])
    BY <1>6 DEF PollConnection, Readable, Quiet
  <2>3. ~Held(f)
    BY <1>2, <2>1, <2>2 DEF QueueOwn, JobsOwn, Own
  <2>4. CurOwn'
    BY <2>1, <2>2, <2>3 DEF CurOwn, Busy
  <2>5. QueueOwn' /\ JobsOwn' /\ OneHolder' /\ AnswersOwn'
    BY <1>2, <2>1 DEF QueueOwn, JobsOwn, OneHolder, AnswersOwn, Own, Quiet, Busy, Closes
  <2>6. QED BY <2>4, <2>5 DEF Owned
<1>7. ASSUME NEW w \in Workers, Worker(w) PROVE Owned'
  <2> USE DEF Step
  <2>1. CASE Take(w)
    <3> DEFINE j == Head(queue)
    <3>1. /\ 1 \in 1 .. Len(queue) /\ j = queue[1] /\ ~Busy(w)
          /\ \A i \in 1 .. Len(queue') : i + 1 \in 1 .. Len(queue) /\ queue'[i] = queue[i + 1]
      BY <1>1, <2>1 DEF Take, Busy, TypeOK
    <3>2. UNCHANGED <<file, polled, inbox, hup, answers, pc, cur>>
      BY <2>1 DEF Take
    <3>3. /\ job'[w] = j /\ Busy(w)' /\ ~Closes(w)'
          /\ \A v \in Workers \ {w} : at'[v] = at[v] /\ job'[v] = job[v]
      BY <2>1 DEF Take, Busy, Closes, TypeOK
    <3>4. QueueOwn'
      BY <1>2, <3>1, <3>2 DEF QueueOwn, Own, Quiet
    <3>5. JobsOwn'
      BY <1>2, <3>1, <3>2, <3>3 DEF QueueOwn, JobsOwn, Own, Quiet, Busy, Closes
    <3>6. CurOwn'
      BY <1>2, <3>1, <3>2, <3>3 DEF CurOwn, Busy
    <3>7. OneHolder'
      <4>1. \A a, b \in 1 .. Len(queue') : queue'[a].fd = queue'[b].fd => a = b
        BY <1>1, <1>2, <3>1 DEF OneHolder
      <4>2. \A a \in 1 .. Len(queue') : queue'[a].fd # j.fd
        BY <1>1, <1>2, <3>1 DEF OneHolder
      <4>3. \A v \in Workers \ {w} : Busy(v)' => job'[v].fd # j.fd
        BY <1>2, <3>1, <3>3 DEF OneHolder, Busy
      <4>4. \A a \in 1 .. Len(queue') : \A v \in Workers \ {w} : Busy(v)' => queue'[a].fd # job'[v].fd
        BY <1>2, <3>1, <3>3 DEF OneHolder, Busy
      <4>5. \A u, v \in Workers \ {w} : Busy(u)' /\ Busy(v)' /\ job'[u].fd = job'[v].fd => u = v
        BY <1>2, <3>3 DEF OneHolder, Busy
      <4>6. QED BY <3>3, <4>1, <4>2, <4>3, <4>4, <4>5 DEF OneHolder
    <3>8. AnswersOwn'
      BY <1>2, <3>2 DEF AnswersOwn
    <3>9. QED BY <3>4, <3>5, <3>6, <3>7, <3>8 DEF Owned
  <2>2. ASSUME Busy(w), Busy(w)', \A v \in Workers \ {w} : at'[v] = at[v],
               UNCHANGED <<file, hup, answers, pc, cur, queue, job>>,
               polled' \subseteq polled, \A c \in Conns : Quiet(c) => Quiet(c)',
               Closes(w) => Closes(w)',
               Closes(w)' /\ job[w].conn \notin Keep => job[w].fd \notin polled'
        PROVE  Owned'
    <3>1. QueueOwn'
      BY <1>1, <1>2, <2>2 DEF QueueOwn, Own
    <3>2. JobsOwn'
      BY <1>1, <1>2, <2>2 DEF JobsOwn, Own, Busy, Closes
    <3>3. CurOwn' /\ OneHolder' /\ AnswersOwn'
      BY <1>2, <2>2 DEF CurOwn, OneHolder, AnswersOwn, Busy
    <3>4. QED BY <3>1, <3>2, <3>3 DEF Owned
  <2>3. CASE ReadBody(w)
    <3>1. \A c \in Conns : Quiet(c) => Quiet(c)'
      BY <2>3 DEF ReadBody, Quiet, TypeOK
    <3>2. QED BY <2>2, <2>3, <3>1 DEF ReadBody, Busy, Closes, TypeOK
  <2>4. CASE SkipBody(w)
    BY <2>2, <2>4 DEF SkipBody, Busy, Closes, Quiet, TypeOK
  <2>5. CASE FinishRequest(w)
    BY <2>2, <2>5 DEF FinishRequest, PollDel, Busy, Closes, Quiet, TypeOK
  <2>6. CASE ShutDone(w)
    <3>1. Closes(w) /\ (job[w].conn \notin Keep => job[w].fd \notin polled)
      BY <1>2, <2>6 DEF ShutDone, JobsOwn, Busy, Closes
    <3>2. QED BY <2>2, <2>6, <3>1 DEF ShutDone, Busy, Closes, Quiet, TypeOK
  <2>7. ASSUME ~Busy(w)', \A v \in Workers \ {w} : at'[v] = at[v] /\ job'[v] = job[v],
               UNCHANGED <<hup, pc, cur, queue>>, polled' \subseteq polled,
               \A f \in Fds : f = job[w].fd \/ file'[f] = file[f],
               UNCHANGED file \/ (Busy(w) /\ job[w].fd \in Fds),
               \A c \in Conns : Quiet(c) => Quiet(c)', AnswersOwn'
        PROVE  Owned'
    <3>1. \A f \in Fds : (\E i \in 1 .. Len(queue) : queue[i].fd = f) => file'[f] = file[f]
      BY <1>2, <2>7 DEF OneHolder
    <3>2. \A v \in Workers \ {w} : Busy(v) => file'[job[v].fd] = file[job[v].fd]
      BY <1>1, <1>2, <2>7 DEF OneHolder
    <3>3. QueueOwn'
      BY <1>1, <1>2, <2>7, <3>1 DEF QueueOwn, Own
    <3>4. JobsOwn'
      BY <1>1, <1>2, <2>7, <3>2 DEF JobsOwn, Own, Busy, Closes
    <3>5. CurOwn'
      BY <1>2, <2>7 DEF CurOwn, Busy, TypeOK
    <3>6. OneHolder'
      BY <1>2, <2>7 DEF OneHolder, Busy
    <3>7. QED BY <2>7, <3>3, <3>4, <3>5, <3>6 DEF Owned
  <2>8. CASE Write(w)
    <3>1. /\ Busy(w) /\ file[job[w].fd] = job[w].conn /\ at[w] = "write"
          /\ UNCHANGED <<file, polled, hup, inbox, pc, cur, queue>>
      BY <1>2, <2>8 DEF Write, JobsOwn, Own, Busy
    <3>2. AnswersOwn'
      <4>1. answers' = answers \/ answers' = [answers EXCEPT ![job[w].conn] = Append(@, job[w].conn)]
        BY <2>8, <3>1 DEF Write, WriteArrives, WriteFails
      <4>2. CASE answers' = answers
        BY <1>2, <4>2 DEF AnswersOwn
      <4>3. CASE answers' = [answers EXCEPT ![job[w].conn] = Append(@, job[w].conn)]
        <5> DEFINE c == job[w].conn
        <5>1. c \in Conns /\ answers[c] \in Seq(Conns)
          BY <1>1, <3>1 DEF TypeOK
        <5>2. \A i \in 1 .. Len(Append(answers[c], c)) :
                i = Len(answers[c]) + 1 \/ i \in 1 .. Len(answers[c])
          BY <5>1
        <5>3. \A i \in 1 .. Len(Append(answers[c], c)) : Append(answers[c], c)[i] = c
          BY <1>2, <5>1, <5>2 DEF AnswersOwn
        <5>4. \A d \in Conns : answers'[d] = IF d = c THEN Append(answers[c], c) ELSE answers[d]
          BY <4>3, <5>1 DEF TypeOK
        <5>5. QED BY <1>2, <5>3, <5>4 DEF AnswersOwn
      <4>4. QED BY <4>1, <4>2, <4>3
    <3>3. CASE at'[w] = "idle"
      BY <1>1, <2>7, <2>8, <3>1, <3>2, <3>3 DEF Write, Busy, Quiet, TypeOK
    <3>4. CASE at'[w] # "idle"
      <4>1. /\ at' = [at EXCEPT ![w] = "shut"] /\ job' = job
        BY <2>8, <3>4 DEF Write, TypeOK
      <4>2. job[w].conn \notin Keep => job[w].fd \notin polled
        BY <1>2, <3>1 DEF JobsOwn, Closes
      <4>3. QueueOwn' /\ JobsOwn'
        BY <1>1, <1>2, <3>1, <4>1, <4>2 DEF QueueOwn, JobsOwn, Own, Quiet, Busy, Closes, TypeOK
      <4>4. CurOwn' /\ OneHolder'
        BY <1>2, <3>1, <4>1 DEF CurOwn, OneHolder, Busy, TypeOK
      <4>5. QED BY <3>2, <4>3, <4>4 DEF Owned
    <3>5. QED BY <3>3, <3>4
  <2>9. CASE CloseDone(w)
    <3>1. /\ Busy(w) /\ ~Busy(w)' /\ UNCHANGED <<hup, answers, pc, cur, queue>>
          /\ \A v \in Workers \ {w} : at'[v] = at[v] /\ job'[v] = job[v]
      BY <2>9 DEF CloseDone, Busy, TypeOK
    <3>2. /\ \A f \in Fds : f = job[w].fd \/ file'[f] = file[f]
          /\ polled' \subseteq polled
      BY <2>9 DEF CloseDone, Close, TypeOK
    <3>3. \A c \in Conns : Quiet(c) => Quiet(c)'
      BY <2>9 DEF CloseDone, Close, Quiet, TypeOK
    <3>4. AnswersOwn'
      BY <1>2, <3>1 DEF AnswersOwn
    <3>5. QED BY <1>1, <2>7, <3>1, <3>2, <3>3, <3>4
  <2>10. QED BY <1>7, <2>1, <2>3, <2>4, <2>5, <2>6, <2>8, <2>9 DEF Worker
<1>8. ASSUME NEW c \in Conns, Client(c) PROVE Owned'
  <2>1. ASSUME disturbed' = IF InHands(c) \/ ClosingPolled(c) THEN disturbed \cup {c} ELSE disturbed,
               UNCHANGED <<file, polled, answers, pc, cur, queue, at, job>>,
               \A d \in Conns \ {c} : Quiet(d) => Quiet(d)'
        PROVE  Owned'
    <3>1. ~InHands(c) /\ ~ClosingPolled(c)
      BY <2>1
    <3>2. QueueOwn'
      BY <1>1, <1>2, <2>1, <3>1 DEF QueueOwn, Own, InHands
    <3>3. JobsOwn'
      BY <1>1, <1>2, <2>1, <3>1 DEF JobsOwn, Own, Busy, Closes, InHands, ClosingPolled, TypeOK, WorkSteps
    <3>4. CurOwn' /\ OneHolder' /\ AnswersOwn'
      BY <1>2, <2>1 DEF CurOwn, OneHolder, AnswersOwn, Busy
    <3>5. QED BY <3>2, <3>3, <3>4 DEF Owned
  <2>2. ASSUME NEW piece, Send(c, piece) PROVE Owned'
    BY <2>1, <2>2 DEF Send, Disturb, Quiet, TypeOK
  <2>3. CASE HangUp(c)
    BY <2>1, <2>3 DEF HangUp, Disturb, Quiet, TypeOK
  <2>4. CASE Connect(c) \/ TakenElsewhere(c)
    BY <1>3, <2>4 DEF Connect, TakenElsewhere
  <2>5. QED BY <1>8, <2>2, <2>3, <2>4 DEF Client, Ask, SendRest
<1>9. CASE UNCHANGED vars
  BY <1>3, <1>9 DEF vars
<1>10. QED BY <1>4, <1>5, <1>6, <1>7, <1>8, <1>9 DEF Next

-----------------------------------------------------------------------------

(* What was disturbed once stays so.                                       *)
LEMMA DisturbedGrows == [Next]_vars => disturbed \subseteq disturbed'
<1> SUFFICES ASSUME [Next]_vars PROVE disturbed \subseteq disturbed'
  OBVIOUS
<1> USE DEF clients, receiver, workers
<1>1. CASE Receiver
  BY <1>1 DEF Receiver, Accept, AcceptFails, ReadSucceeds, ReadFails, ShutFailed, CloseFailed
<1>2. CASE PollListener \/ \E f \in Fds : PollConnection(f)
  BY <1>2 DEF PollListener, PollConnection
<1>3. ASSUME NEW w \in Workers, Worker(w) PROVE disturbed' = disturbed
  BY <1>3 DEF Worker, Take, ReadBody, SkipBody, FinishRequest, Write, ShutDone, CloseDone
<1>4. ASSUME NEW c \in Conns, Client(c) PROVE disturbed \subseteq disturbed'
  BY <1>4 DEF Client, Connect, Ask, SendRest, Send, HangUp, Disturb, TakenElsewhere
<1>5. CASE UNCHANGED vars BY <1>5 DEF vars
<1>6. QED BY <1>1, <1>2, <1>3, <1>4, <1>5 DEF Next

LEMMA InductiveInvariant == Spec => []IInv
<1>1. Init => IInv
  <2> SUFFICES ASSUME Init PROVE IInv
    OBVIOUS
  <2> USE NoneIsOutside, NothingIsASequence DEF Init
  <2>1. TypeOK
    <3>1. queue \in Seq(Jobs)
      BY EmptySeq
    <3>2. QED BY <3>1 DEF TypeOK, Lives, PollSteps, WorkSteps
  <2>2. PolledOrClosed /\ OneNumber
    BY DEF PolledOrClosed, OneNumber
  <2>3. Owned
    BY DEF Owned, QueueOwn, JobsOwn, CurOwn, OneHolder, AnswersOwn, Busy
  <2>4. QED BY <2>1, <2>2, <2>3 DEF IInv
<1>2. IInv /\ [Next]_vars => IInv'
  BY TypeNext, PolledNext, OneNumberNext, OwnedNext, DisturbedGrows DEF IInv
<1>3. QED BY <1>1, <1>2, PTL DEF Spec

(* An open descriptor is polled, or somebody who still has its number will *)
(* poll or close it: for any connections, numbers and workers.             *)
THEOREM NoDescriptorIsLost == Spec => []Watched
<1>1. IInv => Watched
  BY DEF IInv, PolledOrClosed, Watched
<1>2. QED BY <1>1, InductiveInvariant, PTL

(* While no connection is disturbed, every worker's number stands for the  *)
(* connection of its request, and every response arrives where the request *)
(* came from, whichever connections are kept and however numbers are       *)
(* used again.                                                             *)
THEOREM ResponsesReachTheirOwn == Spec => []OwnAnswers
<1>1. IInv => OwnAnswers
  <2> SUFFICES ASSUME IInv, disturbed = {}
               PROVE  /\ \A c \in Conns : \A i \in DOMAIN answers[c] : answers[c][i] = c
                      /\ \A w \in Workers : at[w] # "idle" => file[job[w].fd] = job[w].conn
    BY DEF OwnAnswers
  <2>1. \A c \in Conns : DOMAIN answers[c] = 1 .. Len(answers[c])
    BY DEF IInv, TypeOK
  <2>2. QED BY <2>1 DEF IInv, Owned, AnswersOwn, JobsOwn, Own, Busy
<1>2. QED BY <1>1, InductiveInvariant, PTL

=============================================================================
