---------------------------- MODULE Connections ----------------------------
(***************************************************************************)
(* The descriptors that the receiver, the workers and the web server's     *)
(* connections share.                                                      *)
(*                                                                         *)
(* accept() gives a connection the lowest free number; the receiver polls  *)
(* it, level-triggered, and reads a request from it (FcgiPoll.cpp); a      *)
(* worker reads the rest of the body, writes the response and, as          *)
(* FinishRequest and FCGX_Finish_r decide, closes the number it was given  *)
(* (FcgiPoll.h, fcgiapp.cpp, fcgios.cpp).  A number says nothing of the    *)
(* connection it stood for earlier: whatever a thread does to a number     *)
(* happens to the connection that has it at that moment.                   *)
(*                                                                         *)
(* Stop() and the wake-up are FcgiPoll.tla's; records and parameters are   *)
(* FcgiReader's and FcgiWriter's.  A request here is one piece ("whole")   *)
(* or two ("head", "rest"), and a response is one write.                   *)
(***************************************************************************)
EXTENDS Naturals, Sequences, FiniteSets

CONSTANTS
  Conns,      (* the connections the web server may open                   *)
  Keep,       (* those whose requests carry FCGI_KEEP_CONN                 *)
  Rude,       (* those that may hang up before the answer or split a body  *)
  Fds,        (* the descriptor numbers the process may use, numbers       *)
  Workers,
  None,
  MaxAsked    (* bound: requests of one connection                         *)

ASSUME ConnsAssumption ==
  /\ Keep \subseteq Conns /\ Rude \subseteq Conns
  /\ Fds \subseteq Nat /\ IsFiniteSet(Fds)
  /\ None \notin Conns \cup Fds

VARIABLES
  file,       (* the connection each descriptor number stands for          *)
  polled,     (* the numbers in the epoll set                              *)
  life,       (* each connection: new, backlog, open, shut, gone           *)
  inbox,      (* what was sent and not yet read                            *)
  hup,        (* the web server closed its end                             *)
  asked,      (* requests begun on each connection                         *)
  answers,    (* whose responses arrived at each connection                *)
  pc, cur,    (* the receiver: where it is, request->ipcFd                 *)
  queue,      (* m_requestList                                             *)
  at, job,    (* each worker: where it is, the request it has              *)
  failed,     (* a stream of the worker's request is in error              *)
  disturbed   (* history: a connection that still had something to be read *)
              (* or hung up while a request of it was in the server's      *)
              (* hands, or its number about to be closed but still polled  *)

clients  == <<inbox, hup, asked, answers, disturbed>>
receiver == <<pc, cur>>
workers  == <<at, job, failed>>
vars     == <<file, polled, life, clients, receiver, queue, workers>>

NoJob == [conn |-> None, fd |-> None, open |-> FALSE]

Init ==
  /\ file = [f \in Fds |-> None] /\ polled = {}
  /\ life = [c \in Conns |-> "new"]
  /\ inbox = [c \in Conns |-> <<>>]
  /\ hup = [c \in Conns |-> FALSE]
  /\ asked = [c \in Conns |-> 0]
  /\ answers = [c \in Conns |-> <<>>]
  /\ pc = "wait" /\ cur = None /\ queue = <<>>
  /\ at = [w \in Workers |-> "idle"]
  /\ job = [w \in Workers |-> NoJob]
  /\ failed = [w \in Workers |-> FALSE]
  /\ disturbed = {}

(* The server has a request of c that it has not answered.                 *)
InHands(c) ==
  \/ \E i \in DOMAIN queue : queue[i].conn = c
  \/ \E w \in Workers : job[w].conn = c /\ at[w] \in {"handle", "finish", "write"}

-----------------------------------------------------------------------------
(* Descriptors.                                                             *)

(* PollDel, on whatever connection has the number; a number that is not    *)
(* polled is left alone.                                                   *)
PollDel(f) == polled' = polled \ {f}

(* shutdown(fd, 1): nothing written to the connection arrives any more.    *)
Shut(f) ==
  life' = IF file[f] = None THEN life ELSE [life EXCEPT ![file[f]] = "shut"]

(* The end of OS_Close: what is left to be read is drained, the number is  *)
(* free, and the epoll set forgets it.                                     *)
Close(f) ==
  /\ file' = [file EXCEPT ![f] = None]
  /\ polled' = polled \ {f}
  /\ IF file[f] = None
     THEN UNCHANGED <<life, inbox>>
     ELSE /\ life' = [life EXCEPT ![file[f]] = "gone"]
          /\ inbox' = [inbox EXCEPT ![file[f]] = <<>>]

-----------------------------------------------------------------------------
(* The receiver: PollRequest in a loop.                                     *)

Backlog == {c \in Conns : life[c] = "backlog"}
Readable(f) == file[f] # None /\ (inbox[file[f]] # <<>> \/ hup[file[f]])

PollListener ==
  /\ pc = "wait" /\ Backlog # {}
  /\ pc' = "accept"
  /\ UNCHANGED <<file, polled, life, clients, cur, queue, workers>>

PollConnection(f) ==
  /\ pc = "wait" /\ f \in polled /\ Readable(f)
  /\ pc' = "read" /\ cur' = f
  /\ UNCHANGED <<file, polled, life, clients, queue, workers>>

Free == {f \in Fds : file[f] = None}

(* Deviation: PollAdd left to whoever finishes a request.                  *)
AcceptUnpolled ==
  /\ pc = "accept" /\ pc' = "wait"
  /\ \E c \in Backlog : \E f \in Free :
       /\ \A g \in Free : f <= g
       /\ file' = [file EXCEPT ![f] = c]
       /\ life' = [life EXCEPT ![c] = "open"]
  /\ UNCHANGED <<polled, clients, cur, queue, workers>>

Accept ==
  /\ pc = "accept" /\ pc' = "wait"
  /\ \E c \in Backlog : \E f \in Free :
       /\ \A g \in Free : f <= g
       /\ file' = [file EXCEPT ![f] = c]
       /\ life' = [life EXCEPT ![c] = "open"]
       /\ polled' = polled \cup {f}
  /\ UNCHANGED <<clients, cur, queue, workers>>

(* accept() returns -1: another process of SpawnFcgi was faster, or there  *)
(* is no free number.  fcntl(-1) fails, close(-1) does nothing.            *)
AcceptFails ==
  /\ pc = "accept" /\ pc' = "wait"
  /\ Backlog = {} \/ Free = {}
  /\ UNCHANGED <<file, polled, life, clients, cur, queue, workers>>

(* ReadRequest: one read takes what is there, or the first of two pieces.  *)
(* What stays, or a hang-up, makes the descriptor readable again at once.  *)
ReadSucceeds ==
  /\ pc = "read" /\ pc' = "wait" /\ cur' = None
  /\ file[cur] # None
  /\ LET c == file[cur] IN
     /\ inbox[c] # <<>> /\ Head(inbox[c]) # "rest"
     /\ \E n \in 1 .. Len(inbox[c]) :
          /\ inbox' = [inbox EXCEPT ![c] = SubSeq(@, n + 1, Len(@))]
          /\ queue' = Append(queue, [conn |-> c, fd |-> cur,
                                     open |-> Head(inbox[c]) = "head" /\ n = 1])
     /\ disturbed' = IF inbox'[c] # <<>> \/ hup[c] THEN disturbed \cup {c} ELSE disturbed
  /\ UNCHANGED <<file, polled, life, hup, asked, answers, workers>>

(* It fails on a number closed since, on the end of the input, without     *)
(* input (EAGAIN), on the rest of another request, or on a head without    *)
(* all its parameters.  PollDel follows.                                   *)
ReadFails ==
  /\ pc = "read" /\ pc' = "shut"
  /\ IF file[cur] = None THEN UNCHANGED inbox
     ELSE /\ inbox[file[cur]] # <<>> => Head(inbox[file[cur]]) # "whole"
          /\ inbox' = [inbox EXCEPT ![file[cur]] = <<>>]
  /\ PollDel(cur)
  /\ UNCHANGED <<file, life, hup, asked, answers, disturbed, cur, queue, workers>>

(* FCGX_Free(request, 1): OS_Close shuts the connection down, waits up to  *)
(* two seconds for its end, and closes the number.                         *)
ShutFailed ==
  /\ pc = "shut" /\ pc' = "close"
  /\ Shut(cur)
  /\ UNCHANGED <<file, polled, clients, cur, queue, workers>>

CloseFailed ==
  /\ pc = "close" /\ pc' = "wait" /\ cur' = None
  /\ Close(cur)
  /\ UNCHANGED <<hup, asked, answers, disturbed, queue, workers>>

Receiver == Accept \/ AcceptFails \/ ReadSucceeds \/ ReadFails \/ ShutFailed \/ CloseFailed

-----------------------------------------------------------------------------
(* A worker: Handle, then FinishRequest when the last pointer goes.         *)

Step(w, from, to) == at[w] = from /\ at' = [at EXCEPT ![w] = to]

Take(w) ==
  /\ queue # <<>>
  /\ Step(w, "idle", IF Head(queue).open THEN "handle" ELSE "finish")
  /\ job' = [job EXCEPT ![w] = Head(queue)]
  /\ queue' = Tail(queue)
  /\ failed' = [failed EXCEPT ![w] = FALSE]
  /\ UNCHANGED <<file, polled, life, clients, receiver>>

(* The handler reads the body: the rest of it, or nothing yet (EAGAIN),    *)
(* the end of the input, a closed number, another connection's bytes.      *)
ReadBody(w) ==
  /\ Step(w, "handle", "finish")
  /\ LET c == file[job[w].fd] IN
     IF c = None THEN UNCHANGED inbox /\ failed' = [failed EXCEPT ![w] = TRUE]
     ELSE /\ failed' = [failed EXCEPT ![w] = inbox[c] # <<"rest">>]
          /\ inbox' = [inbox EXCEPT ![c] = <<>>]
  /\ UNCHANGED <<file, polled, life, hup, asked, answers, disturbed, receiver, queue, job>>

(* The handler does not look at the rest of the body.                      *)
SkipBody(w) ==
  /\ Step(w, "handle", "finish")
  /\ UNCHANGED <<file, polled, life, clients, receiver, queue, job, failed>>

(* Deviation: nothing leaves the epoll set before the response.            *)
FinishStillPolled(w) ==
  /\ Step(w, "finish", "write")
  /\ UNCHANGED <<file, polled, life, clients, receiver, queue, job, failed>>

(* FinishRequest: a connection that will be closed is not polled further.  *)
FinishRequest(w) ==
  /\ Step(w, "finish", "write")
  /\ IF job[w].conn \in Keep THEN UNCHANGED polled ELSE PollDel(job[w].fd)
  /\ UNCHANGED <<file, life, clients, receiver, queue, job, failed>>

(* FCGX_FClose of both streams writes the response: it arrives at the      *)
(* connection that has the number, unless that one is shut down.  One that *)
(* hung up takes it or refuses it.                                         *)
WriteArrives(w, c) ==
  /\ c # None /\ life[c] # "shut"
  /\ answers' = IF hup[c] THEN answers
                ELSE [answers EXCEPT ![c] = Append(@, job[w].conn)]
WriteFails(c) == (c # None => life[c] = "shut" \/ hup[c]) /\ UNCHANGED answers

(* Deviation: a connection is closed only on an error.                     *)
WriteAndLeave(w) ==
  /\ at[w] = "write"
  /\ LET c == file[job[w].fd] IN
     \/ /\ WriteArrives(w, c)
        /\ at' = [at EXCEPT ![w] = IF failed[w] THEN "shut" ELSE "idle"]
     \/ /\ WriteFails(c)
        /\ at' = [at EXCEPT ![w] = "shut"]
  /\ job' = IF at'[w] = "idle" THEN [job EXCEPT ![w] = NoJob] ELSE job
  /\ UNCHANGED <<file, polled, life, inbox, hup, asked, disturbed, receiver, queue, failed>>

(* close = !keepConnection | the errors of the three streams               *)
Write(w) ==
  /\ at[w] = "write"
  /\ LET c == file[job[w].fd] IN
     \/ /\ WriteArrives(w, c)
        /\ at' = [at EXCEPT ![w] = IF job[w].conn \in Keep /\ ~failed[w] THEN "idle" ELSE "shut"]
     \/ /\ WriteFails(c)
        /\ at' = [at EXCEPT ![w] = "shut"]
  /\ job' = IF at'[w] = "idle" THEN [job EXCEPT ![w] = NoJob] ELSE job
  /\ UNCHANGED <<file, polled, life, inbox, hup, asked, disturbed, receiver, queue, failed>>

ShutDone(w) ==
  /\ Step(w, "shut", "close")
  /\ Shut(job[w].fd)
  /\ UNCHANGED <<file, polled, clients, receiver, queue, job, failed>>

CloseDone(w) ==
  /\ Step(w, "close", "idle")
  /\ Close(job[w].fd)
  /\ job' = [job EXCEPT ![w] = NoJob]
  /\ UNCHANGED <<hup, asked, answers, disturbed, receiver, queue, failed>>

Worker(w) == Take(w) \/ ReadBody(w) \/ SkipBody(w) \/ FinishRequest(w) \/ Write(w)
             \/ ShutDone(w) \/ CloseDone(w)

-----------------------------------------------------------------------------
(* The web server, and the other processes that share the listener.         *)

Connect(c) ==
  /\ life[c] = "new"
  /\ life' = [life EXCEPT ![c] = "backlog"]
  /\ UNCHANGED <<file, polled, clients, receiver, queue, workers>>

(* An error closes a connection that was to be kept, which FinishRequest   *)
(* therefore left in the epoll set.                                        *)
ClosingPolled(c) ==
  c \in Keep /\ \E w \in Workers : job[w].conn = c /\ at[w] \in {"shut", "close"}

Disturb(c) ==
  disturbed' = IF InHands(c) \/ ClosingPolled(c) THEN disturbed \cup {c} ELSE disturbed

Send(c, piece) ==
  /\ life[c] \in {"backlog", "open"} /\ ~hup[c]
  /\ inbox' = [inbox EXCEPT ![c] = Append(@, piece)]
  /\ Disturb(c)
  /\ UNCHANGED <<file, polled, life, hup, answers, receiver, queue, workers>>

(* A request, once the last one is answered.                               *)
Ask(c) ==
  /\ asked[c] = Len(answers[c])
  /\ asked[c] < IF c \in Keep THEN MaxAsked ELSE 1
  /\ asked' = [asked EXCEPT ![c] = @ + 1]
  /\ Send(c, "whole") \/ (c \in Rude /\ Send(c, "head"))

(* The other piece, possibly long after the head was taken.                *)
SendRest(c) ==
  /\ c \in Rude /\ asked[c] > Len(answers[c])
  /\ inbox[c] = <<"head">> \/ (InHands(c) /\ inbox[c] = <<>>)
  /\ Send(c, "rest")
  /\ UNCHANGED asked

(* A connection is closed when its requests are answered, when the server  *)
(* has closed it, or, by the impatient, at any moment.                     *)
Satisfied(c) == asked[c] > 0 /\ asked[c] = Len(answers[c])
HangUp(c) ==
  /\ life[c] \notin {"new", "gone"} /\ ~hup[c]
  /\ Satisfied(c) \/ life[c] = "shut" \/ c \in Rude
  /\ hup' = [hup EXCEPT ![c] = TRUE]
  /\ Disturb(c)
  /\ UNCHANGED <<file, polled, life, inbox, asked, answers, receiver, queue, workers>>

(* Another process accepts the connection, and serves it.                  *)
TakenElsewhere(c) ==
  /\ life[c] = "backlog" /\ asked[c] = 0
  /\ life' = [life EXCEPT ![c] = "gone"]
  /\ UNCHANGED <<file, polled, clients, receiver, queue, workers>>

Client(c) == Connect(c) \/ Ask(c) \/ SendRest(c) \/ HangUp(c) \/ TakenElsewhere(c)

-----------------------------------------------------------------------------

Next ==
  \/ Receiver \/ PollListener \/ \E f \in Fds : PollConnection(f)
  \/ \E w \in Workers : Worker(w)
  \/ \E c \in Conns : Client(c)

Spec == Init /\ [][Next]_vars

(* The receiver runs, and some worker and some client while one can.       *)
(* epoll_wait reports one event of those that are ready and puts a         *)
(* descriptor it reported at the end of its list, so that none waits for   *)
(* ever.  A web server sends what it connected for and closes what it no   *)
(* longer needs.                                                           *)
Fairness ==
  /\ WF_vars(Receiver) /\ SF_vars(PollListener)
  /\ \A f \in Fds : SF_vars(PollConnection(f))
  /\ WF_vars(\E w \in Workers : Worker(w))
  /\ WF_vars(\E c \in Conns : Ask(c) \/ (HangUp(c) /\ Satisfied(c)))

FairSpec == Spec /\ Fairness

-----------------------------------------------------------------------------
(* Properties.                                                              *)

(* Every response arrives at the connection its request came from, as long *)
(* as no connection has something to be read, or hangs up, while a request *)
(* of it is in the server's hands, or while a kept one is being closed for *)
(* an error: the epoll set is level-triggered and knows numbers only       *)
(* (FcgiPoll.cpp:193), so everything rests on PollDel coming before the    *)
(* response (FcgiPoll.h:70) and on nobody closing twice.                   *)
OwnAnswers ==
  disturbed = {} =>
    /\ \A c \in Conns : \A i \in DOMAIN answers[c] : answers[c][i] = c
    /\ \A w \in Workers : at[w] # "idle" => file[job[w].fd] = job[w].conn

(* No descriptor is lost, whatever the web server does: one that is open   *)
(* is polled, or the receiver or a worker still has its number and will    *)
(* put it back or close it (FcgiPoll.cpp:207, FcgiPoll.h:70,               *)
(* fcgiapp.cpp:1994).                                                      *)
Watched ==
  \A f \in Fds : file[f] # None =>
    \/ f \in polled
    \/ cur = f /\ pc # "wait"
    \/ \E w \in Workers : job[w].fd = f
    \/ \E i \in DOMAIN queue : queue[i].fd = f

(* Every request sent in one piece is answered, however few descriptors    *)
(* there are, while no connection is disturbed: accept() that fails for    *)
(* want of one (FcgiPoll.cpp:104) leaves the connection in the backlog,    *)
(* where it is found again when a descriptor is returned.                  *)
Served ==
  \A c \in Conns \ Rude :
    asked[c] > Len(answers[c]) ~> (asked[c] = Len(answers[c]) \/ disturbed # {})
=============================================================================
