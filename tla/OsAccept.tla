------------------------------ MODULE OsAccept ------------------------------
(***************************************************************************)
(* FCGX_Accept_r (fcgiapp.cpp) and OS_Accept (fcgios.cpp): how a program   *)
(* written against the library, rather than against FcgiPoll, takes its    *)
(* requests: one connection at a time, blocking, from clients that may     *)
(* have left or may not be allowed, until SIGUSR1 asks it to finish.       *)
(*                                                                         *)
(* accept() leaves its result in the variable `socket`, which a retry does *)
(* not clear: that it may hold a number closed since is part of the state. *)
(***************************************************************************)
EXTENDS Naturals, Sequences

CONSTANTS
  Callers,     (* kinds of connections: see CallerType                      *)
  FailOnIntr,  (* FCGI_FAIL_ACCEPT_ON_INTR in the request's flags           *)
  MaxCallers,  (* bound: connections of a run                               *)
  MaxUsr1,     (* bound: SIGUSR1s                                           *)
  NoSocket

(* inet: not a Unix socket; allowed: its address is in                     *)
(* FCGI_WEB_SERVER_ADDRS, or there is no list; aborted: gone before        *)
(* accept(), which then fails; speaks: its first bytes come within two     *)
(* seconds; request: they make a request; keep: it keeps the connection;   *)
(* silent: it makes no request and does not hang up either.                *)
CallerType ==
  {c \in [inet : BOOLEAN, allowed : BOOLEAN, aborted : BOOLEAN, speaks : BOOLEAN,
          request : BOOLEAN, keep : BOOLEAN, silent : BOOLEAN] : c.silent => ~c.request}

ASSUME CallersAssumption == Callers \subseteq CallerType

VARIABLES
  libInitialized,
  step,             (* where the program is                                 *)
  backlog,          (* connections waiting at the listener                  *)
  socket,           (* OS_Accept's variable: what it last held              *)
  stale,            (* it was closed and stands for nothing                 *)
  errno,            (* of the last accept()                                 *)
  shutdownPending,
  ipcFd,            (* the request's connection                             *)
  result,           (* of FCGX_Accept_r                                     *)
  callers, usr1,    (* the bounded counters                                 *)
  missed            (* history: SIGUSR1 fell into "a window here"           *)

acceptVars == <<libInitialized, step, backlog, socket, stale, errno, shutdownPending,
                ipcFd, result, callers, usr1, missed>>

AcceptInit ==
  /\ libInitialized = FALSE
  /\ step = "program"
  /\ backlog = <<>>
  /\ socket = NoSocket /\ stale = FALSE /\ errno = "none"
  /\ shutdownPending = FALSE
  /\ ipcFd = NoSocket /\ result = "none"
  /\ callers = 0 /\ usr1 = 0 /\ missed = FALSE

To(from, to) == step = from /\ step' = to

-----------------------------------------------------------------------------
(* The program's calls.                                                     *)

(* FCGX_Init, by the program or by FCGX_Accept.                            *)
FCGX_Init ==
  /\ step = "program" /\ ~libInitialized
  /\ libInitialized' = TRUE
  /\ UNCHANGED <<step, backlog, socket, stale, errno, shutdownPending, ipcFd, result,
                 callers, usr1, missed>>

(* FCGX_Accept_r: -9998 without FCGX_Init; it finishes the last request,   *)
(* which closes the connection unless it is kept and could be written to.  *)
FCGX_Accept_r ==
  /\ result \in {"none", "request", "uninitialized"}
  /\ IF ~libInitialized
     THEN /\ To("program", "program")
          /\ result' = "uninitialized"
          /\ UNCHANGED ipcFd
     ELSE /\ To("program", "next")
          /\ result' = "none"
          /\ \/ ipcFd' = NoSocket
             \/ ipcFd # NoSocket /\ ipcFd.keep /\ UNCHANGED ipcFd
  /\ UNCHANGED <<libInitialized, backlog, socket, stale, errno, shutdownPending, callers,
                 usr1, missed>>

(* for (;;): a connection that is open is read again; otherwise OS_Accept  *)
(* is called.                                                              *)
NextRequest ==
  /\ IF ipcFd # NoSocket THEN To("next", "read") ELSE To("next", "test")
  /\ socket' = NoSocket /\ stale' = FALSE /\ errno' = "none"
  /\ UNCHANGED <<libInitialized, backlog, shutdownPending, ipcFd, result, callers, usr1, missed>>

(* FillBuffProc and ReadParams, modelled in FcgiReader: what does not make *)
(* a request is closed, and the loop goes on.  Nothing comes of a client   *)
(* that is silent: read() blocks, without a time limit.                    *)
ReadRequest ==
  /\ step = "read"
  /\ \/ /\ ipcFd.request
        /\ step' = "program" /\ result' = "request"
        /\ UNCHANGED ipcFd
     \/ /\ (~ipcFd.request /\ ~ipcFd.silent) \/ ipcFd.keep  (* or it is over *)
        /\ step' = "next" /\ ipcFd' = NoSocket
        /\ UNCHANGED result
  /\ UNCHANGED <<libInitialized, backlog, socket, stale, errno, shutdownPending, callers,
                 usr1, missed>>

(* A signal while read() blocks: EINTR, an error like others.              *)
InterruptedRead ==
  /\ To("read", "next")
  /\ usr1 < MaxUsr1 /\ usr1' = usr1 + 1
  /\ shutdownPending' \in {shutdownPending, TRUE}
  /\ ipcFd' = NoSocket
  /\ UNCHANGED <<libInitialized, backlog, socket, stale, errno, result, callers, missed>>

-----------------------------------------------------------------------------
(* OS_Accept.                                                               *)

TestShutdown ==
  /\ IF shutdownPending THEN To("test", "accepted") ELSE To("test", "accept")
  /\ UNCHANGED <<libInitialized, backlog, socket, stale, errno, shutdownPending, ipcFd,
                 result, callers, usr1, missed>>

(* accept() gives the first connection, fails because it was aborted, or   *)
(* fails for want of a descriptor, which is no reason to go on.            *)
Accept ==
  /\ backlog # <<>>
  /\ To("accept", "accepted")
  /\ missed' = FALSE
  /\ \/ /\ backlog' = Tail(backlog)
        /\ stale' = FALSE
        /\ IF Head(backlog).aborted
           THEN socket' = NoSocket /\ errno' = "reasonable"
           ELSE socket' = Head(backlog) /\ UNCHANGED errno
     \/ /\ socket' = NoSocket /\ errno' = "fatal" /\ stale' = FALSE
        /\ UNCHANGED backlog
  /\ UNCHANGED <<libInitialized, shutdownPending, ipcFd, result, callers, usr1>>

(* A signal while accept() blocks: EINTR.  The loop goes on unless the     *)
(* caller asked it not to or SIGUSR1 was what came.                        *)
Interrupted ==
  /\ step = "accept" /\ backlog = <<>> /\ ~missed
  /\ usr1 < MaxUsr1 /\ usr1' = usr1 + 1
  /\ shutdownPending' \in {shutdownPending, TRUE}
  /\ socket' = NoSocket /\ stale' = FALSE
  /\ IF FailOnIntr \/ shutdownPending'
     THEN step' = "accepted" /\ errno' = "fatal"
     ELSE step' = "test" /\ UNCHANGED errno
  /\ UNCHANGED <<libInitialized, backlog, ipcFd, result, callers, missed>>

AcceptFailed ==
  /\ step = "accepted" /\ socket = NoSocket
  /\ IF shutdownPending \/ errno # "reasonable"
     THEN /\ step' = "program" /\ result' = "error"
          /\ UNCHANGED errno
     ELSE /\ step' = "test" /\ errno' = "none"
          /\ UNCHANGED result
  /\ UNCHANGED <<libInitialized, backlog, socket, stale, shutdownPending, ipcFd, callers,
                 usr1, missed>>

(* Deviation: the list of addresses is not looked at.                      *)
AcceptAnyone ==
  /\ step = "accepted" /\ socket # NoSocket
  /\ step' = IF socket.inet THEN "return" ELSE "keeper"
  /\ UNCHANGED <<libInitialized, backlog, socket, stale, errno, shutdownPending, ipcFd,
                 result, callers, usr1, missed>>

(* ClientAddrOK for a TCP client; who is not approved is closed, and the   *)
(* variable keeps the number.                                              *)
CheckClient ==
  /\ step = "accepted" /\ socket # NoSocket
  /\ IF ~socket.inet THEN step' = "keeper" /\ UNCHANGED stale
     ELSE IF socket.allowed THEN step' = "return" /\ UNCHANGED stale
     ELSE step' = "test" /\ stale' = TRUE
  /\ UNCHANGED <<libInitialized, backlog, socket, errno, shutdownPending, ipcFd, result,
                 callers, usr1, missed>>

(* is_af_unix_keeper: a client on a Unix socket that says nothing for two  *)
(* seconds is closed.  A closed number is not readable either.             *)
CheckKeeper ==
  /\ step = "keeper"
  /\ IF socket.speaks /\ ~stale THEN step' = "return" /\ UNCHANGED stale
     ELSE step' = "test" /\ stale' = TRUE
  /\ UNCHANGED <<libInitialized, backlog, socket, errno, shutdownPending, ipcFd, result,
                 callers, usr1, missed>>

ReturnSocket ==
  /\ To("return", "read")
  /\ ipcFd' = socket
  /\ UNCHANGED <<libInitialized, backlog, socket, stale, errno, shutdownPending, result,
                 callers, usr1, missed>>

OS_Accept == TestShutdown \/ Accept \/ AcceptFailed \/ CheckClient \/ CheckKeeper \/ ReturnSocket

-----------------------------------------------------------------------------
(* Clients and signals.                                                     *)

Call ==
  /\ callers < MaxCallers /\ callers' = callers + 1
  /\ \E c \in Callers : backlog' = Append(backlog, c)
  /\ UNCHANGED <<libInitialized, step, socket, stale, errno, shutdownPending, ipcFd,
                 result, usr1, missed>>

(* OS_Sigusr1Handler, once installed.  Between the test of shutdownPending *)
(* and accept() there is "a window": accept() then blocks all the same.    *)
Sigusr1 ==
  /\ libInitialized
  /\ usr1 < MaxUsr1 /\ usr1' = usr1 + 1
  /\ shutdownPending' = TRUE
  /\ missed' = (missed \/ step = "accept")
  /\ UNCHANGED <<libInitialized, step, backlog, socket, stale, errno, ipcFd, result, callers>>

Library == FCGX_Accept_r \/ NextRequest \/ ReadRequest \/ OS_Accept

AcceptNext == FCGX_Init \/ Library \/ Interrupted \/ InterruptedRead \/ Call \/ Sigusr1

AcceptSpec == AcceptInit /\ [][AcceptNext]_acceptVars

AcceptFairness == WF_acceptVars(Library)

-----------------------------------------------------------------------------
(* Properties.                                                              *)

(* Who may be served: a TCP client at an allowed address, a client on a    *)
(* Unix socket that has spoken.                                            *)
Approved(c) == (c.inet => c.allowed) /\ (~c.inet => c.speaks)

(* "Prevent the lib from accepting any new requests" (fcgiapp.h:577): once *)
(* SIGUSR1 came, FCGX_Accept_r comes to return an error instead of waiting *)
(* or retrying for ever.  Four exceptions: the web server keeps its        *)
(* connection and goes on asking; the signal fell into the window before   *)
(* accept(); it came after the last test of shutdownPending and before     *)
(* read(), which then waits for a client that is silent, as long as it is  *)
(* (fcgiapp.cpp:1615); or it found a closed number in `socket`, with which *)
(* OS_Accept goes round for ever (fcgios.cpp:1107-1159).  And a request is *)
(* served only to a client that may be, never from a number OS_Accept has  *)
(* closed.                                                                 *)
ShutdownEndsAccept ==
  /\ shutdownPending ~>
        (result = "error" \/ missed \/ stale
           \/ (ipcFd # NoSocket /\ (ipcFd.keep \/ ipcFd.silent)))
  /\ [](result = "request" => Approved(ipcFd) /\ ~stale)
=============================================================================
