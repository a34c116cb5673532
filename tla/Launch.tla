------------------------------- MODULE Launch -------------------------------
(***************************************************************************)
(* How server processes come to share a listening socket.                  *)
(*                                                                         *)
(* Server/main.cpp checks its options and calls SpawnFcgi, which binds a   *)
(* TCP port or a path and forks the processes that serve.  The library's   *)
(* own way, for a gateway that starts its application, is                  *)
(* OS_CreateLocalIpcFd, OS_SpawnChild and OS_FcgiConnect (fcgios.cpp).     *)
(* Several launches, of either kind, may want the same path and port; every*)
(* system call is a step another launch may come between, and a process    *)
(* may be killed before any of them.                                       *)
(***************************************************************************)
EXTENDS Naturals, FiniteSets

CONSTANTS
  Launchers,  (* launches; each also names the socket it creates            *)
  MaxForks,   (* bound: what -F asks for                                    *)
  Commands,   (* the command lines: see CommandType                         *)
  None

(* unix is the path of -s, port that of -p; zero: the launch was started   *)
(* without a standard input, so that its socket gets the number 0.         *)
CommandType ==
  [program : {"server", "gateway"}, unix : {"none", "good", "long"}, port : BOOLEAN,
   addr : BOOLEAN, forks : 0 .. MaxForks, noFork : BOOLEAN, zero : BOOLEAN]

ASSUME CommandsAssumption ==
  /\ MaxForks \in Nat /\ Commands \subseteq CommandType
  /\ None \notin Commands \cup Launchers /\ Launchers \cap {"stale", "directory"} = {}

(* Process 0 of a launch is the one that binds.                            *)
Procs == 0 .. MaxForks

VARIABLES
  how,      (* each launch's command line                                   *)
  at,       (* where its first process is                                   *)
  node,     (* what the path names: nothing, a directory, a dead server's   *)
            (* socket, a launch's socket                                    *)
  tcp,      (* the sockets bound to the port                                *)
  up,       (* the sockets listen() was called on                           *)
  holders,  (* the processes that have each socket open                     *)
  left,     (* forkCount                                                    *)
  run,      (* each process: none, loading, serving, dead                   *)
  zero,     (* those of them for which it is descriptor 0                   *)
  reached,  (* the socket a gateway's OS_FcgiConnect reached                *)
  raced     (* history: two launches were at the path at the same time      *)

launchVars == <<how, at, node, tcp, up, holders, left, run, zero, reached, raced>>

LaunchInit ==
  /\ how = [l \in Launchers |-> None]
  /\ at = [l \in Launchers |-> "idle"]
  /\ node \in {None, "stale", "directory"}
  /\ tcp = {} /\ up = {}
  /\ holders = [l \in Launchers |-> {}]
  /\ left = [l \in Launchers |-> 0]
  /\ run = [l \in Launchers |-> [i \in Procs |-> "none"]]
  /\ zero = [l \in Launchers |-> {}]
  /\ reached = [l \in Launchers |-> None]
  /\ raced = FALSE

Live(s) == s \in up /\ holders[s] # {}

Go(l, from, to) == at[l] = from /\ at' = [at EXCEPT ![l] = to]

Others(l) == \E m \in Launchers \ {l} : at[m] \in {"unlink", "bind", "chmod", "listen"}

(* socket(): the lowest number that is free.                               *)
Opens(l) ==
  /\ holders' = [holders EXCEPT ![l] = {0}]
  /\ zero' = [zero EXCEPT ![l] = IF how[l].zero THEN {0} ELSE {}]

Closes(l, i) ==
  /\ holders' = [holders EXCEPT ![l] = @ \ {i}]
  /\ zero' = [zero EXCEPT ![l] = @ \ {i}]

(* fork(): the child has what its parent has.                              *)
Inherits(l, i) ==
  /\ holders' = [holders EXCEPT ![l] = @ \cup {i}]
  /\ zero' = [zero EXCEPT ![l] = IF 0 \in @ THEN @ \cup {i} ELSE @]

(* dup2() to descriptor 0 and close() of the number it had.                *)
Moves(l, i) == zero' = [zero EXCEPT ![l] = @ \cup {i}] /\ UNCHANGED holders

-----------------------------------------------------------------------------
(* main(), bind_socket() and bind_unix_socket().                            *)

OptionsOK(c) == (c.unix # "none") # c.port /\ c.unix # "long"

Main(l) ==
  \E c \in Commands :
    /\ c.program = "server"
    /\ how' = [how EXCEPT ![l] = c]
    /\ Go(l, "idle", CASE ~OptionsOK(c) -> "gone"
                       [] c.port        -> "port"
                       [] OTHER         -> "probe")
    /\ left' = [left EXCEPT ![l] = c.forks]
    /\ UNCHANGED <<node, tcp, up, holders, run, zero, reached, raced>>

(* The port is free unless somebody listens on it (SO_REUSEADDR); two that *)
(* do not listen yet may be bound to it.                                   *)
BindPort(l) ==
  /\ at[l] = "port"
  /\ IF how[l].addr /\ \A s \in tcp : ~Live(s)
     THEN /\ Go(l, "port", "listen")
          /\ tcp' = tcp \cup {l}
          /\ Opens(l)
     ELSE /\ Go(l, "port", "gone")
          /\ UNCHANGED <<tcp, holders, zero>>
  /\ UNCHANGED <<how, node, up, left, run, reached, raced>>

(* Deviation: the path is taken without asking who answers there.          *)
ProbeNobody(l) ==
  /\ Go(l, "probe", "unlink")
  /\ raced' = (raced \/ Others(l))
  /\ UNCHANGED <<how, node, tcp, up, holders, left, run, zero, reached>>

(* connect() succeeds: somebody listens there, and the launch gives up.    *)
Probe(l) ==
  /\ Go(l, "probe", IF Live(node) THEN "gone" ELSE "unlink")
  /\ raced' = (raced \/ Others(l))
  /\ UNCHANGED <<how, node, tcp, up, holders, left, run, zero, reached>>

(* unlink() fails on a directory.                                           *)
Unlink(l) ==
  /\ how[l] # None /\ how[l].program = "server"
  /\ IF node = "directory"
     THEN Go(l, "unlink", "gone") /\ UNCHANGED node
     ELSE Go(l, "unlink", "bind") /\ node' = None
  /\ UNCHANGED <<how, tcp, up, holders, left, run, zero, reached, raced>>

BindPath(l) ==
  /\ at[l] = "bind"
  /\ IF node = None
     THEN /\ Go(l, "bind", IF how[l].program = "gateway" THEN "listen" ELSE "chmod")
          /\ node' = l
          /\ Opens(l)
     ELSE /\ Go(l, "bind", "gone")
          /\ UNCHANGED <<node, holders, zero>>
  /\ UNCHANGED <<how, tcp, up, left, run, reached, raced>>

(* When chmod() fails the socket is closed and the path removed, whatever  *)
(* it names by then.                                                       *)
Chmod(l) ==
  /\ \/ /\ Go(l, "chmod", "listen")
        /\ UNCHANGED <<node, holders, zero>>
     \/ /\ Go(l, "chmod", "gone")
        /\ node' = IF node = "directory" THEN node ELSE None
        /\ Closes(l, 0)
  /\ UNCHANGED <<how, tcp, up, left, run, reached, raced>>

(* listen() fails when another socket bound to the port listens by now.    *)
Listen(l) ==
  /\ IF l \in tcp /\ \E s \in tcp \ {l} : Live(s)
     THEN /\ Go(l, "listen", "gone")
          /\ Closes(l, 0)
          /\ UNCHANGED up
     ELSE /\ Go(l, "listen", "fork")
          /\ up' = up \cup {l}
          /\ UNCHANGED <<holders, zero>>
  /\ UNCHANGED <<how, node, tcp, left, run, reached, raced>>

-----------------------------------------------------------------------------
(* spawn().                                                                 *)

(* while (forkCount--): without -n a child for every turn, or none when    *)
(* fork() fails; with -n this very process, and the loop is left.          *)
ForkChild(l) ==
  /\ left[l] > 0 /\ ~how[l].noFork /\ how[l].program = "server"
  /\ Go(l, "fork", "wait")
  /\ run' = [run EXCEPT ![l][left[l]] = "loading"]
  /\ Inherits(l, left[l])
  /\ left' = [left EXCEPT ![l] = @ - 1]
  /\ UNCHANGED <<how, node, tcp, up, reached, raced>>

ForkFails(l) ==
  /\ left[l] > 0 /\ ~how[l].noFork /\ how[l].program = "server"
  /\ Go(l, "fork", "fork")
  /\ left' = [left EXCEPT ![l] = @ - 1]
  /\ UNCHANGED <<how, node, tcp, up, holders, run, zero, reached, raced>>

DoNotFork(l) ==
  /\ left[l] > 0 /\ how[l].noFork /\ how[l].program = "server"
  /\ Go(l, "fork", "serve")
  /\ run' = [run EXCEPT ![l][0] = "loading"]
  /\ UNCHANGED <<how, node, tcp, up, holders, left, zero, reached, raced>>

(* select() for 100 ms and waitpid(WNOHANG), to print what became of it.   *)
AwaitChild(l) ==
  /\ Go(l, "wait", "fork")
  /\ UNCHANGED <<how, node, tcp, up, holders, left, run, zero, reached, raced>>

(* close(fcgi_fd); return 1                                                *)
SpawnReturns(l) ==
  /\ Go(l, "fork", "gone")
  /\ left[l] = 0 /\ how[l].program = "server"
  /\ Closes(l, 0)
  /\ UNCHANGED <<how, node, tcp, up, left, run, reached, raced>>

(* The child moves the socket to descriptor 0, unless it is there already. *)
(* main() goes on to Listen() on descriptor 0.                             *)
MoveToZero(l, i) ==
  /\ run[l][i] = "loading" /\ how[l].program = "server"
  /\ run' = [run EXCEPT ![l][i] = "serving"]
  /\ IF how[l].zero THEN UNCHANGED <<holders, zero>> ELSE Moves(l, i)
  /\ UNCHANGED <<how, at, node, tcp, up, left, reached, raced>>

-----------------------------------------------------------------------------
(* A gateway: OS_CreateLocalIpcFd, OS_SpawnChild, OS_FcgiConnect.          *)

(* It asks nobody and does not look at unlink()'s result; bind() fails     *)
(* when something is still there.                                          *)
CreateLocalIpcFd(l) ==
  \/ \E c \in Commands :
       /\ c.program = "gateway"
       /\ how' = [how EXCEPT ![l] = c]
       /\ Go(l, "idle", "unlink")
       /\ left' = [left EXCEPT ![l] = c.forks]
       /\ raced' = (raced \/ Others(l))
       /\ UNCHANGED <<node, tcp, up, holders, run, zero, reached>>
  \/ /\ how[l] # None /\ how[l].program = "gateway"
     /\ Go(l, "unlink", "bind")
     /\ node' = IF node = "directory" THEN node ELSE None
     /\ UNCHANGED <<how, tcp, up, holders, left, run, zero, reached, raced>>

SpawnChild(l) ==
  /\ at[l] = "fork" /\ how[l].program = "gateway"
  /\ \/ /\ at' = [at EXCEPT ![l] = "connect"]
        /\ run' = [run EXCEPT ![l][1] = "loading"]
        /\ Inherits(l, 1)
     \/ /\ at' = [at EXCEPT ![l] = "gone"]             (* fork() failed     *)
        /\ Closes(l, 0)
        /\ UNCHANGED run
  /\ left' = [left EXCEPT ![l] = 0]
  /\ UNCHANGED <<how, node, tcp, up, reached, raced>>

(* The child closes descriptor 0 in any case, even when that is the        *)
(* listener, which is then not moved there: what is executed has none.     *)
ExecApplication(l, i) ==
  /\ run[l][i] = "loading" /\ how[l].program = "gateway"
  /\ run' = [run EXCEPT ![l][i] = "serving"]
  /\ IF how[l].zero THEN Closes(l, i) ELSE Moves(l, i)
  /\ UNCHANGED <<how, at, node, tcp, up, left, reached, raced>>

(* A gateway talks to whoever listens at the path.                         *)
FcgiConnect(l) ==
  /\ Go(l, "connect", "gone")
  /\ reached' = [reached EXCEPT ![l] = IF Live(node) THEN node ELSE None]
  /\ Closes(l, 0)
  /\ UNCHANGED <<how, node, tcp, up, left, run, raced>>

-----------------------------------------------------------------------------

(* A process ends or is killed.                                            *)
Die(l, i) ==
  /\ run[l][i] \in {"loading", "serving"}
  /\ run' = [run EXCEPT ![l][i] = "dead"]
  /\ Closes(l, i)
  /\ UNCHANGED <<how, at, node, tcp, up, left, reached, raced>>

Kill(l) ==
  /\ at[l] \notin {"idle", "serve", "gone"}
  /\ at' = [at EXCEPT ![l] = "gone"]
  /\ Closes(l, 0)
  /\ UNCHANGED <<how, node, tcp, up, left, run, reached, raced>>

-----------------------------------------------------------------------------

Bind(l) == BindPort(l) \/ Probe(l) \/ Unlink(l) \/ BindPath(l) \/ Chmod(l) \/ Listen(l)

Spawn(l) == ForkChild(l) \/ ForkFails(l) \/ DoNotFork(l) \/ AwaitChild(l) \/ SpawnReturns(l)

Gateway(l) == CreateLocalIpcFd(l) \/ SpawnChild(l) \/ FcgiConnect(l)

LaunchNext ==
  \E l \in Launchers :
    \/ Main(l) \/ Bind(l) \/ Spawn(l) \/ Gateway(l) \/ Kill(l)
    \/ \E i \in Procs : MoveToZero(l, i) \/ ExecApplication(l, i) \/ Die(l, i)

LaunchSpec == LaunchInit /\ [][LaunchNext]_launchVars

-----------------------------------------------------------------------------
(* Properties.                                                              *)

GatewayUnlinks ==
  \E m \in Launchers : /\ how[m] # None /\ how[m].program = "gateway"
                       /\ at[m] = "unlink" /\ at'[m] = "bind"

(* The launches whose child closes the socket it is to serve on.           *)
ClosesItself(l) == how[l].program = "gateway" /\ how[l].zero

(* A server that is up keeps its path: no other launch removes it          *)
(* (SpawnFcgi.cpp:91-106), unless it is a gateway, which does not ask      *)
(* (fcgios.cpp:302), or two launches are at the path together; and its     *)
(* port, however many are bound to it before one listens (39-63).  Every   *)
(* process that serves has its launch's listening socket as descriptor 0,  *)
(* where main() and FCGX_InitRequest expect it (SpawnFcgi.cpp:170-175),    *)
(* but for ClosesItself, which ListenSocketIsSet is about.  And a gateway  *)
(* reaches the socket it made for its application, not another's, on the   *)
(* same terms as the path.                                                 *)
PathKept ==
  /\ [][\A l \in Launchers : Live(l) /\ node = l /\ node' # l => raced \/ GatewayUnlinks]_launchVars
  /\ [](\A l \in Launchers :
          /\ \A i \in Procs :
               run[l][i] = "serving" => l \in up /\ (ClosesItself(l) \/ i \in holders[l] \cap zero[l])
          /\ \A m \in tcp : l \in tcp /\ Live(l) /\ Live(m) => l = m
          /\ reached[l] \in {None, l} \/ raced
             \/ \E m \in Launchers \ {l} : how[m] # None /\ how[m].program = "gateway")

(* "If the listenFd is already the value of FCGI_LISTENSOCK_FILENO we're   *)
(* set.  If not, change it so the child knows where to get the listen      *)
(* socket from" (fcgios.cpp:473-477): what is started has its launch's     *)
(* socket as descriptor 0.                                                 *)
ListenSocketIsSet ==
  \A l \in Launchers, i \in Procs : run[l][i] = "serving" => i \in zero[l]
=============================================================================
