----------------------------- MODULE MCOsLayer -----------------------------
(* Three parts of the library's OS layer that share no state; a run is     *)
(* about one of them, the scene.                                           *)
EXTENDS Launch, OsAccept, OsAsync

VARIABLE scene

vars == <<scene, launchVars, acceptVars, asyncVars>>

Init == scene \in {"launch", "accept", "async"} /\ LaunchInit /\ AcceptInit /\ AsyncInit
        /\ (scene = "launch" \/ node = None)

LaunchScene == scene = "launch" /\ LaunchNext /\ UNCHANGED <<scene, acceptVars, asyncVars>>
AcceptScene == scene = "accept" /\ AcceptNext /\ UNCHANGED <<scene, launchVars, asyncVars>>
AsyncScene  == scene = "async" /\ AsyncNext /\ UNCHANGED <<scene, launchVars, acceptVars>>

Next == LaunchScene \/ AcceptScene \/ AsyncScene

Spec ==
  /\ Init /\ [][Next]_vars
  /\ scene = "accept" => AcceptFairness
  /\ scene = "async" => AsyncFairness

Server(path, port, forks, noFork, addr, noInput) ==
  [program |-> "server", unix |-> path, port |-> port, addr |-> addr, forks |-> forks,
   noFork |-> noFork, zero |-> noInput]

MCCommands ==
  { Server("good", FALSE, 2, FALSE, TRUE, FALSE),  (* -s path -F 2           *)
    Server("good", FALSE, 1, TRUE, TRUE, TRUE),    (* -s path -n <&-         *)
    Server("none", TRUE, 1, FALSE, TRUE, FALSE),   (* -p port                *)
    Server("none", TRUE, 1, FALSE, FALSE, FALSE),  (* -p port -a, no address *)
    Server("good", TRUE, 1, FALSE, TRUE, FALSE),   (* both: refused          *)
    [program |-> "gateway", unix |-> "good", port |-> FALSE, addr |-> TRUE, forks |-> 1,
     noFork |-> FALSE, zero |-> FALSE],
    [program |-> "gateway", unix |-> "good", port |-> FALSE, addr |-> TRUE, forks |-> 1,
     noFork |-> FALSE, zero |-> TRUE] }

Caller(inet, allowed, aborted, speaks, request, keep) ==
  [inet |-> inet, allowed |-> allowed, aborted |-> aborted, speaks |-> speaks,
   request |-> request, keep |-> keep, silent |-> FALSE]

Silent(inet) == [Caller(inet, TRUE, FALSE, ~inet, FALSE, FALSE) EXCEPT !.silent = TRUE]

MCCallers ==
  { Caller(TRUE, TRUE, FALSE, TRUE, TRUE, TRUE), Caller(TRUE, FALSE, FALSE, TRUE, TRUE, FALSE),
    Caller(FALSE, TRUE, FALSE, TRUE, TRUE, FALSE), Caller(FALSE, TRUE, FALSE, FALSE, FALSE, FALSE),
    Caller(TRUE, TRUE, TRUE, FALSE, FALSE, FALSE), Caller(TRUE, TRUE, FALSE, FALSE, FALSE, FALSE),
    Silent(TRUE), Silent(FALSE) }
=============================================================================
