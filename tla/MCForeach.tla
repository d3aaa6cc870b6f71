----------------------------- MODULE MCForeach ------------------------------
(***************************************************************************)
(* Foreach as it is run from a shell, with no children but its own; and    *)
(* as it may be run by something that has left it a child, or has SIGCHLD  *)
(* ignored.  A behaviour is one of the three, and the variables of the     *)
(* others stay as they are.                                                *)
(***************************************************************************)
EXTENDS Foreach

VARIABLES
  world,  \* "shell", "inherits" or "ignores"
  limitO, keepGoingO, pcO, valueO, jobsO, rcO, childO, collectedO, lateO  \* Foreach's, in the other two

Inherits == INSTANCE Foreach WITH
  NValues <- NValues - 1, Inherited <- 1, SigchldIgnored <- FALSE,
  limit <- limitO, keepGoing <- keepGoingO, pc <- pcO, value <- valueO, jobs <- jobsO,
  rc <- rcO, child <- childO, collected <- collectedO, late <- lateO

Ignores == INSTANCE Foreach WITH
  NValues <- NValues - 1, Inherited <- 1, SigchldIgnored <- TRUE,
  limit <- limitO, keepGoing <- keepGoingO, pc <- pcO, value <- valueO, jobs <- jobsO,
  rc <- rcO, child <- childO, collected <- collectedO, late <- lateO

others == <<limitO, keepGoingO, pcO, valueO, jobsO, rcO, childO, collectedO, lateO>>
worlds == <<world, vars, others>>

NotRun       == Init /\ limit = 1 /\ ~keepGoing
OthersNotRun == Inherits!Init /\ limitO = 1 /\ ~keepGoingO

WorldsInit ==
  \/ world = "shell"    /\ Init          /\ OthersNotRun
  \/ world = "inherits" /\ Inherits!Init /\ NotRun
  \/ world = "ignores"  /\ Ignores!Init  /\ NotRun

WorldsMain ==
  \/ world = "shell"    /\ Main          /\ UNCHANGED <<world, others>>
  \/ world = "inherits" /\ Inherits!Main /\ UNCHANGED <<world, vars>>
  \/ world = "ignores"  /\ Ignores!Main  /\ UNCHANGED <<world, vars>>

WorldsEnd ==
  \/ world = "shell"    /\ SomeEnd          /\ UNCHANGED <<world, others>>
  \/ world = "inherits" /\ Inherits!SomeEnd /\ UNCHANGED <<world, vars>>
  \/ world = "ignores"  /\ Ignores!SomeEnd  /\ UNCHANGED <<world, vars>>

WorldsNext == WorldsMain \/ WorldsEnd

(* The program runs, and every job ends some day.  *)
WorldsSpec == WorldsInit /\ [][WorldsNext]_worlds /\ WF_worlds(WorldsMain) /\ WF_worlds(WorldsEnd)

(* The program comes to its end: also when waitpid hands out a child that  *)
(* was never counted, so that jobs wraps around below zero and the last    *)
(* loop (foreach.c:294) counts down from there, and when the kernel takes  *)
(* the children away before waitpid finds them.                            *)
ReturnsAnywhere ==
  /\ world = "shell" => Returns
  /\ world = "inherits" => Inherits!Returns
  /\ world = "ignores" => Ignores!Returns
=============================================================================
