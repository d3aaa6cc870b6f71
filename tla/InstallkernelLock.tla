------------------------- MODULE InstallkernelLock --------------------------
(***************************************************************************)
(* installkernel: the lock.  A symbolic link made with ln -s, holding the  *)
(* process number, keeps a second instance out; the exit handler removes   *)
(* it.  With --su the script runs itself again as root; the child inherits *)
(* IK_LOCK and the handler, but not the knowledge whose lock it is.        *)
(***************************************************************************)
EXTENDS Integers, FiniteSets

CONSTANTS
  Inst,      \* instances of the script, by process
  SuSwitch   \* values tried for --su (given by somebody who is not root)

VARIABLES
  lock,      \* the instance the link names, or Free
  pc,        \* where each instance is
  su,        \* the instance was started with --su
  child,     \* "none", "work" or "exit": its child under su
  plain,     \* --su was never used, and
  orderly    \* nothing ended before its exit handler ran (properties only)

ghosts == <<plain, orderly>>
vars == <<lock, pc, su, child, ghosts>>
Free == "free"
ASSUME InstAssumption == Free \notin Inst
ASSUME SwitchAssumption == SuSwitch \subseteq BOOLEAN

(* "start": before ln; "check": before readlink; "early": before the       *)
(* signal handlers; "handlers": before the exit handler; then "work", or   *)
(* "su" while the child does the work; "exit": in the exit handler; "end": *)
(* not running; "refused": ended with exit code 4.                         *)
TypeOK ==
  /\ lock \in Inst \cup {Free}
  /\ pc \in [Inst -> {"start", "check", "early", "handlers", "work", "su", "exit", "end", "refused"}]
  /\ su \in [Inst -> BOOLEAN]
  /\ child \in [Inst -> {"none", "work", "exit"}]
  /\ plain \in BOOLEAN /\ orderly \in BOOLEAN

Init ==
  /\ lock = Free /\ pc = [i \in Inst |-> "end"]
  /\ su = [i \in Inst |-> FALSE] /\ child = [i \in Inst |-> "none"]
  /\ plain = TRUE /\ orderly = TRUE

Goto(i, from, to) == pc[i] = from /\ pc' = [pc EXCEPT ![i] = to]

(* The process number may be that of an instance that has ended.           *)
Begin(i, switch) ==
  /\ pc[i] \in {"end", "refused"} /\ child[i] = "none"
  /\ pc' = [pc EXCEPT ![i] = "start"]
  /\ su' = [su EXCEPT ![i] = switch]
  /\ plain' = (plain /\ ~switch)
  /\ UNCHANGED <<lock, child, orderly>>

LinkMade_Forced == TRUE  \* mutant: ln -sf
LinkMade == lock = Free

Link(i) ==
  /\ IF LinkMade THEN lock' = i /\ Goto(i, "start", "check")
                 ELSE UNCHANGED lock /\ Goto(i, "start", "refused")
  /\ UNCHANGED <<su, child, ghosts>>

ReadLink(i) ==
  /\ Goto(i, "check", IF lock = i THEN "early" ELSE "refused")
  /\ UNCHANGED <<lock, su, child, ghosts>>

SetSignalHandlers(i) == Goto(i, "early", "handlers") /\ UNCHANGED <<lock, su, child, ghosts>>
SetExitHandler(i)    == Goto(i, "handlers", "work") /\ UNCHANGED <<lock, su, child, ghosts>>

(* su runs the child, or refuses the password.                             *)
BecomeRoot(i) ==
  /\ su[i] /\ Goto(i, "work", "su")
  /\ \E c \in {"work", "none"} : child' = [child EXCEPT ![i] = c]
  /\ UNCHANGED <<lock, su, ghosts>>

(* The work is done, or a command fails, or a handled signal arrives.      *)
Finish(i) == ~su[i] /\ Goto(i, "work", "exit") /\ UNCHANGED <<lock, su, child, ghosts>>

ChildFinishes(i) ==
  /\ child[i] = "work" /\ child' = [child EXCEPT ![i] = "exit"]
  /\ UNCHANGED <<lock, pc, su, ghosts>>

(* exit_function: rm -f, whatever the link holds by now.                   *)
Remove_Exec(i) == lock' = IF su[i] /\ pc[i] = "exit" THEN lock ELSE Free  \* mutant: exec su
Remove(i) == lock' = Free

ChildExits(i) ==
  /\ child[i] = "exit" /\ child' = [child EXCEPT ![i] = "none"]
  /\ Remove(i)
  /\ UNCHANGED <<pc, su, ghosts>>

SuReturns(i) == child[i] = "none" /\ Goto(i, "su", "exit") /\ UNCHANGED <<lock, su, child, ghosts>>

Exit(i) == Goto(i, "exit", "end") /\ Remove(i) /\ UNCHANGED <<su, child, ghosts>>

(* A signal before the exit handler is set: without handlers it kills the  *)
(* script, with them sig_handler exits, and either leaves the link.        *)
SignalTooEarly(i) ==
  /\ pc[i] \in {"check", "early", "handlers"}
  /\ pc' = [pc EXCEPT ![i] = "end"]
  /\ orderly' = FALSE
  /\ UNCHANGED <<lock, su, child, plain>>

(* SIGKILL, or a crash of the machine that keeps /var/lock; a child goes   *)
(* on (one that is killed itself is left out).                             *)
Kill(i) ==
  /\ pc[i] \notin {"end", "refused", "start"}
  /\ pc' = [pc EXCEPT ![i] = "end"]
  /\ orderly' = FALSE
  /\ UNCHANGED <<lock, su, child, plain>>

(* What an instance does by itself once it is started.                     *)
Run(i) ==
  \/ Link(i) \/ ReadLink(i) \/ SetSignalHandlers(i) \/ SetExitHandler(i)
  \/ BecomeRoot(i) \/ Finish(i) \/ ChildFinishes(i) \/ ChildExits(i) \/ SuReturns(i) \/ Exit(i)

Next ==
  \E i \in Inst :
    \/ \E switch \in SuSwitch : Begin(i, switch)
    \/ Run(i) \/ SignalTooEarly(i) \/ Kill(i)

Spec == Init /\ [][Next]_vars

(* A process that was started goes on, its work ends, su answers.          *)
FairSpec == Spec /\ \A i \in Inst : WF_vars(Run(i))

-----------------------------------------------------------------------------
(* Instances that compile or change /boot and /lib/modules.                *)
Working == {i \in Inst : pc[i] = "work" \/ child[i] = "work"}

(* While one instance works no other does, through kills, signals and      *)
(* refusals, as long as nobody uses --su.                                  *)
AtMostOne   == \A i, j \in Working : i = j
OneInstance == plain => AtMostOne

(* "make sure there is only one instance" (installkernel:63), with --su.   *)
OneInstanceUnderSu == AtMostOne

(* An instance removes no lock but its own, though exit_function's rm      *)
(* (installkernel:188) looks at no process number.                         *)
OwnLockOnly ==
  [][plain /\ lock # Free /\ lock' = Free => pc[lock] = "exit" /\ pc'[lock] = "end"]_vars

(* No lock stays behind, with or without --su: "exec was here before but   *)
(* it caused the lock file to stall" (installkernel:681).                  *)
Released == []orderly => []<>(lock = Free)

(* "A lockfile exists and another instance of installkernel is running"    *)
(* (installkernel.8:324): who is refused was in a running instance's way.  *)
RefusedByRunning ==
  [][\A i \in Inst : orderly /\ pc[i] = "start" /\ pc'[i] = "refused" =>
       \E j \in Inst : j # i /\ pc[j] \notin {"start", "end", "refused"}]_vars

(* The inductive invariant: past ln, the lock is one's own.                *)
Holds(i) == pc[i] \in {"check", "early", "handlers", "work", "exit"}
Holding ==
  plain => \A i \in Inst : (Holds(i) => lock = i) /\ ~su[i] /\ pc[i] # "su" /\ child[i] = "none"
=============================================================================
