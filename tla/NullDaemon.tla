----------------------------- MODULE NullDaemon -----------------------------
(***************************************************************************)
(* null.c: runs a command with its output thrown away, in the background   *)
(* or as a daemon.  One main() is run by up to three processes: a fork     *)
(* leaves the parent in wait_and_exit, for a second or until its child     *)
(* ends, and the child goes on; the last one turns into the command.       *)
(***************************************************************************)
EXTENDS Integers, FiniteSetsExt

CONSTANT Codes  \* codes other than zero that commands exit with

Process == 1..3  \* process p + 1 is forked by process p
File    == 0..3  \* standard input, output, error; 3 is any other file

VARIABLES
  mode,      \* -n, -b, -B, -d or -D
  dir,       \* the directory to change to, or "kept"
  waits,     \* -w was not given
  terminal,  \* standard output is a terminal
  given,     \* the files null was started with
  pc, status,          \* of each process
  file, session, cwd,  \* of each process
  alarm,     \* of each process: "off", "set", "over", or "missed"
  printed    \* the child's PID has come out

asked == <<mode, dir, waits, terminal, given>>
vars  == <<asked, pc, status, file, session, cwd, alarm, printed>>

Background == mode # "n"
Daemonizes_OnlyD == mode = "D"  \* mutant: daemonize > 3
Daemonizes == mode \in {"d", "D"}
Exit(p, code) == pc' = [pc EXCEPT ![p] = "exited"] /\ status' = [status EXCEPT ![p] = code]
Go(p, step)   == pc' = [pc EXCEPT ![p] = step] /\ UNCHANGED status
Die(p)        == Exit(p, 1) /\ UNCHANGED <<file, session, cwd>>  \* DIE

(* -c<dir>, -c and -d set the directory as they come.                      *)
Init ==
  /\ mode \in {"n", "b", "B", "d", "D"} /\ dir \in {"kept", "/", "/dir"}
  /\ waits \in BOOLEAN /\ terminal \in BOOLEAN
  /\ given \in [File -> {"user", "closed"}]
  /\ pc = [p \in Process |-> IF p = 1 THEN "fork" ELSE "none"]
  /\ status = [p \in Process |-> 0]
  /\ file = [p \in Process |-> given]
  /\ session = [p \in Process |-> 0]
  /\ cwd = [p \in Process |-> "start"]
  /\ alarm = [p \in Process |-> "off"] /\ printed = FALSE

-----------------------------------------------------------------------------
(* fork(), twice in a daemon.  What the parent prints stays in its buffer  *)
(* unless it goes to a terminal, for _exit does not write it out.          *)
Prints(p) == mode = (IF p = 1 THEN "B" ELSE "D")

Forks(p) ==
  /\ (pc[p] = "fork" /\ Background) \/ pc[p] = "fork2"
  /\ \/ /\ pc' = [pc EXCEPT ![p] = "parent", ![p + 1] = IF p = 1 THEN "chdir" ELSE "input"]
        /\ file' = [file EXCEPT ![p + 1] = file[p]]
        /\ session' = [session EXCEPT ![p + 1] = session[p]]
        /\ cwd' = [cwd EXCEPT ![p + 1] = cwd[p]]
        /\ printed' = (printed \/ (Prints(p) /\ terminal /\ file[p][1] = "user"))
        /\ UNCHANGED status
     \/ Die(p) /\ UNCHANGED printed
  /\ UNCHANGED <<asked, alarm>>

Stays ==
  /\ pc[1] = "fork" /\ ~Background
  /\ Go(1, "chdir")
  /\ UNCHANGED <<asked, file, session, cwd, alarm, printed>>

Chdir(p) ==
  /\ pc[p] = "chdir"
  /\ \/ /\ cwd' = IF dir = "kept" THEN cwd ELSE [cwd EXCEPT ![p] = dir]
        /\ Go(p, IF Daemonizes THEN "setsid" ELSE "output") /\ UNCHANGED <<file, session>>
     \/ dir # "kept" /\ Die(p)
  /\ UNCHANGED <<asked, alarm, printed>>

Setsid(p) ==  \* a forked process leads no group: this does not fail
  /\ pc[p] = "setsid"
  /\ session' = [session EXCEPT ![p] = p]
  /\ Go(p, "fork2")
  /\ UNCHANGED <<asked, file, cwd, alarm, printed>>

-----------------------------------------------------------------------------
(* close(f), and open(), which gives the lowest number that is free.       *)
Replaced(files, f) ==
  LET closed == [files EXCEPT ![f] = "closed"]
      free == {n \in File : closed[n] = "closed"}
  IN [closed EXCEPT ![Min(free)] = "null"]

(* The daemon's standard input, and all other files.                       *)
Input(p) ==
  /\ pc[p] = "input"
  /\ IF file[p][0] = "closed" THEN Die(p)
     ELSE \/ /\ file' = [file EXCEPT ![p] = [Replaced(file[p], 0) EXCEPT ![3] = "closed"]]
             /\ Go(p, "output") /\ UNCHANGED <<session, cwd>>
          \/ Die(p)  \* no /dev/null
  /\ UNCHANGED <<asked, alarm, printed>>

(* Standard output, and dup2(1, 2).                                        *)
Duplicated(files) == [files EXCEPT ![2] = files[1]]

Output(p) ==
  /\ pc[p] = "output"
  /\ IF file[p][1] = "closed" \/ Replaced(file[p], 1)[1] = "closed" THEN Die(p)
     ELSE \/ /\ file' = [file EXCEPT ![p] = Duplicated(Replaced(file[p], 1))]
             /\ Go(p, "exec") /\ UNCHANGED <<session, cwd>>
          \/ Die(p)
  /\ UNCHANGED <<asked, alarm, printed>>

Exec(p) ==
  /\ pc[p] = "exec"
  /\ Go(p, "command") \/ Exit(p, 3)
  /\ UNCHANGED <<asked, file, session, cwd, alarm, printed>>

(* The command exits; a status of -1 stands for a signal.                  *)
CommandEnds(p) ==
  /\ pc[p] = "command"
  /\ \E code \in Codes \cup {0, -1} : Exit(p, code)
  /\ UNCHANGED <<asked, file, session, cwd, alarm, printed>>

-----------------------------------------------------------------------------
(* wait_and_exit.  An alarm that comes before wait() is entered does not   *)
(* end it; one that comes in it makes it fail.                             *)
PassedOn_NoSignals(code) == IF code = -1 THEN 0 ELSE code  \* mutant: WIFSIGNALED is not looked at
PassedOn(code) == IF code = -1 THEN 2 ELSE code
Alarm(p, to) == alarm' = [alarm EXCEPT ![p] = to]
UnchangedWait == UNCHANGED <<asked, file, session, cwd, printed>>

WaitAndExit(p) ==
  /\ pc[p] = "parent"
  /\ IF waits THEN Go(p, "waiting") /\ Alarm(p, "set") ELSE Exit(p, 0) /\ UNCHANGED alarm
  /\ UnchangedWait

MissesAlarm(p) ==
  /\ pc[p] = "waiting" /\ alarm[p] = "set"
  /\ Alarm(p, "missed")
  /\ UnchangedWait /\ UNCHANGED <<pc, status>>

(* wait() takes any child: the only one, unless whoever called exec has    *)
(* left others behind, which the model is not about.                       *)
ChildExited(p) ==
  /\ pc[p] = "waiting" /\ pc[p + 1] = "exited"
  /\ Exit(p, PassedOn(status[p + 1]))
  /\ UnchangedWait /\ UNCHANGED alarm

SecondIsOver(p) ==
  /\ pc[p] = "waiting" /\ alarm[p] = "set" /\ pc[p + 1] # "exited"
  /\ Exit(p, 0) /\ Alarm(p, "over")
  /\ UnchangedWait

Runs(p)  == Chdir(p) \/ Setsid(p) \/ Input(p) \/ Output(p) \/ Exec(p) \/ CommandEnds(p)
Waits(p) == Forks(p) \/ WaitAndExit(p) \/ MissesAlarm(p) \/ ChildExited(p) \/ SecondIsOver(p)
Next == Stays \/ \E p \in Process : Runs(p) \/ Waits(p)
Spec == Init /\ [][Next]_vars

-----------------------------------------------------------------------------
(* "discard input and output and daemonization" (null.c:89): whatever      *)
(* files null was started with, a command that is run has its output       *)
(* thrown away and is where it should be; as a daemon it has no input, no  *)
(* other file and no way back to a terminal.  It is run once.              *)
CommandDetached ==
  \A p \in Process : pc[p] = "command" =>
    /\ file[p][1] = "null" /\ file[p][2] = "null"
    /\ cwd[p] = IF dir = "kept" THEN "start" ELSE dir
    /\ IF mode \in {"d", "D"}
       THEN file[p][0] = "null" /\ file[p][3] = "closed" /\ session[p] \notin {0, p}
       ELSE file[p][0] = given[0] /\ file[p][3] = given[3] /\ session[p] = 0
    /\ \A q \in Process \ {p} : pc[q] \in {"none", "parent", "waiting", "exited"}

(* What null exits with is how the command ended, through both parents,    *)
(* unless it was told not to wait or a second was over before the end; a   *)
(* failure is never made up.                                               *)
Last == Max({p \in Process : pc[p] # "none"})
StatusPassedOn ==
  pc[1] = "exited" /\ Last > 1 =>
    /\ status[1] # 0 => pc[Last] = "exited" /\ status[1] = IF status[Last] = -1 THEN 2 ELSE status[Last]
    /\ status[1] = 0 => \/ ~waits \/ \E p \in Process : alarm[p] = "over"
                        \/ pc[Last] = "exited" /\ status[Last] = 0

(* "-b + print child's PID" (null.c:88).                                   *)
PidPrinted == mode = "B" /\ pc[1] = "exited" /\ Last > 1 /\ file[1][1] = "user" => printed
=============================================================================
