------------------------------ MODULE Tuptime -------------------------------
(***************************************************************************)
(* tuptime.c and the scripts of its HOWTO: the uptime of all sessions and  *)
(* the longest of them.  During a session cron has the sum up to now       *)
(* written to the file cuptime; what is in there when the machine starts   *)
(* again, or is halted, becomes buptime.  The power may fail at any time.  *)
(***************************************************************************)
EXTENDS Integers, FiniteSetsExt, SequencesExt

CONSTANTS
  MaxUptime,    \* bound: length of a session
  MaxSessions   \* bound: sessions

VARIABLES
  buptime, cuptime,  \* files: the total and the biggest, or Empty, or Absent
  uptime,            \* /proc/uptime
  pc,                \* "off", "started", "on", "cron" or "halt" (tuptime runs), "moving";
                     \* "cut" is off, too: the power failed while tuptime ran
  last,              \* what tuptime has last written of this session (only properties read it)
  credited           \* what it had written last, session by session, of those not cut

vars == <<buptime, cuptime, uptime, pc, last, credited>>

Absent == <<-1, -1>>
Empty  == <<-2, -2>>
Written(content) == content \notin {Absent, Empty}

(* "echo 0 0 0 0 >/var/log/buptime"                                        *)
Init ==
  /\ buptime = <<0, 0>> /\ cuptime = Absent /\ uptime = 0
  /\ pc = "off" /\ last = 0 /\ credited = <<>>

(* main: an unreadable buptime counts as no total, and leaves the biggest  *)
(* with what was in memory.                                                *)
Totals ==
  LET read == IF Written(buptime) THEN {buptime} ELSE {0} \X {0, MaxUptime * MaxSessions}
  IN {<<b[1] + uptime, Max({uptime, b[2]})>> : b \in read}

(* [ -s cuptime ] && mv cuptime buptime                                    *)
Movable_Exists == cuptime # Absent  \* mutant: [ -e cuptime ]
Movable == Written(cuptime)
Move ==
  /\ buptime' = IF Movable THEN cuptime ELSE buptime
  /\ cuptime' = IF Movable THEN Absent ELSE cuptime
  /\ credited' = IF last > 0 /\ pc # "cut" THEN Append(credited, last) ELSE credited
  /\ last' = 0

Start ==
  /\ pc \in {"off", "cut"} /\ Len(credited) < MaxSessions
  /\ Move /\ uptime' = 0 /\ pc' = "started"

(* cron is launched, and works at any time from now on; the script of halt *)
(* runs after it.                                                          *)
Cron == pc = "started" /\ pc' = "on" /\ UNCHANGED <<buptime, cuptime, uptime, last, credited>>

Tick ==
  /\ pc \notin {"off", "cut"} /\ uptime < MaxUptime /\ uptime' = uptime + 1
  /\ UNCHANGED <<buptime, cuptime, pc, last, credited>>

(* tuptime -r >cuptime: the shell empties the file first.                  *)
Truncate(for) ==
  /\ pc = "on" /\ pc' = for
  /\ cuptime' = Empty
  /\ UNCHANGED <<buptime, uptime, last, credited>>

Runs == pc \in {"cron", "halt"}
Write ==
  /\ Runs /\ pc' = IF pc = "cron" THEN "on" ELSE "moving"
  /\ cuptime' \in Totals /\ last' = uptime
  /\ UNCHANGED <<buptime, uptime, credited>>

Halt == pc = "moving" /\ pc' = "off" /\ Move /\ UNCHANGED uptime

PowerFails ==
  /\ pc \notin {"off", "cut"} /\ pc' = IF Runs THEN "cut" ELSE "off"
  /\ UNCHANGED <<buptime, cuptime, uptime, last, credited>>

Next == Start \/ Cron \/ Tick \/ Truncate("cron") \/ Truncate("halt") \/ Write \/ Halt \/ PowerFails
Spec == Init /\ [][Next]_vars

-----------------------------------------------------------------------------
(* A session is counted once at most, with what tuptime wrote last of it,  *)
(* and the biggest is the longest of those counted.  What was written is   *)
(* not counted in one case: the power fails while tuptime writes again     *)
(* (tuptime.c:45).  The shell has emptied the file by then, and all of the *)
(* session is lost, though neither a session before it nor one after it.   *)
Sum(sessions) ==
  LET sum[n \in 0..Len(sessions)] == IF n = 0 THEN 0 ELSE sum[n - 1] + sessions[n]
  IN sum[Len(sessions)]
Longest(sessions) == Max({0} \cup ToSet(sessions))
CountedAtMostOnce ==
  /\ buptime = <<Sum(credited), Longest(credited)>>
  /\ Written(cuptime) => cuptime = <<Sum(credited) + last, Max({Longest(credited), last})>>
  /\ last > 0 /\ ~Written(cuptime) => Runs \/ pc = "cut"
=============================================================================
