------------------------------ MODULE WorkPool ------------------------------
(***************************************************************************)
(* What a bounded pool of jobs promises: tasks are started in order, each  *)
(* at most once, never more than limit of them at a time; the pool reports *)
(* when nothing runs any more, and the report names every way in which a   *)
(* job failed.  Unless it may stop early it reports only when no task is   *)
(* left waiting.                                                           *)
(***************************************************************************)
EXTENDS Integers, FiniteSets

CONSTANT Task      \* a set of integers; the smallest is started first

VARIABLES limit, keepGoing,  \* chosen once
          waiting, running,  \* sets of tasks
          outcome,           \* how a task that was taken ended, "none" before
          over, report       \* reported yet, and which failures there were

vars == <<limit, keepGoing, waiting, running, outcome, over, report>>

Failure == {"failed", "killed"}

Init ==
  /\ limit \in Nat \ {0} /\ keepGoing \in BOOLEAN
  /\ waiting = Task /\ running = {}
  /\ outcome = [t \in Task |-> "none"]
  /\ over = FALSE /\ report = {}

Take(t) ==
  /\ ~over
  /\ t \in waiting /\ \A u \in waiting : t <= u
  /\ waiting' = waiting \ {t}
  /\ UNCHANGED <<limit, keepGoing, over, report>>

Start(t) ==
  /\ Take(t)
  /\ Cardinality(running) < limit
  /\ running' = running \cup {t}
  /\ UNCHANGED outcome

(* The system has no room for another job.  *)
Skip(t) == Take(t) /\ UNCHANGED <<running, outcome>>

Finish(t, how) ==
  /\ t \in running
  /\ running' = running \ {t}
  /\ outcome' = [outcome EXCEPT ![t] = how]
  /\ UNCHANGED <<limit, keepGoing, waiting, over, report>>

Report ==
  /\ ~over /\ running = {}
  /\ waiting = {} \/ (~keepGoing /\ \E t \in Task : outcome[t] \in Failure)
  /\ over' = TRUE
  /\ report' = {outcome[t] : t \in Task} \cap Failure
  /\ UNCHANGED <<limit, keepGoing, waiting, running, outcome>>

Next ==
  \/ \E t \in Task : Start(t) \/ Skip(t) \/ \E how \in Failure \cup {"ok"} : Finish(t, how)
  \/ Report

Spec == Init /\ [][Next]_vars
=============================================================================
