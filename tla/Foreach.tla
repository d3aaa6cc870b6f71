------------------------------ MODULE Foreach -------------------------------
(***************************************************************************)
(* foreach.c: runs a command once for every value, several at a time.      *)
(* The program counts its jobs and collects children with waitpid(-1),     *)
(* which knows nothing of that count: it hands out any child of the        *)
(* process, those it inherited from whatever called exec included, and     *)
(* none at all if SIGCHLD is ignored.                                      *)
(***************************************************************************)
EXTENDS Integers, FiniteSets

CONSTANTS
  NValues,         \* how many values were given
  MaxJobs,         \* bound: the largest -j that is tried
  UIntSize,        \* 2^(width of unsigned int)
  Inherited,       \* children the process has when main starts
  SigchldIgnored   \* SIGCHLD is ignored when main starts

ASSUME ValuesAssumption == NValues \in Nat \ {0}
ASSUME JobsAssumption   == MaxJobs \in Nat \ {0} /\ UIntSize \in Nat /\ MaxJobs < UIntSize
ASSUME ForeignAssumption == Inherited \in Nat /\ SigchldIgnored \in BOOLEAN

Value   == 1..NValues
Foreign == (1 - Inherited)..0
Child   == Foreign \cup Value
Failure == {"failed", "killed"}  \* exit code other than zero; a signal
Ended   == Failure \cup {"ok"}

VARIABLES
  limit, keepGoing,  \* struct options
  pc,                \* "next", "reap", "drain", "exit"
  value,             \* the value the for loop is at
  jobs,              \* unsigned jobs
  rc,                \* the bits of rc, named for what sets them
  child,             \* "none", "running", or how it ended
  collected,         \* children that waitpid has handed out
  late               \* jobs started after one had failed (only properties read it)

options == <<limit, keepGoing>>
vars    == <<options, pc, value, jobs, rc, child, collected, late>>

TypeOK ==
  /\ limit \in 1..MaxJobs
  /\ keepGoing \in BOOLEAN
  /\ pc \in {"next", "reap", "drain", "exit"}
  /\ value \in 1..NValues + 1
  /\ jobs \in 0..UIntSize - 1
  /\ rc \subseteq Failure
  /\ child \in [Child -> Ended \cup {"none", "running"}]
  /\ collected \subseteq Child
  /\ late \in Nat

Init ==
  /\ limit \in 1..MaxJobs /\ keepGoing \in BOOLEAN
  /\ pc = "next" /\ value = 1 /\ jobs = 0 /\ rc = {}
  /\ child = [c \in Child |-> IF c \in Foreign THEN "running" ELSE "none"]
  /\ collected = {} /\ late = 0

Running  == {v \in Value : child[v] = "running"}
Failed   == {v \in Value : child[v] \in Failure}
Waitable == {c \in Child : child[c] \in Ended} \ collected
Children == Waitable \cup {c \in Child : child[c] = "running"}

-----------------------------------------------------------------------------
(* The for loop of runCommands.  *)
GoesOn_IgnoresK == TRUE  \* mutant: -K is not looked at
GoesOn == keepGoing \/ rc = {}

Up(n)   == (n + 1) % UIntSize
Down(n) == (n - 1) % UIntSize

(* run() succeeds: a child runs, and is counted.  *)
Fork ==
  /\ pc = "next" /\ value <= NValues /\ GoesOn
  /\ child' = [child EXCEPT ![value] = "running"]
  /\ late' = IF Failed = {} THEN late ELSE late + 1
  /\ jobs' = Up(jobs)
  /\ value' = value + 1
  /\ pc' = "reap"
  /\ UNCHANGED <<options, rc, collected>>

(* fork() fails: the value is skipped, and nothing is reaped.  *)
ForkFails ==
  /\ pc = "next" /\ value <= NValues /\ GoesOn
  /\ value' = value + 1
  /\ UNCHANGED <<options, pc, jobs, rc, child, collected, late>>

LeaveLoop ==
  /\ pc = "next" /\ ~(value <= NValues /\ GoesOn)
  /\ pc' = "drain"
  /\ UNCHANGED <<options, value, jobs, rc, child, collected, late>>

-----------------------------------------------------------------------------
(* reap().  waitpid hands out a child that has ended; it returns without   *)
(* one if it must not block, or if there is no child to wait for.          *)
StatusBit_ExitOnly(how) == {how} \cap {"failed"}  \* mutant: a signal leaves no trace
StatusBit(how) == {how} \cap Failure

Collect(c) ==
  /\ c \in Waitable
  /\ collected' = collected \cup {c}
  /\ rc' = rc \cup StatusBit(child[c])

ReapFinds(c) == Collect(c) /\ jobs' = Down(jobs)

Blocks_Late == jobs > limit  \* mutant: off by one
Blocks == jobs >= limit
NothingReaped_Retries(block) == Waitable = {} /\ ~block  \* mutant: ECHILD is not an end
NothingReaped(block) == Waitable = {} /\ (block => Children = {})

ReapOne ==
  /\ pc = "reap"
  /\ \E c \in Child : ReapFinds(c)
  /\ UNCHANGED <<options, pc, value, child, late>>

ReapNone ==
  /\ pc = "reap"
  /\ NothingReaped(Blocks)
  /\ pc' = "next"
  /\ UNCHANGED <<options, value, jobs, rc, child, collected, late>>

(* The loop over the jobs still counted when no more are started.  It      *)
(* counts a job off whether waitpid found one or not.                      *)
Drain ==
  /\ pc = "drain" /\ jobs > 0
  /\ \/ \E c \in Child : Collect(c)
     \/ NothingReaped(TRUE) /\ UNCHANGED <<collected, rc>>
  /\ jobs' = Down(jobs)
  /\ UNCHANGED <<options, pc, value, child, late>>

DoneDraining_Forgets == pc = "drain"  \* mutant: the last loop is missing
DoneDraining == pc = "drain" /\ jobs = 0

Return ==
  /\ DoneDraining
  /\ pc' = "exit"
  /\ UNCHANGED <<options, value, jobs, rc, child, collected, late>>

-----------------------------------------------------------------------------
(* A child ends.  If SIGCHLD is ignored nothing is left to collect.  *)
End(c, how) ==
  /\ child[c] = "running"
  /\ child' = [child EXCEPT ![c] = how]
  /\ collected' = IF SigchldIgnored THEN collected \cup {c} ELSE collected
  /\ UNCHANGED <<options, pc, value, jobs, rc, late>>

Main   == Fork \/ ForkFails \/ LeaveLoop \/ ReapOne \/ ReapNone \/ Drain \/ Return
SomeEnd == \E c \in Child, how \in Ended : End(c, how)

Next == Main \/ SomeEnd
Spec == Init /\ [][Next]_vars

-----------------------------------------------------------------------------
(* Correctness.  *)

(* "-j<jobs> run <jobs> jobs at the same time" (foreach.c:59): never more  *)
(* than that, though the program never looks at the processes themselves.  *)
JobsBounded == Cardinality(Running) <= limit

(* "-K stop once a job returns non-zero" (foreach.c:61): the job that is   *)
(* being started while the failure happens is the last one.                *)
StopsSoon == ~keepGoing => late <= 1

(* The exit code tells of every job that failed, of none that did not, and *)
(* comes when all jobs are over.                                           *)
ExitCodeTellsAll == pc = "exit" => Running = {} /\ rc = {child[v] : v \in Failed}

(* The program comes to its end.  *)
Returns == <>(pc = "exit")

(* The program is a work pool.  A value counts as waiting until the loop   *)
(* has passed it.                                                          *)
Pool == INSTANCE WorkPool WITH
  Task <- Value, waiting <- value..NValues, running <- Running,
  outcome <- [v \in Value |-> IF child[v] \in Ended THEN child[v] ELSE "none"],
  over <- pc = "exit", report <- IF pc = "exit" THEN rc ELSE {}

ImplementsPool == Pool!Spec

-----------------------------------------------------------------------------
(* The inductive invariant: jobs counts the children that were forked and  *)
(* not yet collected; what was collected is in rc.                         *)
Owned == {v \in Value : child[v] # "none"} \ collected

Count ==
  /\ collected \subseteq {v \in Value : child[v] \in Ended}
  /\ \A v \in Value : v >= value => child[v] = "none"
  /\ jobs = Cardinality(Owned)
  /\ jobs <= limit
  /\ pc = "next" => jobs < limit
  /\ pc = "exit" => jobs = 0
  /\ pc \in {"drain", "exit"} => value > NValues \/ ~GoesOn
  /\ rc = {child[v] : v \in collected} \cap Failure

(* A failure that was not collected yet is noticed before the next job.  *)
Noticing ==
  ~keepGoing =>
    /\ late <= 1
    /\ late = 1 => rc # {} \/ (pc = "reap" /\ Failed \cap Waitable # {})
    /\ rc # {} \/ Failed # {} \/ late = 0
=============================================================================
