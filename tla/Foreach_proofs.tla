--------------------------- MODULE Foreach_proofs ---------------------------
(* Proofs about Foreach, for any number of values, any -j, any width.      *)
EXTENDS Foreach, FiniteSetTheorems, TLAPS

LEMMA Wrap ==
  ASSUME NEW n \in 0..UIntSize - 1
  PROVE  /\ Up(n) \in 0..UIntSize - 1 /\ Down(n) \in 0..UIntSize - 1
         /\ n < MaxJobs => Up(n) = n + 1
         /\ n > 0 => Down(n) = n - 1
<1>1. UIntSize \in Nat /\ UIntSize > 0 /\ MaxJobs < UIntSize /\ MaxJobs \in Nat
  BY JobsAssumption
<1>2. \A m \in Int : m % UIntSize \in 0..UIntSize - 1
  BY <1>1
<1>3. \A m \in 0..UIntSize - 1 : m % UIntSize = m
  BY <1>1
<1> QED
  BY <1>1, <1>2, <1>3 DEF Up, Down

LEMMA ChildFacts == Value \subseteq Child /\ Value \subseteq Nat \ {0}
BY ValuesAssumption DEF Value, Child

-----------------------------------------------------------------------------
(* Type correctness.  keepGoing is split off: it never changes.            *)
Data ==
  /\ limit \in 1..MaxJobs
  /\ pc \in {"next", "reap", "drain", "exit"}
  /\ value \in 1..NValues + 1
  /\ jobs \in 0..UIntSize - 1
  /\ rc \subseteq Failure
  /\ child \in [Child -> Ended \cup {"none", "running"}]
  /\ collected \subseteq Child
  /\ late \in Nat

LEMMA TypeSplit == TypeOK <=> Data /\ keepGoing \in BOOLEAN
BY DEF TypeOK, Data

LEMMA OptionsKept == [Next]_vars => UNCHANGED options
BY DEF Next, Main, SomeEnd, Fork, ForkFails, LeaveLoop, ReapOne, ReapNone, Drain, Return, End, vars

LEMMA DataKept == Data /\ [Next]_vars => Data'
<1> SUFFICES ASSUME Data, [Next]_vars PROVE Data'
  OBVIOUS
<1> USE DEF Data
<1>0. UNCHANGED limit
  BY OptionsKept DEF options
<1>1. CASE Fork
  <2>1. value \in Value /\ value + 1 \in 1..NValues + 1
    BY <1>1, ValuesAssumption DEF Fork, Value
  <2>2. child' \in [Child -> Ended \cup {"none", "running"}]
    BY <1>1, <2>1, ChildFacts DEF Fork
  <2>3. jobs' \in 0..UIntSize - 1
    BY <1>1, Wrap DEF Fork
  <2> QED
    BY <1>0, <1>1, <2>1, <2>2, <2>3 DEF Fork
<1>2. CASE ForkFails
  BY <1>0, <1>2, ValuesAssumption DEF ForkFails
<1>3. CASE LeaveLoop \/ ReapNone \/ Return
  BY <1>0, <1>3 DEF LeaveLoop, ReapNone, Return
<1>4. ASSUME NEW c \in Child, Collect(c)
      PROVE  collected' \subseteq Child /\ rc' \subseteq Failure
  BY <1>4 DEF Collect, StatusBit
<1>5. CASE ReapOne
  <2>1. PICK c \in Child : ReapFinds(c)
    BY <1>5 DEF ReapOne
  <2> QED
    BY <1>0, <1>4, <1>5, <2>1, Wrap DEF ReapOne, ReapFinds
<1>6. CASE Drain
  <2>1. collected' \subseteq Child /\ rc' \subseteq Failure
    BY <1>4, <1>6 DEF Drain
  <2> QED
    BY <1>0, <1>6, <2>1, Wrap DEF Drain
<1>7. ASSUME NEW c \in Child, NEW how \in Ended, End(c, how) PROVE Data'
  <2>1. collected' \subseteq Child
    BY <1>7 DEF End
  <2>2. child' \in [Child -> Ended \cup {"none", "running"}]
    BY <1>7 DEF End
  <2> QED
    BY <1>0, <1>7, <2>1, <2>2 DEF End
<1>8. CASE UNCHANGED vars
  BY <1>8 DEF vars, options
<1> QED
  BY <1>1, <1>2, <1>3, <1>5, <1>6, <1>7, <1>8 DEF Next, Main, SomeEnd

(* Every variable keeps its type, whatever children the process inherited  *)
(* and whatever it does with SIGCHLD.                                      *)
THEOREM Typed == Spec => []TypeOK
<1>1. Init => TypeOK
  BY ValuesAssumption, JobsAssumption DEF Init, TypeOK, Ended
<1>2. TypeOK /\ [Next]_vars => TypeOK'
  <2> SUFFICES ASSUME TypeOK, [Next]_vars PROVE TypeOK'
    OBVIOUS
  <2>1. Data' /\ keepGoing' = keepGoing
    BY TypeSplit, DataKept, OptionsKept DEF options
  <2>2. keepGoing \in BOOLEAN
    BY TypeSplit
  <2>3. keepGoing' \in BOOLEAN
    BY <2>1, <2>2
  <2> QED
    BY <2>1, <2>3 DEF TypeOK, Data
<1> QED
  BY <1>1, <1>2, PTL DEF Spec

-----------------------------------------------------------------------------
(* The counter.  From here on the process has no children but its own, and *)
(* the kernel keeps them until they are waited for.                        *)
OwnChildrenOnly == Inherited = 0 /\ ~SigchldIgnored

Counter ==
  /\ collected \subseteq {v \in Value : child[v] \in Ended}
  /\ \A v \in Value : v >= value => child[v] = "none"
  /\ jobs = Cardinality(Owned)
  /\ jobs <= limit
  /\ pc = "next" => jobs < limit
  /\ pc = "exit" => jobs = 0
  /\ rc = {child[v] : v \in collected} \cap Failure

Leaving == pc \in {"drain", "exit"} => value > NValues \/ ~GoesOn

LEMMA CountSplit == Count <=> Counter /\ Leaving
BY DEF Count, Counter, Leaving

LEMMA OwnChild == OwnChildrenOnly => Child = Value
BY ValuesAssumption DEF OwnChildrenOnly, Child, Foreign, Value

LEMMA OwnedFinite == IsFiniteSet(Owned) /\ Cardinality(Owned) \in Nat /\ Owned \subseteq Value
<1>1. IsFiniteSet(Value)
  BY FS_Interval, ValuesAssumption DEF Value
<1>2. Owned \subseteq Value
  BY DEF Owned
<1>3. IsFiniteSet(Owned)
  BY <1>1, <1>2, FS_Subset
<1> QED
  BY <1>2, <1>3, FS_CardinalityType

(* Collecting a child takes it off the owned ones, and rc keeps its mark.  *)
LEMMA CollectOwned ==
  ASSUME OwnChildrenOnly, Data, Counter, NEW c \in Child, Collect(c), UNCHANGED child
  PROVE  /\ Cardinality(Owned) > 0
         /\ Cardinality(Owned') = Cardinality(Owned) - 1
         /\ collected' \subseteq {v \in Value : child[v] \in Ended}
         /\ rc' = {child[v] : v \in collected'} \cap Failure
<1>1. c \in Owned /\ child[c] \in Ended
  BY OwnChild DEF Collect, Waitable, Owned, Ended, Failure
<1>2. Owned' = Owned \ {c}
  BY <1>1 DEF Collect, Owned
<1>3. Cardinality(Owned') = Cardinality(Owned) - 1
  BY <1>1, <1>2, OwnedFinite, FS_RemoveElement
<1>4. Cardinality(Owned) > 0
  BY <1>1, OwnedFinite, FS_EmptySet
<1>5. collected' \subseteq {v \in Value : child[v] \in Ended}
  BY <1>1, OwnChild DEF Collect, Counter
<1>6. rc' = {child[v] : v \in collected'} \cap Failure
  BY DEF Collect, Counter, StatusBit
<1> QED
  BY <1>3, <1>4, <1>5, <1>6

(* Nothing to wait for at all: nothing is owned.  *)
LEMMA NothingOwned ==
  ASSUME OwnChildrenOnly, Data, Counter, NothingReaped(TRUE)
  PROVE  Owned = {}
<1> SUFFICES ASSUME NEW v \in Owned PROVE FALSE
  OBVIOUS
<1>1. v \in Child /\ child[v] \in Ended \cup {"running"} /\ v \notin collected
  BY ChildFacts DEF Owned, Data
<1>2. v \in Children
  BY <1>1 DEF Children, Waitable
<1> QED
  BY <1>2 DEF NothingReaped

LEMMA CounterKept ==
  ASSUME OwnChildrenOnly, Data, Counter, [Next]_vars
  PROVE  Counter'
<1>0. UNCHANGED limit /\ limit \in 1..MaxJobs /\ jobs \in 0..UIntSize - 1 /\ MaxJobs < UIntSize
      /\ MaxJobs \in Nat /\ UIntSize \in Nat
  BY OptionsKept, JobsAssumption DEF options, Data
<1>1. CASE Fork
  <2>1. value \in Value /\ value' = value + 1 /\ value \in Nat
    BY <1>1, ValuesAssumption DEF Fork, Value, Data
  <2>2. child[value] = "none" /\ value \notin collected
    BY <2>1 DEF Counter, Ended, Failure
  <2>3. /\ \A v \in Value : v # value => child'[v] = child[v]
        /\ child'[value] = "running"
    BY <1>1, <2>1, ChildFacts DEF Fork, Data
  <2>4. Owned' = Owned \cup {value} /\ value \notin Owned
    BY <1>1, <2>1, <2>2, <2>3 DEF Fork, Owned
  <2>5. Cardinality(Owned') = Cardinality(Owned) + 1
    BY <2>4, OwnedFinite, FS_AddElement
  <2>6. jobs < MaxJobs /\ jobs < limit
    BY <1>0, <1>1 DEF Fork, Counter
  <2>7. jobs' = Cardinality(Owned') /\ jobs' <= limit
    BY <1>0, <1>1, <2>5, <2>6, Wrap DEF Fork, Counter
  <2>8. collected' \subseteq {v \in Value : child'[v] \in Ended}
    BY <1>1, <2>2, <2>3 DEF Fork, Counter
  <2>9. \A v \in Value : v >= value' => child'[v] = "none"
    BY <2>1, <2>3 DEF Counter, Value
  <2>10. \A v \in collected : child'[v] = child[v]
    BY <2>2, <2>3 DEF Counter
  <2>11. rc' = {child'[v] : v \in collected'} \cap Failure
    BY <1>1, <2>10 DEF Fork, Counter
  <2> QED
    BY <1>0, <1>1, <2>7, <2>8, <2>9, <2>11 DEF Fork, Counter
<1>2. CASE ForkFails
  <2>1. Owned' = Owned
    BY <1>2 DEF ForkFails, Owned
  <2>2. \A v \in Value : v >= value' => child[v] = "none"
    BY <1>2, ValuesAssumption DEF ForkFails, Counter, Value, Data
  <2> QED
    BY <1>0, <1>2, <2>1, <2>2 DEF ForkFails, Counter
<1>3. CASE LeaveLoop \/ Return \/ UNCHANGED vars
  <2>1. Owned' = Owned
    BY <1>3 DEF LeaveLoop, Return, vars, Owned
  <2> QED
    BY <1>0, <1>3, <2>1 DEF LeaveLoop, Return, DoneDraining, vars, Counter
<1>4. CASE ReapNone
  <2>1. Owned' = Owned
    BY <1>4 DEF ReapNone, Owned
  <2>2. jobs < limit
    <3>1. CASE Blocks
      <4>1. Owned = {}
        BY <1>4, <3>1, NothingOwned DEF ReapNone, NothingReaped
      <4> QED
        BY <1>0, <4>1, FS_EmptySet DEF Counter
    <3> QED
      BY <1>0, <3>1 DEF Blocks
  <2> QED
    BY <1>0, <1>4, <2>1, <2>2 DEF ReapNone, Counter
<1>5. CASE ReapOne
  <2>1. PICK c \in Child : ReapFinds(c)
    BY <1>5 DEF ReapOne
  <2>2. UNCHANGED <<child, pc, value>>
    BY <1>5 DEF ReapOne
  <2>3. Collect(c) /\ jobs' = Down(jobs) /\ pc = "reap"
    BY <1>5, <2>1 DEF ReapFinds, ReapOne
  <2> QED
    BY <1>0, <2>2, <2>3, CollectOwned, Wrap DEF Counter
<1>6. CASE Drain
  <2>1. UNCHANGED <<child, pc, value>> /\ jobs' = Down(jobs) /\ jobs > 0 /\ pc = "drain"
    BY <1>6 DEF Drain
  <2>2. PICK c \in Child : Collect(c)
    <3>1. CASE NothingReaped(TRUE)
      BY <2>1, <3>1, NothingOwned, FS_EmptySet DEF Counter
    <3> QED
      BY <1>6, <3>1 DEF Drain
  <2> QED
    BY <1>0, <2>1, <2>2, CollectOwned, Wrap DEF Counter
<1>7. ASSUME NEW c \in Child, NEW how \in Ended, End(c, how) PROVE Counter'
  <2>1. c \in Value /\ child[c] = "running" /\ c \notin collected
    BY <1>7, OwnChild DEF End, Counter, Ended, Failure
  <2>2. UNCHANGED <<collected, pc, value, jobs, rc>>
    BY <1>7 DEF End, OwnChildrenOnly
  <2>3. child'[c] = how /\ \A v \in Value : v # c => child'[v] = child[v]
    BY <1>7, ChildFacts DEF End, Data
  <2>4. Owned' = Owned
    BY <2>1, <2>2, <2>3 DEF Owned, Ended, Failure
  <2>5. collected \subseteq {v \in Value : child'[v] \in Ended}
    BY <2>1, <2>3 DEF Counter
  <2>6. \A v \in Value : v >= value => child'[v] = "none"
    BY <2>1, <2>3 DEF Counter
  <2>7. \A v \in collected : child'[v] = child[v]
    BY <2>1, <2>3 DEF Counter
  <2>8. rc = {child'[v] : v \in collected} \cap Failure
    BY <2>7 DEF Counter
  <2> QED
    BY <1>0, <2>2, <2>4, <2>5, <2>6, <2>8 DEF Counter
<1> QED
  BY <1>1, <1>2, <1>3, <1>4, <1>5, <1>6, <1>7 DEF Next, Main, SomeEnd

(* rc only grows, and the loop is not entered again.  *)
LEMMA RcGrows == [Next]_vars => rc \subseteq rc'
BY DEF Next, Main, SomeEnd, Fork, ForkFails, LeaveLoop, ReapOne, ReapFinds, ReapNone, Drain,
       Collect, Return, End, vars

LEMMA LeavingKept ==
  ASSUME Data, Leaving, [Next]_vars
  PROVE  Leaving'
<1>1. CASE Fork \/ ForkFails \/ ReapOne \/ ReapNone
  BY <1>1 DEF Fork, ForkFails, ReapOne, ReapNone, Leaving
<1>2. UNCHANGED keepGoing /\ rc \subseteq rc'
  BY OptionsKept, RcGrows DEF options
<1>3. ~GoesOn => ~GoesOn'
  BY <1>2 DEF GoesOn
<1>4. CASE LeaveLoop
  <2>1. ~(value <= NValues) \/ ~GoesOn
    BY <1>4 DEF LeaveLoop
  <2>2. value' = value
    BY <1>4 DEF LeaveLoop
  <2>3. value \in Int /\ NValues \in Int
    BY ValuesAssumption DEF Data
  <2> QED
    BY <1>3, <2>1, <2>2, <2>3 DEF Leaving
<1>5. CASE Drain \/ Return \/ SomeEnd \/ UNCHANGED vars
  <2>1. value' = value /\ (pc' \in {"drain", "exit"} => pc \in {"drain", "exit"})
    BY <1>5 DEF Drain, Return, DoneDraining, SomeEnd, End, vars
  <2> QED
    BY <1>3, <2>1 DEF Leaving
<1> QED
  BY <1>1, <1>4, <1>5 DEF Next, Main

(* jobs is the number of children that were started and not waited for.    *)
THEOREM Counting == ASSUME OwnChildrenOnly PROVE Spec => [](TypeOK /\ Count)
<1>1. Init => Count
  <2> SUFFICES ASSUME Init PROVE Counter /\ Leaving
    BY CountSplit
  <2>1. Child = Value /\ Foreign = {}
    BY OwnChild, ValuesAssumption DEF OwnChildrenOnly, Foreign
  <2>2. \A v \in Value : child[v] = "none"
    BY <2>1 DEF Init
  <2>3. Owned = {}
    BY <2>2 DEF Owned
  <2>4. Counter
    BY <2>1, <2>2, <2>3, FS_EmptySet, JobsAssumption DEF Init, Counter
  <2>5. Leaving
    BY DEF Init, Leaving
  <2> QED
    BY <2>4, <2>5
<1>2. TypeOK /\ Count /\ [Next]_vars => Count'
  BY CounterKept, LeavingKept, TypeSplit DEF Count, Counter, Leaving
<1> QED
  BY <1>1, <1>2, Typed, PTL DEF Spec

LEMMA RunningBounded ==
  ASSUME OwnChildrenOnly, Data, Counter
  PROVE  /\ IsFiniteSet(Running) /\ Cardinality(Running) \in Nat
         /\ Cardinality(Running) <= jobs /\ jobs <= limit
         /\ pc = "exit" => Running = {}
<1>1. Running \subseteq Owned
  BY DEF Running, Owned, Counter, Ended, Failure
<1>2. /\ IsFiniteSet(Running) /\ Cardinality(Running) \in Nat
      /\ Cardinality(Running) <= Cardinality(Owned)
  BY <1>1, OwnedFinite, FS_Subset, FS_CardinalityType
<1>3. pc = "exit" => Owned = {}
  BY OwnedFinite, FS_EmptySet DEF Counter
<1> QED
  BY <1>1, <1>2, <1>3 DEF Counter

(* "-j<jobs> run <jobs> jobs at the same time": if all its children are    *)
(* its own, foreach never runs more.                                       *)
THEOREM RunsAtMostLimit == ASSUME OwnChildrenOnly PROVE Spec => []JobsBounded
<1>1. TypeOK /\ Count => JobsBounded
  <2> SUFFICES ASSUME TypeOK, Count PROVE JobsBounded
    OBVIOUS
  <2>1. limit \in Nat /\ jobs \in Nat
    BY TypeSplit, JobsAssumption DEF Data
  <2>2. Cardinality(Running) \in Nat /\ Cardinality(Running) <= jobs /\ jobs <= limit
    BY TypeSplit, CountSplit, RunningBounded
  <2> QED
    BY <2>1, <2>2 DEF JobsBounded
<1> QED
  BY <1>1, Counting, PTL

LEMMA AllCollected ==
  ASSUME OwnChildrenOnly, Data, Counter, Owned = {}
  PROVE  rc = {child[v] : v \in Failed}
<1>1. Failed \subseteq collected
  BY DEF Owned, Failed, Failure
<1>2. \A v \in collected : child[v] \in Failure => v \in Failed
  BY DEF Failed, Counter
<1>3. \A v \in Failed : child[v] \in Failure
  BY DEF Failed
<1> QED
  BY <1>1, <1>2, <1>3 DEF Counter

(* The exit code names exactly the ways in which jobs failed, and no job   *)
(* runs any more when it is returned.                                      *)
THEOREM TellsEveryFailure == ASSUME OwnChildrenOnly PROVE Spec => []ExitCodeTellsAll
<1>1. TypeOK /\ Count => ExitCodeTellsAll
  <2> SUFFICES ASSUME TypeOK, Count, pc = "exit"
               PROVE  Running = {} /\ rc = {child[v] : v \in Failed}
    BY DEF ExitCodeTellsAll
  <2>1. Data /\ Counter
    BY TypeSplit, CountSplit
  <2>2. Owned = {}
    BY <2>1, OwnedFinite, FS_EmptySet DEF Counter
  <2> QED
    BY <2>1, <2>2, RunningBounded, AllCollected
<1> QED
  BY <1>1, Counting, PTL

-----------------------------------------------------------------------------
(* -K.  Between a failure and its discovery at most one job is started.    *)
LEMMA NoticingKept ==
  ASSUME OwnChildrenOnly, Data, Counter, Noticing, [Next]_vars
  PROVE  Noticing'
<1> SUFFICES ASSUME ~keepGoing PROVE Noticing'
  BY OptionsKept DEF Noticing, options
<1>0. /\ late \in Nat /\ late <= 1
      /\ late = 1 => rc # {} \/ (pc = "reap" /\ Failed \cap Waitable # {})
      /\ rc # {} \/ Failed # {} \/ late = 0
  BY DEF Noticing, Data
<1>1. CASE Fork
  <2>1. rc = {} /\ pc = "next" /\ late = 0
    BY <1>0, <1>1 DEF Fork, GoesOn
  <2>2. value \in Value /\ child[value] = "none" /\ value \in Child
    BY <1>1, ChildFacts, ValuesAssumption DEF Fork, Value, Data, Counter
  <2>3. \A v \in Value : v # value => child'[v] = child[v]
    BY <1>1, <2>2, ChildFacts DEF Fork, Data
  <2>4. Failed \cap collected = {}
    BY <2>1 DEF Counter, Failed
  <2>5. Failed \subseteq Failed' \cap Waitable'
    <3> SUFFICES ASSUME NEW v \in Failed PROVE v \in Failed' \cap Waitable'
      OBVIOUS
    <3>1. v \in Value /\ child[v] \in Failure /\ v # value /\ v \notin collected
      BY <2>2, <2>4 DEF Failed, Failure
    <3>2. child'[v] = child[v] /\ v \in Child
      BY <2>3, <3>1, ChildFacts
    <3> QED
      BY <1>1, <3>1, <3>2 DEF Fork, Failed, Waitable, Ended
  <2>6. late' = (IF Failed = {} THEN 0 ELSE 1) /\ pc' = "reap"
    BY <1>1, <2>1 DEF Fork
  <2> QED
    BY <2>5, <2>6 DEF Noticing
<1>2. CASE ForkFails \/ LeaveLoop \/ Return
  BY <1>0, <1>2 DEF ForkFails, LeaveLoop, Return, DoneDraining, Noticing, Failed, Waitable
<1>3. CASE ReapNone
  <2>1. Waitable = {}
    BY <1>3 DEF ReapNone, NothingReaped
  <2> QED
    BY <1>0, <1>3, <2>1 DEF ReapNone, Noticing, Failed
<1>4. ASSUME NEW c \in Child, Collect(c), UNCHANGED <<child, late>>, pc' = pc
      PROVE  Noticing'
  <2>1. CASE child[c] \in Failure
    <3>1. rc' # {}
      BY <1>4, <2>1 DEF Collect, StatusBit
    <3> QED
      BY <1>0, <1>4, <3>1 DEF Noticing
  <2>2. CASE child[c] \notin Failure
    <3>1. Failed' = Failed /\ Failed \cap Waitable' = Failed \cap Waitable
      BY <1>4, <2>2 DEF Collect, Failed, Waitable
    <3>2. rc \subseteq rc'
      BY <1>4 DEF Collect
    <3>3. rc # {} => rc' # {}
      BY <3>2
    <3> QED
      BY <1>0, <1>4, <3>1, <3>3 DEF Noticing
  <2> QED
    BY <2>1, <2>2
<1>5. CASE ReapOne
  BY <1>4, <1>5 DEF ReapOne, ReapFinds
<1>6. CASE Drain
  <2>1. CASE UNCHANGED <<collected, rc>>
    BY <1>0, <1>6, <2>1 DEF Drain, Noticing, Failed, Waitable
  <2>2. CASE \E c \in Child : Collect(c)
    BY <1>4, <1>6, <2>2 DEF Drain
  <2> QED
    BY <1>6, <2>1, <2>2 DEF Drain
<1>7. ASSUME NEW c \in Child, NEW how \in Ended, End(c, how) PROVE Noticing'
  <2>1. UNCHANGED <<pc, rc, late, collected>> /\ child[c] = "running"
    BY <1>7 DEF End, OwnChildrenOnly
  <2>2. \A v \in Child : v # c => child'[v] = child[v]
    BY <1>7 DEF End, Data
  <2>3. Failed \subseteq Failed' /\ Waitable \subseteq Waitable'
    BY <2>1, <2>2, ChildFacts DEF Failed, Waitable, Failure, Ended
  <2> QED
    BY <1>0, <2>1, <2>3 DEF Noticing
<1>8. CASE UNCHANGED vars
  BY <1>0, <1>8 DEF vars, Noticing, Failed, Waitable
<1> QED
  BY <1>1, <1>2, <1>3, <1>5, <1>6, <1>7, <1>8 DEF Next, Main, SomeEnd

(* "-K stop once a job returns non-zero": only the job that was about to   *)
(* be started when the failure happened is started after it.               *)
THEOREM StopsAfterFailure == ASSUME OwnChildrenOnly PROVE Spec => []StopsSoon
<1>1. Init => Noticing
  BY DEF Init, Noticing
<1>2. TypeOK /\ Count /\ Noticing /\ [Next]_vars => Noticing'
  BY TypeSplit, CountSplit, NoticingKept
<1>3. Noticing => StopsSoon
  BY DEF Noticing, StopsSoon
<1> QED
  BY <1>1, <1>2, <1>3, Counting, PTL DEF Spec

-----------------------------------------------------------------------------
(* foreach is a work pool.                                                 *)
Ends == [v \in Value |-> IF child[v] \in Ended THEN child[v] ELSE "none"]

LEMMA SameCardinality == Pool!Cardinality(Running) = Cardinality(Running)
BY DEF Pool!Cardinality, Cardinality

LEMMA PoolStep ==
  ASSUME OwnChildrenOnly, Data, Counter, Leaving, [Next]_vars
  PROVE  [Pool!Next]_(Pool!vars)
<1>0. UNCHANGED <<limit, keepGoing>>
  BY OptionsKept DEF options
<1> USE DEF Pool!Take
<1>1. CASE Fork \/ ForkFails
  <2>1. value \in Value /\ value' = value + 1 /\ pc = "next" /\ pc' # "exit"
    BY <1>1, ValuesAssumption DEF Fork, ForkFails, Value, Data
  <2>2. child[value] = "none"
    BY <2>1 DEF Counter, Value
  <2>3. /\ value \in value..NValues /\ \A u \in value..NValues : value <= u
        /\ value'..NValues = (value..NValues) \ {value}
    BY <2>1, ValuesAssumption DEF Value
  <2>4. Pool!Take(value)
    BY <1>0, <2>1, <2>3
  <2>5. CASE Fork
    <3>1. child'[value] = "running" /\ \A v \in Value : v # value => child'[v] = child[v]
      BY <2>1, <2>5, ChildFacts DEF Fork, Data
    <3>2. Running' = Running \cup {value}
      BY <2>1, <3>1 DEF Running
    <3>3. Ends' = Ends
      BY <2>2, <3>1 DEF Ends, Ended, Failure
    <3>4. Cardinality(Running) < limit
      BY <2>1, RunningBounded, JobsAssumption DEF Data, Counter
    <3>5. Pool!Start(value)
      BY <2>4, <3>2, <3>3, <3>4, SameCardinality DEF Pool!Start, Ends
    <3> QED
      BY <2>1, <3>5 DEF Pool!Next
  <2>6. CASE ForkFails
    <3>1. Running' = Running /\ Ends' = Ends
      BY <2>6 DEF ForkFails, Running, Ends
    <3>2. Pool!Skip(value)
      BY <2>4, <3>1 DEF Pool!Skip, Ends
    <3> QED
      BY <2>1, <3>2 DEF Pool!Next
  <2> QED
    BY <1>1, <2>5, <2>6
<1>2. CASE LeaveLoop \/ ReapOne \/ ReapNone \/ Drain \/ UNCHANGED vars
  <2>1. UNCHANGED <<child, value>> /\ (pc' = "exit" <=> pc = "exit") /\ (pc = "exit" => rc' = rc)
    BY <1>2 DEF LeaveLoop, ReapOne, ReapNone, Drain, vars
  <2>2. Running' = Running /\ Ends' = Ends
    BY <2>1 DEF Running, Ends
  <2> QED
    BY <1>0, <2>1, <2>2 DEF Pool!vars, Ends
<1>3. CASE Return
  <2>1. /\ pc = "drain" /\ jobs = 0 /\ pc' = "exit"
        /\ UNCHANGED <<child, value, rc>>
    BY <1>3 DEF Return, DoneDraining
  <2>2. Owned = {}
    BY <2>1, OwnedFinite, FS_EmptySet DEF Counter
  <2>3. Running = {}
    BY <2>2 DEF Running, Owned, Counter, Ended, Failure
  <2>4. Running' = Running /\ Ends' = Ends
    BY <2>1 DEF Running, Ends
  <2>5. rc = {child[v] : v \in Failed}
    BY <2>2, AllCollected
  <2>6. rc = {Ends[v] : v \in Value} \cap Failure
    BY <2>5 DEF Failed, Ends, Ended, Failure
  <2>7. value..NValues = {} \/ (~keepGoing /\ \E v \in Value : Ends[v] \in Failure)
    <3>1. CASE value > NValues
      BY <3>1, ValuesAssumption DEF Data
    <3>2. CASE ~GoesOn
      BY <2>6, <3>2 DEF GoesOn
    <3> QED
      BY <2>1, <3>1, <3>2 DEF Leaving
  <2>8. Pool!Failure = Failure
    BY DEF Pool!Failure, Failure
  <2>9. Pool!Report
    BY <1>0, <2>1, <2>3, <2>4, <2>6, <2>7, <2>8 DEF Pool!Report, Ends
  <2> QED
    BY <2>9 DEF Pool!Next
<1>4. ASSUME NEW c \in Child, NEW how \in Ended, End(c, how) PROVE [Pool!Next]_(Pool!vars)
  <2>1. c \in Value /\ child[c] = "running" /\ UNCHANGED <<value, pc, rc>>
    BY <1>4, OwnChild DEF End
  <2>2. child'[c] = how /\ \A v \in Value : v # c => child'[v] = child[v]
    BY <1>4, ChildFacts DEF End, Data
  <2>3. c \in Running /\ Running' = Running \ {c}
    BY <2>1, <2>2 DEF Running, Ended, Failure
  <2>4. Ends' = [Ends EXCEPT ![c] = how]
    BY <2>1, <2>2 DEF Ends
  <2>5. Pool!Finish(c, how)
    BY <1>0, <2>1, <2>3, <2>4 DEF Pool!Finish, Ends
  <2>6. how \in Pool!Failure \cup {"ok"}
    BY DEF Pool!Failure, Failure, Ended
  <2> QED
    BY <2>1, <2>5, <2>6 DEF Pool!Next
<1> QED
  BY <1>1, <1>2, <1>3, <1>4 DEF Next, Main, SomeEnd

(* Every behaviour of foreach is one of the pool: values are taken in      *)
(* order and once, the limit holds, and the report comes last and is true. *)
THEOREM IsWorkPool == ASSUME OwnChildrenOnly PROVE Spec => ImplementsPool
<1>1. Init => Pool!Init
  <2> SUFFICES ASSUME Init PROVE Pool!Init
    OBVIOUS
  <2>1. \A v \in Value : child[v] = "none"
    BY OwnChild, ValuesAssumption DEF Init, OwnChildrenOnly, Foreign
  <2>2. Running = {} /\ Ends = [v \in Value |-> "none"]
    BY <2>1 DEF Running, Ends, Ended, Failure
  <2>3. limit \in Nat \ {0} /\ value..NValues = Value /\ pc # "exit"
    BY JobsAssumption DEF Init, Value
  <2>4. keepGoing \in BOOLEAN
    BY DEF Init
  <2> QED
    BY <2>2, <2>3, <2>4 DEF Pool!Init, Ends
<1>2. TypeOK /\ Count /\ [Next]_vars => [Pool!Next]_(Pool!vars)
  BY TypeSplit, CountSplit, PoolStep
<1> QED
  BY <1>1, <1>2, Counting, PTL DEF Spec, ImplementsPool, Pool!Spec
=============================================================================
