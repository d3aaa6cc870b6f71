----------------------- MODULE InstallkernelLock_proofs -----------------------
(* Proofs about the lock of installkernel, for any set of instances.       *)
EXTENDS InstallkernelLock, TLAPS

-----------------------------------------------------------------------------
(* Every step is one instance's, and the lock is touched only by its ln,   *)
(* by its own exit and by the exit of its child under su.                  *)
Step(i) == (\E switch \in SuSwitch : Begin(i, switch)) \/ Run(i) \/ SignalTooEarly(i) \/ Kill(i)

LEMMA StepOfOne ==
  ASSUME TypeOK, NEW i \in Inst, Step(i)
  PROVE  /\ TypeOK'
         /\ \A j \in Inst \ {i} : pc'[j] = pc[j] /\ su'[j] = su[j] /\ child'[j] = child[j]
<1> USE DEF TypeOK, Goto, ghosts
<1>0. CASE \E switch \in SuSwitch : Begin(i, switch)
  <2>1. PICK switch \in SuSwitch : Begin(i, switch)
    BY <1>0
  <2>2. su' \in [Inst -> BOOLEAN] /\ plain' \in BOOLEAN
    BY <2>1, SwitchAssumption DEF Begin
  <2> QED
    BY <2>1, <2>2 DEF Begin
<1>1. CASE SignalTooEarly(i) \/ Kill(i)
  BY <1>1 DEF SignalTooEarly, Kill
<1>2. CASE Link(i)
  BY <1>2 DEF Link
<1>3. CASE ReadLink(i) \/ SetSignalHandlers(i) \/ SetExitHandler(i) \/ Finish(i) \/ SuReturns(i)
  BY <1>3 DEF ReadLink, SetSignalHandlers, SetExitHandler, Finish, SuReturns
<1>4. CASE BecomeRoot(i) \/ ChildFinishes(i)
  BY <1>4 DEF BecomeRoot, ChildFinishes
<1>5. CASE ChildExits(i) \/ Exit(i)
  BY <1>5 DEF ChildExits, Exit, Remove
<1> QED
  BY <1>0, <1>1, <1>2, <1>3, <1>4, <1>5 DEF Step, Run

LEMMA NextSteps == Next => \E i \in Inst : Step(i)
BY DEF Next, Step

(* Type correctness, with and without --su: the link is free or names an   *)
(* instance, and every script is at one of the steps of the handlers.      *)
THEOREM Typed == Spec => []TypeOK
<1>1. Init => TypeOK
  BY DEF Init, TypeOK
<1>2. TypeOK /\ [Next]_vars => TypeOK'
  <2> SUFFICES ASSUME TypeOK, [Next]_vars PROVE TypeOK'
    OBVIOUS
  <2>1. CASE Next
    BY <2>1, StepOfOne, NextSteps
  <2>2. CASE UNCHANGED vars
    BY <2>2 DEF vars, ghosts, TypeOK
  <2> QED
    BY <2>1, <2>2
<1> QED
  BY <1>1, <1>2, PTL DEF Spec

-----------------------------------------------------------------------------
(* Who is past ln and has not ended holds the lock: nobody else removes    *)
(* it, as nobody has a child.                                              *)
HoldingAll ==
  \A i \in Inst : (Holds(i) => lock = i) /\ ~su[i] /\ pc[i] # "su" /\ child[i] = "none"

LEMMA SuIsRemembered == Next /\ plain' => plain
BY DEF Next, Begin, Run, SignalTooEarly, Kill, Link, ReadLink, SetSignalHandlers, SetExitHandler,
       BecomeRoot, Finish, ChildFinishes, ChildExits, SuReturns, Exit, ghosts

LEMMA HoldingKept ==
  ASSUME TypeOK, HoldingAll, plain', NEW i \in Inst, Step(i)
  PROVE  HoldingAll'
<1> USE DEF TypeOK, Goto, Holds, ghosts
<1>a. /\ \A j \in Inst : (Holds(j) => lock = j) /\ ~su[j] /\ pc[j] # "su" /\ child[j] = "none"
      /\ \A j \in Inst \ {i} : pc'[j] = pc[j] /\ su'[j] = su[j] /\ child'[j] = child[j]
  BY StepOfOne DEF HoldingAll
<1>0. CASE \E switch \in SuSwitch : Begin(i, switch)
  <2>1. PICK switch \in SuSwitch : Begin(i, switch)
    BY <1>0
  <2>2. ~su'[i]
    BY <2>1 DEF Begin
  <2> QED
    BY <1>a, <2>1, <2>2 DEF Begin, HoldingAll
<1>1. CASE SignalTooEarly(i) \/ Kill(i)
  BY <1>a, <1>1 DEF SignalTooEarly, Kill, HoldingAll
<1>2. CASE Link(i)
  <2>1. CASE LinkMade
    <3>1. \A j \in Inst : ~Holds(j)
      BY <1>a, <2>1, InstAssumption DEF LinkMade
    <3> QED
      BY <1>a, <1>2, <2>1, <3>1 DEF Link, HoldingAll
  <2>2. CASE ~LinkMade
    BY <1>a, <1>2, <2>2 DEF Link, HoldingAll
  <2> QED
    BY <2>1, <2>2
<1>3. CASE ReadLink(i) \/ SetSignalHandlers(i) \/ SetExitHandler(i) \/ Finish(i)
  BY <1>a, <1>3 DEF ReadLink, SetSignalHandlers, SetExitHandler, Finish, HoldingAll
<1>4. ~(BecomeRoot(i) \/ ChildFinishes(i) \/ ChildExits(i) \/ SuReturns(i))
  BY <1>a DEF BecomeRoot, ChildFinishes, ChildExits, SuReturns
<1>5. CASE Exit(i)
  <2>1. \A j \in Inst \ {i} : ~Holds(j)
    BY <1>a, <1>5 DEF Exit
  <2> QED
    BY <1>a, <1>5, <2>1 DEF Exit, Remove, HoldingAll
<1> QED
  BY <1>0, <1>1, <1>2, <1>3, <1>4, <1>5 DEF Step, Run

(* Until --su is used the lock names every instance that is past ln.       *)
THEOREM HoldsWhileRunning == Spec => []Holding
<1>1. Init => Holding
  BY DEF Init, Holding, Holds
<1>2. TypeOK /\ Holding /\ [Next]_vars => Holding'
  <2> SUFFICES ASSUME TypeOK, Holding, [Next]_vars, plain' PROVE HoldingAll'
    BY DEF Holding, HoldingAll
  <2>1. CASE Next
    BY <2>1, HoldingKept, SuIsRemembered, NextSteps DEF Holding, HoldingAll
  <2>2. CASE UNCHANGED vars
    BY <2>2 DEF vars, ghosts, Holding, HoldingAll, Holds
  <2> QED
    BY <2>1, <2>2
<1> QED
  BY <1>1, <1>2, Typed, PTL DEF Spec

(* Mutual exclusion, installkernel:63: as long as nobody uses --su two     *)
(* instances never work at the same time, whatever is killed or crashes.   *)
THEOREM OneAtATime == Spec => []OneInstance
<1>1. Holding => OneInstance
  BY DEF Holding, Holds, OneInstance, AtMostOne, Working
<1> QED
  BY <1>1, HoldsWhileRunning, PTL

(* As long as nobody uses --su, exit_function (installkernel:188) removes  *)
(* no lock but that of the instance it runs in.                            *)
THEOREM RemovesOwnLock == Spec => OwnLockOnly
<1>1. TypeOK /\ Holding /\ [Next]_vars =>
        (plain /\ lock # Free /\ lock' = Free => pc[lock] = "exit" /\ pc'[lock] = "end")
  <2> SUFFICES ASSUME TypeOK, Holding, Next, plain, lock # Free, lock' = Free
               PROVE  pc[lock] = "exit" /\ pc'[lock] = "end"
    BY DEF vars
  <2>1. PICK i \in Inst : Step(i)
    BY NextSteps
  <2>2. ~su[i] /\ child[i] = "none"
    BY DEF Holding
  <2>3. i # Free
    BY InstAssumption
  <2>4. Exit(i)
    BY <2>1, <2>2, <2>3 DEF Step, Run, Begin, SignalTooEarly, Kill, Link, ReadLink, SetSignalHandlers,
       SetExitHandler, BecomeRoot, Finish, ChildFinishes, ChildExits, SuReturns
  <2>5. lock = i
    BY <2>4 DEF Exit, Goto, Holding, Holds
  <2> QED
    BY <2>4, <2>5 DEF Exit, Goto, TypeOK
<1> QED
  BY <1>1, Typed, HoldsWhileRunning, PTL DEF Spec, OwnLockOnly
-----------------------------------------------------------------------------
(* While nothing is killed, the link names an instance that is running,    *)
(* with --su too: who ends on its own removes it, whoever has made it.     *)
Running(i) == pc[i] \notin {"start", "end", "refused"}
NamesRunning == orderly /\ lock # Free => Running(lock)

LEMMA NamesRunningKept ==
  ASSUME TypeOK, NamesRunning, NEW i \in Inst, Step(i)
  PROVE  NamesRunning'
<1> USE DEF Goto, ghosts
<1> SUFFICES ASSUME orderly', lock' # Free PROVE Running(lock)'
  BY DEF NamesRunning
<1>0. orderly /\ (lock # Free => Running(lock)) /\ lock \in Inst \cup {Free}
  BY DEF Step, Run, Begin, SignalTooEarly, Kill, Link, ReadLink, SetSignalHandlers, SetExitHandler,
         BecomeRoot, Finish, ChildFinishes, ChildExits, SuReturns, Exit, NamesRunning, TypeOK
<1>1. \A j \in Inst \ {i} : pc'[j] = pc[j]
  BY StepOfOne
<1>2. pc \in [Inst -> {"start", "check", "early", "handlers", "work", "su", "exit", "end", "refused"}]
  BY DEF TypeOK
<1>3. CASE \E switch \in SuSwitch : Begin(i, switch)
  BY <1>0, <1>1, <1>3 DEF Begin, Running
<1>4. CASE Link(i)
  BY <1>0, <1>1, <1>2, <1>4 DEF Link, LinkMade, Running
<1>5. CASE ReadLink(i)
  BY <1>0, <1>1, <1>2, <1>5 DEF ReadLink, Running
<1>6. CASE SetSignalHandlers(i) \/ SetExitHandler(i) \/ BecomeRoot(i) \/ Finish(i) \/ SuReturns(i)
  BY <1>0, <1>1, <1>2, <1>6 DEF SetSignalHandlers, SetExitHandler, BecomeRoot, Finish, SuReturns, Running
<1>7. CASE ChildFinishes(i)
  BY <1>0, <1>7 DEF ChildFinishes, Running
<1>8. ~(ChildExits(i) \/ Exit(i) \/ SignalTooEarly(i) \/ Kill(i))
  BY DEF ChildExits, Exit, Remove, SignalTooEarly, Kill
<1> QED
  BY <1>3, <1>4, <1>5, <1>6, <1>7, <1>8 DEF Step, Run

(* While nothing is killed, whoever finds the link (installkernel:58) is   *)
(* refused because another instance is running, with --su and without.     *)
THEOREM RefusesForOther == Spec => RefusedByRunning
<1>1. Init => NamesRunning
  BY DEF Init, NamesRunning
<1>2. TypeOK /\ NamesRunning /\ [Next]_vars => NamesRunning'
  <2>1. TypeOK /\ NamesRunning /\ Next => NamesRunning'
    BY NamesRunningKept, NextSteps
  <2>2. NamesRunning /\ UNCHANGED vars => NamesRunning'
    BY DEF vars, ghosts, NamesRunning, Running
  <2> QED
    BY <2>1, <2>2
<1>3. TypeOK /\ NamesRunning /\ [Next]_vars =>
        [\A i \in Inst : orderly /\ pc[i] = "start" /\ pc'[i] = "refused" =>
           \E j \in Inst : j # i /\ pc[j] \notin {"start", "end", "refused"}]_vars
  <2> SUFFICES ASSUME TypeOK, NamesRunning, Next,
                      NEW i \in Inst, orderly, pc[i] = "start", pc'[i] = "refused"
               PROVE  \E j \in Inst : j # i /\ pc[j] \notin {"start", "end", "refused"}
    OBVIOUS
  <2>1. PICK step \in Inst : Step(step)
    BY NextSteps
  <2>2. step = i
    BY <2>1, StepOfOne
  <2>3. pc \in [Inst -> {"start", "check", "early", "handlers", "work", "su", "exit", "end", "refused"}]
    BY DEF TypeOK
  <2>4. Link(i)
    BY <2>1, <2>2, <2>3 DEF Step, Run, Begin, SignalTooEarly, Kill, ReadLink, SetSignalHandlers, SetExitHandler,
       BecomeRoot, Finish, ChildFinishes, ChildExits, SuReturns, Exit, Goto
  <2>5. lock \in Inst /\ Running(lock)
    BY <2>3, <2>4 DEF Link, LinkMade, Goto, NamesRunning, TypeOK
  <2> QED
    BY <2>5 DEF Running
<1> QED
  BY <1>1, <1>2, <1>3, Typed, PTL DEF Spec, RefusedByRunning
=============================================================================
