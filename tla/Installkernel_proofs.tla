------------------------ MODULE Installkernel_proofs ------------------------
(***************************************************************************)
(* Proofs about what installkernel does to /boot and /lib/modules, for any *)
(* kinds of file, versions and number of runs.  The invariants say how far *)
(* the loops of a run have got with each kind of file, and what they leave *)
(* as the run has found it.                                                *)
(***************************************************************************)
EXTENDS Installkernel, TLAPS

Image(kind) == file[kind][<<Fver, 0>>]
Value(kind, name) == IF name = NoLink THEN None ELSE file[kind][<<name, 0>>]

(* The loop that moves aside makes room, the one that copies fills it.     *)
Installed ==
  \A j \in DOMAIN Kinds :
    /\ pc = "aside" /\ j < k => Image(Kinds[j]) = None
    /\ pc = "copy" /\ j > k => Image(Kinds[j]) = None
    /\ pc = "copy" /\ j = k => Image(Kinds[j]) \in {None, Partial}
    /\ pc = "copy" /\ j < k => Image(Kinds[j]) = runs
    /\ pc \in {"link", "ln", "done"} => Image(Kinds[j]) = runs

(* The links of the kinds the last loop is through with, of the one it is  *)
(* at, and of those to come.                                               *)
Moves(kind)  == was[kind].link.cur \notin {Fver, NoLink} /\ ~opt.overwrite
Linked(kind) == [cur |-> Fver, old |-> IF Moves(kind) THEN was[kind].link.cur ELSE was[kind].link.old]
Moved(kind)  == [cur |-> NoLink, old |-> was[kind].link.cur]
Relinked ==
  \A j \in DOMAIN Kinds :
    /\ pc \in {"tidyImage", "tidyModules", "aside", "copy"} => link[Kinds[j]] = was[Kinds[j]].link
    /\ pc \in {"link", "ln"} /\ j > k => link[Kinds[j]] = was[Kinds[j]].link
    /\ pc \in {"link", "ln"} /\ j < k => link[Kinds[j]] = Linked(Kinds[j])
    /\ pc = "link" /\ j = k => link[Kinds[j]] = was[Kinds[j]].link
    /\ pc = "ln" /\ j = k => link[Kinds[j]] = Moved(Kinds[j]) /\ Moves(Kinds[j])
    /\ pc = "done" => link[Kinds[j]] = Linked(Kinds[j])

(* What a link led to is still under that name, unless the name is the one *)
(* that is installed or the one that is tidied away.                       *)
Spared(kind, name) == name # Fver /\ (opt.tidy => name # was[kind].link[TidyLink(opt.overwrite)])
Kept ==
  pc # "idle" =>
    \A kind \in Kind :
      /\ Spared(kind, was[kind].link.cur) => Value(kind, was[kind].link.cur) = was[kind].cur
      /\ Spared(kind, was[kind].link.old) => Value(kind, was[kind].link.old) = was[kind].old

(* Two kernels that boot: what every run that is not cut short begins with *)
(* and leaves behind.                                                      *)
Boots(name, content) == name # NoLink /\ Complete(content) /\ name[1] \in modules
Healthy(seen) ==
  /\ seen.link.cur # seen.link.old
  /\ Boots(seen.link.cur, seen.cur) /\ Boots(seen.link.old, seen.old)
Booting ==
  /\ pc \in {"tidyImage", "tidyModules"} => opt.tidy
  /\ plain /\ pc # "idle" => ~opt.overwrite /\ ~opt.tidy
  /\ pc # "idle" => Fver[1] \in modules \/ opt.tidy
  /\ plain /\ aborts = 0 => Healthy(IF pc = "idle" THEN Seen["bzImage"] ELSE was["bzImage"])

-----------------------------------------------------------------------------
(* Facts about names, and about changing what is under one of them.        *)

LEMMA Names ==
  /\ 0 \in Depth
  /\ k \in DOMAIN Kinds => Here \in Kind
  /\ \A name \in FVer, d \in Depth : <<name, d>> \in Name
  /\ \A name, other, d, e : <<name, d>> = <<other, e>> <=> name = other /\ d = e
  /\ NoLink \notin FVer
<1>1. 0 \in Depth
  BY BoundsAssumption DEF Depth
<1>2. NoLink \notin FVer
  BY DEF NoLink, FVer
<1> QED BY <1>1, <1>2 DEF Name, Kind, Here

LEMMA OneChanged ==
  ASSUME NEW K, NEW M, NEW V, NEW f \in [K -> [M -> V]], NEW i \in K, NEW a \in M, NEW z \in V,
         NEW g, g = [f EXCEPT ![i][a] = z]
  PROVE  /\ g \in [K -> [M -> V]]
         /\ \A j \in K, n \in M : g[j][n] = IF j = i /\ n = a THEN z ELSE f[j][n]
BY SMT

(* What the links lead to.                                                 *)
LEMMA SeenType ==
  ASSUME TypeOK
  PROVE  /\ Seen \in [Kind -> [link : Links, cur : Content, old : Content]]
         /\ \A kind \in Kind :
              /\ Seen[kind].link = link[kind]
              /\ Seen[kind].cur = Value(kind, link[kind].cur) /\ Seen[kind].cur = Resolve(kind, "cur")
              /\ Seen[kind].old = Value(kind, link[kind].old) /\ Seen[kind].old = Resolve(kind, "old")
<1>1. ASSUME NEW kind \in Kind
      PROVE  /\ Resolve(kind, "cur") = Value(kind, link[kind].cur) /\ Resolve(kind, "cur") \in Content
             /\ Resolve(kind, "old") = Value(kind, link[kind].old) /\ Resolve(kind, "old") \in Content
             /\ link[kind] \in Links
  <2>1. link[kind] \in Links /\ file[kind] \in [Name -> Content]
    BY DEF TypeOK
  <2>2. link[kind].cur \in FVer \cup {NoLink} /\ link[kind].old \in FVer \cup {NoLink}
    BY <2>1 DEF Links
  <2>3. None \in Content
    BY BoundsAssumption DEF None, Content
  <2>4. \A name \in FVer : <<name, 0>> \in Name
    BY Names
  <2>5. Resolve(kind, "cur") = Value(kind, link[kind].cur) /\ Resolve(kind, "old") = Value(kind, link[kind].old)
    BY DEF Resolve, Value
  <2>6. \A name \in FVer \cup {NoLink} : Value(kind, name) \in Content
    BY <2>1, <2>3, <2>4 DEF Value
  <2> QED BY <2>1, <2>2, <2>5, <2>6
<1> QED BY <1>1 DEF Seen

(* Steps of the loops, and what they do to the files and the links.        *)
LEMMA LoopSteps ==
  ASSUME NEW step \in {"tidyModules", "copy", "link"}, TypeOK, LoopThen(step)
  PROVE  /\ k' \in DOMAIN Kinds /\ pc' \in {pc, step}
         /\ pc' = step /\ pc # step => k' = 1 /\ k = Len(Kinds)
         /\ pc' = pc /\ pc # step => k' = k + 1
<1>1. Len(Kinds) \in Nat /\ Len(Kinds) > 0 /\ DOMAIN Kinds = 1..Len(Kinds)
  BY KindsAssumption
<1>2. k \in DOMAIN Kinds
  BY DEF TypeOK
<1>3. CASE k < Len(Kinds)
  BY <1>1, <1>2, <1>3 DEF LoopThen
<1>4. CASE ~(k < Len(Kinds))
  BY <1>1, <1>2, <1>4 DEF LoopThen, Goto
<1> QED BY <1>3, <1>4

LEMMA TidyImageSteps ==
  ASSUME TypeOK, TidyImage
  PROVE  LET name == link[Here][TidyLink(opt.overwrite)]
         IN /\ file' \in [Kind -> [Name -> Content]]
            /\ \A kind \in Kind, n \in Name :
                 file'[kind][n] = IF kind = Here /\ n = <<name, 0>> THEN None ELSE file[kind][n]
<1> DEFINE name == <<link[Here][TidyLink(opt.overwrite)], 0>>
<1>1. file \in [Kind -> [Name -> Content]] /\ Here \in Kind
  BY Names DEF TypeOK
<1>2. file' = IF name \in DOMAIN file[Here] THEN [file EXCEPT ![Here][name] = None] ELSE file
  BY DEF TidyImage
<1>3. DOMAIN file[Here] = Name
  BY <1>1
<1>4. None \in Content
  BY BoundsAssumption DEF None, Content
<1> HIDE DEF name
<1> SUFFICES /\ file' \in [Kind -> [Name -> Content]]
             /\ \A kind \in Kind, n \in Name :
                  file'[kind][n] = IF kind = Here /\ n = name THEN None ELSE file[kind][n]
  BY DEF name
<1>5. CASE name \in Name
  <2>1. file' = [file EXCEPT ![Here][name] = None]
    BY <1>2, <1>3, <1>5
  <2> QED BY <1>1, <1>4, <1>5, <2>1, OneChanged
<1>6. CASE name \notin Name
  BY <1>1, <1>2, <1>3, <1>6
<1> QED BY <1>5, <1>6

LEMMA AsideSteps ==
  ASSUME TypeOK, Aside, InTheWay(0)
  PROVE  /\ file' \in [Kind -> [Name -> Content]]
         /\ \E d \in Depth :
              /\ d + 1 \in Depth /\ file[Here][<<Fver, d>>] # None /\ file[Here][<<Fver, d + 1>>] = None
              /\ \A kind \in Kind, n \in Name :
                   file'[kind][n] = IF kind = Here /\ n = <<Fver, d>> THEN None
                                    ELSE IF kind = Here /\ n = <<Fver, d + 1>> THEN file[Here][<<Fver, d>>]
                                    ELSE file[kind][n]
<1>1. file \in [Kind -> [Name -> Content]] /\ Here \in Kind /\ Fver \in FVer
  BY Names DEF TypeOK, Fver
<1>2. PICK d \in Depth :
        /\ d + 1 \in Depth /\ MoveAside(d)
        /\ file' = [file EXCEPT ![Here][<<Fver, d + 1>>] = file[Here][<<Fver, d>>],
                                ![Here][<<Fver, d>>] = None]
  BY DEF Aside
<1>3. d \in Nat /\ d # d + 1
  BY <1>2 DEF Depth
<1>4. file[Here][<<Fver, d>>] # None /\ file[Here][<<Fver, d + 1>>] = None
  BY <1>2, <1>3 DEF MoveAside, InTheWay
<1>5. None \in Content
  BY BoundsAssumption DEF None, Content
<1> DEFINE a == <<Fver, d>>
           b == <<Fver, d + 1>>
<1>6. a \in Name /\ b \in Name /\ a # b
  BY <1>1, <1>2, <1>3, Names
<1>7. file' = [file EXCEPT ![Here][b] = file[Here][a], ![Here][a] = None]
  BY <1>2
<1> HIDE DEF a, b
<1>8. /\ file' \in [Kind -> [Name -> Content]]
      /\ \A kind \in Kind, n \in Name :
           file'[kind][n] = IF kind = Here /\ n = a THEN None
                            ELSE IF kind = Here /\ n = b THEN file[Here][a] ELSE file[kind][n]
  <2> DEFINE i == Here
             z == None
  <2>1. i \in Kind /\ z \in Content /\ file' = [file EXCEPT ![i][b] = file[i][a], ![i][a] = z]
    BY <1>1, <1>5, <1>7
  <2> HIDE DEF i, z
  <2>2. /\ file' \in [Kind -> [Name -> Content]]
        /\ \A kind \in Kind, n \in Name :
             file'[kind][n] = IF kind = i /\ n = a THEN z
                              ELSE IF kind = i /\ n = b THEN file[i][a] ELSE file[kind][n]
    BY <1>1, <1>6, <2>1
  <2> QED BY <2>2 DEF i, z
<1> QED BY <1>2, <1>4, <1>8 DEF a, b

LEMMA CopySteps ==
  ASSUME TypeOK, Copy
  PROVE  /\ file' \in [Kind -> [Name -> Content]]
         /\ \A kind \in Kind, n \in Name :
              file'[kind][n] = IF kind = Here /\ n = <<Fver, 0>>
                               THEN IF file[Here][<<Fver, 0>>] = None THEN Partial ELSE runs
                               ELSE file[kind][n]
<1> DEFINE a == <<Fver, 0>>
           z == IF file[Here][a] = None THEN Partial ELSE runs
<1>1. file \in [Kind -> [Name -> Content]] /\ Here \in Kind /\ Fver \in FVer
  BY Names DEF TypeOK, Fver
<1>2. a \in Name
  BY <1>1, Names
<1>3. z \in Content
  BY BoundsAssumption DEF Content, Partial, TypeOK
<1>4. file' = [file EXCEPT ![Here][a] = z]
  BY DEF Copy
<1> HIDE DEF a, z
<1>5. /\ file' \in [Kind -> [Name -> Content]]
      /\ \A kind \in Kind, n \in Name : file'[kind][n] = IF kind = Here /\ n = a THEN z ELSE file[kind][n]
  BY <1>1, <1>2, <1>3, <1>4, OneChanged
<1> QED BY <1>5 DEF a, z

LEMMA LinkSteps ==
  ASSUME TypeOK, MoveLink \/ MakeLink
  PROVE  /\ link' \in [Kind -> Links] /\ \A kind \in Kind : kind # Here => link'[kind] = link[kind]
         /\ MoveLink => link'[Here] = [cur |-> NoLink, old |-> link[Here].cur]
         /\ MakeLink => link'[Here] = [cur |-> Fver, old |-> link[Here].old]
<1>1. link \in [Kind -> Links] /\ Here \in Kind /\ Fver \in FVer
  BY Names DEF TypeOK, Fver
<1>2. link[Here].cur \in FVer \cup {NoLink} /\ link[Here].old \in FVer \cup {NoLink}
  BY <1>1 DEF Links
<1>3. CASE MoveLink
  <2>1. [cur |-> NoLink, old |-> link[Here].cur] \in Links
    BY <1>2 DEF Links
  <2>2. link' = [link EXCEPT ![Here] = [cur |-> NoLink, old |-> link[Here].cur]] /\ pc = "link" /\ MovesLink
    BY <1>3 DEF MoveLink
  <2>3. ~MakeLink
    BY <2>2 DEF MakeLink
  <2> QED BY <1>1, <2>1, <2>2, <2>3
<1>4. CASE MakeLink
  <2>1. [cur |-> Fver, old |-> link[Here].old] \in Links
    BY <1>1, <1>2 DEF Links
  <2>2. link' = [link EXCEPT ![Here].cur = Fver] /\ (pc = "ln" \/ ~MovesLink)
    BY <1>4 DEF MakeLink
  <2>3. ~MoveLink
    BY <2>2 DEF MoveLink
  <2>4. [link[Here] EXCEPT !.cur = Fver] = [cur |-> Fver, old |-> link[Here].old]
    BY <1>1 DEF Links
  <2> QED BY <1>1, <2>1, <2>2, <2>3, <2>4
<1> QED BY <1>3, <1>4

LEMMA MakeLinkSteps ==
  ASSUME TypeOK, MakeLink
  PROVE  /\ k' \in DOMAIN Kinds /\ pc' \in {"link", "done"}
         /\ pc' = "link" => k' = k + 1
         /\ pc' = "done" => k = Len(Kinds)
<1>1. Len(Kinds) \in Nat /\ Len(Kinds) > 0 /\ DOMAIN Kinds = 1..Len(Kinds)
  BY KindsAssumption
<1>2. k \in DOMAIN Kinds
  BY DEF TypeOK
<1> QED BY <1>1, <1>2 DEF MakeLink, Goto

LEMMA TypeKept == ASSUME TypeOK, Next PROVE TypeOK'
<1>0. Fver \in FVer /\ Fver[1] \in Ver /\ 1 \in DOMAIN Kinds
  <2>1. opt.fver \in FVer
    BY DEF TypeOK
  <2> QED BY <2>1, KindsAssumption DEF Fver, FVer
<1>1. file' \in [Kind -> [Name -> Content]]
  <2>1. CASE TidyImage
    BY <2>1, TidyImageSteps
  <2>2. CASE Aside
    <3>1. CASE InTheWay(0)
      BY <2>2, <3>1, AsideSteps
    <3>2. CASE ~InTheWay(0)
      BY <2>2, <3>2 DEF Aside, TypeOK
    <3> QED BY <3>1, <3>2
  <2>3. CASE Copy
    BY <2>3, CopySteps
  <2>4. CASE UNCHANGED file
    BY <2>4 DEF TypeOK
  <2> QED BY <2>1, <2>2, <2>3, <2>4 DEF Next, Start, TidyModules, MoveLink, MakeLink, Exit, Abort, disk
<1>2. link' \in [Kind -> Links]
  <2>1. CASE MoveLink \/ MakeLink
    BY <2>1, LinkSteps
  <2>2. CASE UNCHANGED link
    BY <2>2 DEF TypeOK
  <2> QED BY <2>1, <2>2 DEF Next, Start, TidyImage, TidyModules, Aside, Copy, Exit, Abort, disk
<1>3. modules' \subseteq Ver
  <2>0. modules \subseteq Ver
    BY DEF TypeOK
  <2>1. CASE \E fver \in FVer, o \in Overwrite, t \in Tidy : Start(fver, o, t)
    BY <2>0, <2>1 DEF Start, FVer
  <2>2. CASE TidyModules
    BY <2>0, <2>2 DEF TidyModules
  <2>3. CASE UNCHANGED modules
    BY <2>0, <2>3
  <2> QED BY <2>1, <2>2, <2>3 DEF Next, TidyImage, Aside, Copy, MoveLink, MakeLink, Exit, Abort, disk
<1>4. pc' \in {"idle", "tidyImage", "tidyModules", "aside", "copy", "link", "ln", "done"} /\ k' \in DOMAIN Kinds
  <2>0. pc \in {"idle", "tidyImage", "tidyModules", "aside", "copy", "link", "ln", "done"} /\ k \in DOMAIN Kinds
    BY DEF TypeOK
  <2>1. CASE \E fver \in FVer, o \in Overwrite, t \in Tidy : Start(fver, o, t)
    BY <1>0, <2>1 DEF Start, Goto
  <2>2. CASE TidyImage
    BY <2>0, <2>2, LoopSteps DEF TidyImage
  <2>3. CASE TidyModules \/ Exit \/ Abort
    BY <1>0, <2>3 DEF TidyModules, Exit, Abort, Goto
  <2>4. CASE Aside \/ Copy
    BY <2>0, <2>4, LoopSteps DEF Aside, Copy
  <2>5. CASE MoveLink
    BY <2>0, <2>5 DEF MoveLink
  <2>6. CASE MakeLink
    BY <2>6, MakeLinkSteps
  <2> QED BY <2>1, <2>2, <2>3, <2>4, <2>5, <2>6 DEF Next
<1>5. opt' \in [fver : FVer, overwrite : BOOLEAN, tidy : BOOLEAN] /\ plain' \in BOOLEAN
  <2>0. opt \in [fver : FVer, overwrite : BOOLEAN, tidy : BOOLEAN] /\ plain \in BOOLEAN
    BY DEF TypeOK
  <2>1. ASSUME NEW fver \in FVer, NEW o \in Overwrite, NEW t \in Tidy, Start(fver, o, t)
        PROVE  opt' \in [fver : FVer, overwrite : BOOLEAN, tidy : BOOLEAN] /\ plain' \in BOOLEAN
    <3>1. o \in BOOLEAN /\ t \in BOOLEAN
      BY <2>1, SwitchAssumption
    <3>2. opt' = [fver |-> fver, overwrite |-> o, tidy |-> t] /\ plain' = (plain /\ ~o /\ ~t)
      BY <2>1 DEF Start
    <3> QED BY <3>1, <3>2
  <2>2. CASE UNCHANGED <<opt, plain>>
    BY <2>0, <2>2
  <2> QED BY <2>1, <2>2 DEF Next, TidyImage, TidyModules, Aside, Copy, MoveLink, MakeLink, Exit, Abort, disk, ghosts
<1>6. runs' \in 0..MaxRuns /\ aborts' \in 0..MaxAborts
  <2>0. runs \in 0..MaxRuns /\ aborts \in 0..MaxAborts /\ MaxRuns \in Nat /\ MaxAborts \in Nat
    BY BoundsAssumption DEF TypeOK
  <2>1. CASE \E fver \in FVer, o \in Overwrite, t \in Tidy : Start(fver, o, t)
    BY <2>0, <2>1 DEF Start
  <2>2. CASE Abort
    BY <2>0, <2>2 DEF Abort
  <2>3. CASE UNCHANGED <<runs, aborts>>
    BY <2>0, <2>3
  <2> QED BY <2>1, <2>2, <2>3 DEF Next, TidyImage, TidyModules, Aside, Copy, MoveLink, MakeLink, Exit
<1>7. was' \in [Kind -> [link : Links, cur : Content, old : Content]]
  <2>1. CASE UNCHANGED was
    BY <2>1 DEF TypeOK
  <2>2. CASE was' = Seen
    BY <2>2, SeenType
  <2> QED BY <2>1, <2>2 DEF Next, Start, TidyImage, TidyModules, Aside, Copy, MoveLink, MakeLink, Exit, Abort, ghosts
<1> QED BY <1>1, <1>2, <1>3, <1>4, <1>5, <1>6, <1>7 DEF TypeOK

LEMMA Distinct ==
  ASSUME KindsAssumption
  PROVE  /\ \A i, j \in DOMAIN Kinds : Kinds[i] = Kinds[j] <=> i = j
         /\ \A i \in DOMAIN Kinds : Kinds[i] \in Kind /\ i \in Nat /\ i >= 1 /\ i <= Len(Kinds)
         /\ Len(Kinds) \in Nat
BY DEF KindsAssumption, Kind

LEMMA InstalledKept == ASSUME TypeOK, Installed, Next PROVE Installed'
<1>0. /\ k \in DOMAIN Kinds /\ Here = Kinds[k] /\ Here \in Kind /\ <<Fver, 0>> \in Name
      /\ \A i, j \in DOMAIN Kinds : Kinds[i] = Kinds[j] <=> i = j
      /\ \A i \in DOMAIN Kinds : Kinds[i] \in Kind /\ i \in Nat /\ i >= 1 /\ i <= Len(Kinds)
  <2>1. k \in DOMAIN Kinds /\ opt.fver \in FVer
    BY DEF TypeOK
  <2> QED BY <2>1, Names, Distinct, KindsAssumption DEF Here, Fver
<1> SUFFICES ASSUME NEW j \in DOMAIN Kinds
             PROVE  /\ pc' = "aside" /\ j < k' => Image(Kinds[j])' = None
                    /\ pc' = "copy" /\ j > k' => Image(Kinds[j])' = None
                    /\ pc' = "copy" /\ j = k' => Image(Kinds[j])' \in {None, Partial}
                    /\ pc' = "copy" /\ j < k' => Image(Kinds[j])' = runs'
                    /\ pc' \in {"link", "ln", "done"} => Image(Kinds[j])' = runs'
  BY DEF Installed
<1>1. CASE pc' \notin {"aside", "copy", "link", "ln", "done"}
  BY <1>1
<1>2. CASE \E fver \in FVer, o \in Overwrite, t \in Tidy : Start(fver, o, t)
  BY <1>0, <1>2 DEF Start, Goto
<1>3. CASE TidyModules
  BY <1>0, <1>3 DEF TidyModules, Goto
<1>4. CASE Aside
  <2>0. pc = "aside" /\ UNCHANGED <<opt, runs>>
    BY <1>4 DEF Aside
  <2>1. CASE InTheWay(0)
    <3>1. UNCHANGED <<pc, k>>
      BY <1>4, <2>1 DEF Aside
    <3>2. PICK d \in Depth : 
              \A kind \in Kind, n \in Name :
                   file'[kind][n] = IF kind = Here /\ n = <<Fver, d>> THEN None
                                    ELSE IF kind = Here /\ n = <<Fver, d + 1>> THEN file[Here][<<Fver, d>>]
                                    ELSE file[kind][n]
      BY <1>4, <2>1, AsideSteps
    <3>3. j < k => file'[Kinds[j]][<<Fver, 0>>] = file[Kinds[j]][<<Fver, 0>>]
      BY <1>0, <3>2
    <3> QED BY <2>0, <3>1, <3>3 DEF Installed, Image, Fver
  <2>2. CASE ~InTheWay(0)
    <3>1. LoopThen("copy") /\ UNCHANGED file
      BY <1>4, <2>2 DEF Aside
    <3>2. Image(Here) = None
      BY <2>2 DEF InTheWay, Image
    <3>3. Image(Kinds[j])' = Image(Kinds[j])
      BY <2>0, <3>1 DEF Image, Fver
    <3> QED BY <1>0, <2>0, <3>1, <3>2, <3>3, LoopSteps DEF Installed
  <2> QED BY <2>1, <2>2
<1>5. CASE Copy
  <2>0. pc = "copy" /\ UNCHANGED <<opt, runs>>
    BY <1>5 DEF Copy
  <2>1. Image(Kinds[j])' = IF Kinds[j] = Here THEN IF Image(Here) = None THEN Partial ELSE runs ELSE Image(Kinds[j])
    BY <1>0, <1>5, <2>0, CopySteps DEF Image, Fver
  <2>2. CASE Image(Here) = None
    <3>1. UNCHANGED <<pc, k>>
      BY <1>5, <2>2 DEF Copy, Image
    <3> QED BY <1>0, <2>0, <2>1, <2>2, <3>1 DEF Installed
  <2>3. CASE Image(Here) # None
    <3>1. LoopThen("link")
      BY <1>5, <2>3 DEF Copy, Image
    <3> QED BY <1>0, <2>0, <2>1, <2>3, <3>1, LoopSteps DEF Installed
  <2> QED BY <2>2, <2>3
<1>6. CASE MoveLink \/ MakeLink
  <2>1. pc \in {"link", "ln"} /\ pc' \in {"link", "ln", "done"} /\ UNCHANGED <<file, opt, runs>>
    BY <1>6, MakeLinkSteps DEF MoveLink, MakeLink
  <2> QED BY <2>1 DEF Installed, Image, Fver
<1>7. CASE TidyImage
  <2>1. pc' \in {"tidyImage", "tidyModules"}
    BY <1>7, LoopSteps DEF TidyImage
  <2> QED BY <1>1, <2>1
<1>8. CASE Exit \/ Abort
  BY <1>1, <1>8 DEF Exit, Abort, Goto
<1> QED BY <1>2, <1>3, <1>4, <1>5, <1>6, <1>7, <1>8 DEF Next

LEMMA RelinkedKept == ASSUME TypeOK, Relinked, Next PROVE Relinked'
<1>0. /\ k \in DOMAIN Kinds /\ Here = Kinds[k] /\ Here \in Kind /\ Fver \in FVer
      /\ \A i, j \in DOMAIN Kinds : Kinds[i] = Kinds[j] <=> i = j
      /\ \A i \in DOMAIN Kinds : Kinds[i] \in Kind /\ i \in Nat /\ i >= 1 /\ i <= Len(Kinds)
  <2>1. k \in DOMAIN Kinds /\ opt.fver \in FVer
    BY DEF TypeOK
  <2> QED BY <2>1, Names, Distinct, KindsAssumption DEF Here, Fver
<1> SUFFICES ASSUME NEW j \in DOMAIN Kinds
             PROVE  /\ pc' \in {"tidyImage", "tidyModules", "aside", "copy"} => link'[Kinds[j]] = was'[Kinds[j]].link
                    /\ pc' \in {"link", "ln"} /\ j > k' => link'[Kinds[j]] = was'[Kinds[j]].link
                    /\ pc' \in {"link", "ln"} /\ j < k' => link'[Kinds[j]] = Linked(Kinds[j])'
                    /\ pc' = "link" /\ j = k' => link'[Kinds[j]] = was'[Kinds[j]].link
                    /\ pc' = "ln" /\ j = k' => link'[Kinds[j]] = Moved(Kinds[j])' /\ Moves(Kinds[j])'
                    /\ pc' = "done" => link'[Kinds[j]] = Linked(Kinds[j])'
  BY DEF Relinked
<1>1. CASE \E fver \in FVer, o \in Overwrite, t \in Tidy : Start(fver, o, t)
  <2>1. was' = Seen /\ UNCHANGED link /\ pc' \in {"tidyImage", "aside"}
    BY <1>1 DEF Start, Goto
  <2>2. was'[Kinds[j]].link = link[Kinds[j]]
    BY <1>0, <2>1, SeenType
  <2> QED BY <2>1, <2>2
<1>2. ASSUME opt' = opt /\ was' = was
      PROVE  Linked(Kinds[j])' = Linked(Kinds[j]) /\ Moved(Kinds[j])' = Moved(Kinds[j]) /\ Moves(Kinds[j])' = Moves(Kinds[j])
  BY <1>2 DEF Linked, Moved, Moves, Fver
<1>3. CASE TidyImage \/ TidyModules \/ Aside \/ Copy
  <2>1. UNCHANGED <<link, was>> /\ pc \in {"tidyImage", "tidyModules", "aside", "copy"}
    BY <1>3 DEF TidyImage, TidyModules, Aside, Copy, ghosts
  <2>2. /\ pc' \in {"tidyImage", "tidyModules", "aside", "copy", "link"}
        /\ pc' = "link" => k' = 1
    <3>1. CASE TidyImage
      BY <3>1, LoopSteps DEF TidyImage
    <3>2. CASE TidyModules
      BY <3>2 DEF TidyModules, Goto
    <3>3. CASE Aside
      BY <3>3, LoopSteps DEF Aside
    <3>4. CASE Copy
      BY <3>4, LoopSteps DEF Copy
    <3> QED BY <1>3, <3>1, <3>2, <3>3, <3>4
  <2> QED BY <1>0, <2>1, <2>2 DEF Relinked
<1>4. CASE MoveLink
  <2>1. pc = "link" /\ pc' = "ln" /\ k' = k /\ opt' = opt /\ was' = was /\ MovesLink
    BY <1>4 DEF MoveLink, ghosts
  <2>2. link[Here] = was[Here].link
    BY <1>0, <2>1 DEF Relinked
  <2>3. Moves(Here) /\ link'[Here] = Moved(Here)
    BY <1>4, <2>1, <2>2, LinkSteps DEF Moves, Moved, MovesLink, NeedsLink
  <2>4. Kinds[j] # Here => link'[Kinds[j]] = link[Kinds[j]]
    BY <1>0, <1>4, LinkSteps
  <2> QED BY <1>0, <1>2, <2>1, <2>3, <2>4 DEF Relinked
<1>5. CASE MakeLink
  <2>1. pc \in {"link", "ln"} /\ opt' = opt /\ was' = was
    BY <1>5 DEF MakeLink, ghosts
  <2>2. link'[Here] = [cur |-> Fver, old |-> link[Here].old]
    BY <1>5, LinkSteps
  <2>3. link'[Here] = Linked(Here)
    <3>1. CASE pc = "ln"
      <4>1. link[Here] = Moved(Here) /\ Moves(Here)
        BY <1>0, <3>1 DEF Relinked
      <4>2. link[Here].old = was[Here].link.cur
        BY <4>1 DEF Moved
      <4> QED BY <2>2, <4>1, <4>2 DEF Linked
    <3>2. CASE pc = "link"
      <4>1. link[Here] = was[Here].link /\ ~MovesLink
        BY <1>0, <1>5, <3>2 DEF Relinked, MakeLink
      <4>2. ~Moves(Here)
        BY <4>1 DEF Moves, MovesLink, NeedsLink
      <4> QED BY <2>2, <4>1, <4>2 DEF Linked
    <3> QED BY <2>1, <3>1, <3>2
  <2>4. Kinds[j] # Here => link'[Kinds[j]] = link[Kinds[j]]
    BY <1>0, <1>5, LinkSteps
  <2> QED BY <1>0, <1>2, <1>5, <2>1, <2>3, <2>4, MakeLinkSteps DEF Relinked
<1>6. CASE Exit \/ Abort
  BY <1>6 DEF Exit, Abort, Goto
<1> QED BY <1>1, <1>3, <1>4, <1>5, <1>6 DEF Next

LEMMA WasTypes ==
  ASSUME TypeOK, NEW kind \in Kind
  PROVE  /\ was[kind].link.cur \in FVer \cup {NoLink} /\ was[kind].link.old \in FVer \cup {NoLink}
         /\ was[kind].cur \in Content /\ was[kind].old \in Content
         /\ TidyLink(opt.overwrite) \in {"cur", "old"}
         /\ link[kind].cur \in FVer \cup {NoLink} /\ link[kind].old \in FVer \cup {NoLink}
<1>1. was[kind] \in [link : Links, cur : Content, old : Content] /\ link[kind] \in Links
  BY DEF TypeOK
<1>2. was[kind].link \in Links /\ was[kind].cur \in Content /\ was[kind].old \in Content
  BY <1>1
<1> QED BY <1>1, <1>2 DEF Links, TidyLink

(* A step of a run changes only the name it installs and the one it tidies *)
(* away.                                                                   *)
LEMMA SparedStays ==
  ASSUME TypeOK, Relinked, Booting, pc # "idle", Next,
         NEW kind \in Kind, NEW name \in FVer \cup {NoLink}, Spared(kind, name)
  PROVE  Value(kind, name)' = Value(kind, name)
<1>1. /\ name = NoLink \/ <<name, 0>> \in Name
      /\ \A d : <<name, 0>> # <<Fver, d>>
      /\ Here \in Kind /\ k \in DOMAIN Kinds /\ 0 \in Depth
  BY Names DEF Spared, TypeOK
<1>2. CASE TidyImage
  <2>1. pc = "tidyImage" /\ opt.tidy
    BY <1>2 DEF TidyImage, Booting
  <2>2. link[Here] = was[Here].link
    BY <1>1, <2>1 DEF Relinked, Here
  <2>3. name = NoLink \/ file'[kind][<<name, 0>>] = file[kind][<<name, 0>>]
    <3>1. CASE kind # Here
      BY <1>1, <1>2, <3>1, TidyImageSteps
    <3>2. CASE kind = Here
      <4>1. <<name, 0>> # <<link[Here][TidyLink(opt.overwrite)], 0>>
        BY <2>1, <2>2, <3>2 DEF Spared
      <4> QED BY <1>1, <1>2, <4>1, TidyImageSteps
    <3> QED BY <3>1, <3>2
  <2> QED BY <2>3 DEF Value
<1>3. CASE Aside /\ InTheWay(0)
  BY <1>1, <1>3, AsideSteps DEF Value
<1>4. CASE Copy
  BY <1>1, <1>4, CopySteps DEF Value
<1>5. CASE UNCHANGED file
  BY <1>5 DEF Value
<1>6. ~\E fver \in FVer, o \in Overwrite, t \in Tidy : Start(fver, o, t)
  BY DEF Start
<1> QED
  BY <1>2, <1>3, <1>4, <1>5, <1>6 DEF Next, TidyModules, Aside, MoveLink, MakeLink, Exit, Abort, disk

LEMMA KeptKept == ASSUME TypeOK, Relinked, Booting, Kept, Next PROVE Kept'
<1> SUFFICES ASSUME pc' # "idle", NEW kind \in Kind
             PROVE  /\ Spared(kind, was[kind].link.cur)' => Value(kind, was[kind].link.cur)' = was'[kind].cur
                    /\ Spared(kind, was[kind].link.old)' => Value(kind, was[kind].link.old)' = was'[kind].old
  BY DEF Kept
<1>1. CASE \E fver \in FVer, o \in Overwrite, t \in Tidy : Start(fver, o, t)
  <2>1. was' = Seen /\ UNCHANGED <<file, link>>
    BY <1>1 DEF Start
  <2>2. was'[kind].link = link[kind]
    BY <2>1, SeenType
  <2>3. was'[kind].cur = Value(kind, link[kind].cur) /\ was'[kind].old = Value(kind, link[kind].old)
    BY <2>1, SeenType
  <2>4. \A name : (IF name = NoLink THEN None ELSE file'[kind][<<name, 0>>]) = Value(kind, name)
    BY <2>1 DEF Value
  <2> QED BY <2>2, <2>3, <2>4 DEF Value
<1>2. CASE pc # "idle"
  <2>1. opt' = opt /\ was' = was
    BY <1>2 DEF Next, Start, TidyImage, TidyModules, Aside, Copy, MoveLink, MakeLink, Exit, Abort, ghosts
  <2>3. was[kind].link.cur \in FVer \cup {NoLink} /\ was[kind].link.old \in FVer \cup {NoLink}
    BY WasTypes
  <2>4. Spared(kind, was[kind].link.cur)' => Value(kind, was[kind].link.cur)' = was'[kind].cur
    <3> DEFINE name == was[kind].link.cur
    <3>1. Spared(kind, name)' => Spared(kind, name)
      BY <2>1 DEF Spared, Fver
    <3>2. Spared(kind, name) => Value(kind, name) = was[kind].cur
      BY <1>2 DEF Kept
    <3>3. Spared(kind, name) => (IF name = NoLink THEN None ELSE file'[kind][<<name, 0>>]) = Value(kind, name)
      <4> HIDE DEF name
      <4>1. name \in FVer \cup {NoLink}
        BY <2>3 DEF name
      <4> QED BY <1>2, <4>1, SparedStays DEF Value
    <3> QED BY <2>1, <3>1, <3>2, <3>3 DEF Value
  <2>5. Spared(kind, was[kind].link.old)' => Value(kind, was[kind].link.old)' = was'[kind].old
    <3> DEFINE name == was[kind].link.old
    <3>1. Spared(kind, name)' => Spared(kind, name)
      BY <2>1 DEF Spared, Fver
    <3>2. Spared(kind, name) => Value(kind, name) = was[kind].old
      BY <1>2 DEF Kept
    <3>3. Spared(kind, name) => (IF name = NoLink THEN None ELSE file'[kind][<<name, 0>>]) = Value(kind, name)
      <4> HIDE DEF name
      <4>1. name \in FVer \cup {NoLink}
        BY <2>3 DEF name
      <4> QED BY <1>2, <4>1, SparedStays DEF Value
    <3> QED BY <2>1, <3>1, <3>2, <3>3 DEF Value
  <2> QED BY <2>4, <2>5
<1>3. CASE pc = "idle"
  BY <1>1, <1>3 DEF Next, TidyImage, TidyModules, Aside, Copy, MoveLink, MakeLink, Exit, Abort
<1> QED BY <1>2, <1>3

(* The two kernels a run leaves the links at, once it is through.          *)
LEMMA LinksLeft ==
  ASSUME TypeOK, Installed, Relinked, Kept, NEW kind \in Kind, pc = "done"
  PROVE  /\ link[kind].cur = Fver /\ Resolve(kind, "cur") = runs /\ Complete(runs)
         /\ link[kind].old = IF Moves(kind) THEN was[kind].link.cur ELSE was[kind].link.old
         /\ Spared(kind, link[kind].old) =>
              Resolve(kind, "old") = IF Moves(kind) THEN was[kind].cur ELSE was[kind].old
         /\ ~opt.overwrite /\ ~opt.tidy /\ Fver[1] \in modules /\ Healthy(was[kind]) => Healthy(Seen[kind])
<1>1. PICK j \in DOMAIN Kinds : kind = Kinds[j]
  BY DEF Kind
<1>2. link[kind] = Linked(kind) /\ Image(kind) = runs
  BY <1>1 DEF Relinked, Installed
<1>3. link[kind].cur = Fver /\ link[kind].old = IF Moves(kind) THEN was[kind].link.cur ELSE was[kind].link.old
  BY <1>2 DEF Linked
<1>4. Fver \in FVer /\ Fver # NoLink
  <2>1. opt.fver \in FVer
    BY DEF TypeOK
  <2> QED BY <2>1, Names DEF Fver
<1>5. Resolve(kind, "cur") = runs
  BY <1>2, <1>3, <1>4 DEF Resolve, Image
<1>6. Complete(runs)
  <2>1. runs \in 0..MaxRuns
    BY DEF TypeOK
  <2> QED BY <2>1, BoundsAssumption DEF Complete, Partial
<1>7. Resolve(kind, "old") = Value(kind, link[kind].old)
  BY SeenType
<1>8. Spared(kind, link[kind].old) => Resolve(kind, "old") = IF Moves(kind) THEN was[kind].cur ELSE was[kind].old
  BY <1>3, <1>7 DEF Kept
<1>9. ASSUME ~opt.overwrite, ~opt.tidy, Fver[1] \in modules, Healthy(was[kind]) PROVE Healthy(Seen[kind])
  <2>1. was[kind].link.cur # NoLink /\ was[kind].link.old # NoLink /\ was[kind].link.cur # was[kind].link.old
    BY <1>9 DEF Healthy, Boots
  <2>2. link[kind].old # Fver /\ Spared(kind, link[kind].old)
    BY <1>3, <1>9, <2>1 DEF Moves, Spared
  <2>3. Seen[kind].link = link[kind] /\ Seen[kind].cur = runs /\ Seen[kind].old = Resolve(kind, "old")
    BY <1>5, SeenType
  <2>4. Boots(link[kind].old, Resolve(kind, "old"))
    BY <1>3, <1>8, <1>9, <2>2 DEF Healthy
  <2>5. Boots(link[kind].cur, runs)
    BY <1>3, <1>4, <1>6, <1>9 DEF Boots
  <2> QED BY <1>3, <2>2, <2>3, <2>4, <2>5 DEF Healthy
<1> QED BY <1>3, <1>5, <1>6, <1>8, <1>9

LEMMA BootingKept == ASSUME "bzImage" \in Kind, TypeOK, Installed, Relinked, Kept, Booting, Next PROVE Booting'
<1> DEFINE K == "bzImage"
<1>1. CASE \E fver \in FVer, o \in Overwrite, t \in Tidy : Start(fver, o, t)
  <2>1. PICK fver \in FVer, o \in Overwrite, t \in Tidy : Start(fver, o, t)
    BY <1>1
  <2>2. /\ pc = "idle" /\ opt' = [fver |-> fver, overwrite |-> o, tidy |-> t]
        /\ modules' = modules \cup {fver[1]} /\ was' = Seen /\ aborts' = aborts
        /\ plain' = (plain /\ ~o /\ ~t)
        /\ pc' = IF t THEN "tidyImage" ELSE "aside"
    BY <2>1 DEF Start, Goto
  <2>3. o \in BOOLEAN /\ t \in BOOLEAN
    BY SwitchAssumption
  <2>4. opt'.fver = fver /\ opt'.overwrite = o /\ opt'.tidy = t
    BY <2>2
  <2>5. pc' \in {"tidyImage", "tidyModules"} => opt'.tidy
    BY <2>2, <2>3, <2>4
  <2>6. plain' => ~opt'.overwrite /\ ~opt'.tidy
    BY <2>2, <2>3, <2>4
  <2>7. opt'.fver[1] \in modules'
    BY <2>2, <2>4
  <2>8. plain' /\ aborts' = 0 => Healthy(was[K])'
    BY <2>2 DEF Booting, Healthy, Boots
  <2>9. pc' # "idle"
    BY <2>2
  <2> QED BY <2>5, <2>6, <2>7, <2>8, <2>9 DEF Booting, Fver
<1>2. CASE pc # "idle" /\ pc' # "idle"
  <2>1. opt' = opt /\ was' = was /\ plain' = plain /\ aborts' = aborts
    BY <1>2 DEF Next, Start, TidyImage, TidyModules, Aside, Copy, MoveLink, MakeLink, Exit, Abort, ghosts, Goto
  <2>2. pc' \in {"tidyImage", "tidyModules"} => pc \in {"tidyImage", "tidyModules"}
    BY <1>2, LoopSteps, MakeLinkSteps DEF Next, Start, TidyImage, TidyModules, Aside, Copy, MoveLink, Exit, Abort, Goto
  <2>3. opt.tidy \/ modules' = modules
    BY <1>2 DEF Booting, Next, Start, TidyImage, TidyModules, Aside, Copy, MoveLink, MakeLink, Exit, Abort, disk
  <2>4. plain => ~opt.tidy /\ ~opt.overwrite
    BY <1>2 DEF Booting
  <2>5. plain /\ aborts = 0 => Healthy(was[K])
    BY <1>2 DEF Booting
  <2>6. plain' /\ aborts' = 0 => Healthy(was[K])'
    BY <2>1, <2>3, <2>4, <2>5 DEF Healthy, Boots
  <2>7. pc' \in {"tidyImage", "tidyModules"} => opt.tidy
    BY <2>2 DEF Booting
  <2>8. Fver[1] \in modules' \/ opt.tidy
    BY <1>2, <2>3 DEF Booting
  <2> QED BY <1>2, <2>1, <2>4, <2>6, <2>7, <2>8 DEF Booting, Fver
<1>3. CASE Exit
  <2>1. pc = "done" /\ pc' = "idle" /\ UNCHANGED <<file, link, modules, opt, aborts, was, plain>>
    BY <1>3 DEF Exit, Goto, disk, ghosts
  <2>2. ASSUME plain, aborts = 0 PROVE Healthy(Seen[K])
    <3>1. Healthy(was[K]) /\ ~opt.overwrite /\ ~opt.tidy /\ Fver[1] \in modules
      BY <2>1, <2>2 DEF Booting
    <3> QED BY <2>1, <3>1, LinksLeft
  <2>3. plain /\ aborts = 0 => Healthy(Seen[K])
    BY <2>2
  <2>4. Seen' = Seen
    BY <2>1 DEF Seen, Resolve
  <2>5. plain' /\ aborts' = 0 => Healthy(Seen[K])'
    BY <2>1, <2>3, <2>4 DEF Healthy, Boots
  <2> QED BY <2>1, <2>5 DEF Booting
<1>4. CASE Abort
  <2>1. aborts' # 0 /\ pc' = "idle"
    BY <1>4 DEF Abort, Goto, TypeOK
  <2> QED BY <2>1 DEF Booting
<1>5. CASE pc = "idle"
  BY <1>1, <1>5 DEF Next, TidyImage, TidyModules, Aside, Copy, MoveLink, MakeLink, Exit, Abort
<1>6. CASE pc' = "idle"
  <2>1. ~TidyImage /\ ~Aside /\ ~Copy /\ ~TidyModules /\ ~MoveLink /\ ~MakeLink
    BY <1>6, LoopSteps, MakeLinkSteps DEF TidyImage, TidyModules, Aside, Copy, MoveLink, Goto
  <2> QED BY <1>1, <1>3, <1>4, <2>1 DEF Next
<1> QED BY <1>2, <1>5, <1>6

(* Wherever the first run that is cut short stops, one of the two links is *)
(* as good as it was before or leads to the new image.                     *)
BootsNow == \E l \in {"cur", "old"} : Complete(Resolve("bzImage", l)) /\ link["bzImage"][l][1] \in modules

LEMMA BootsInside ==
  ASSUME "bzImage" \in Kind, TypeOK, Installed, Relinked, Kept, Booting, pc # "idle", plain, aborts = 0
  PROVE  BootsNow
<1> DEFINE K == "bzImage"
<1>1. Healthy(was[K]) /\ ~opt.overwrite /\ ~opt.tidy /\ Fver[1] \in modules
  BY DEF Booting
<1>2. PICK j \in DOMAIN Kinds : K = Kinds[j]
  BY DEF Kind
<1>3. k \in DOMAIN Kinds /\ k \in Nat /\ j \in Nat
  BY Distinct, KindsAssumption DEF TypeOK
<1>4. Complete(runs)
  <2>1. runs \in 0..MaxRuns
    BY DEF TypeOK
  <2> QED BY <2>1, BoundsAssumption DEF Complete, Partial
<1>5. Fver # NoLink
  <2>1. opt.fver \in FVer
    BY DEF TypeOK
  <2> QED BY <2>1, Names DEF Fver
<1>6. /\ was[K].link.cur # NoLink /\ was[K].link.old # NoLink /\ was[K].link.cur # was[K].link.old
      /\ Complete(was[K].cur) /\ was[K].link.cur[1] \in modules
      /\ Complete(was[K].old) /\ was[K].link.old[1] \in modules
  BY <1>1 DEF Healthy, Boots
<1>7. /\ was[K].link.cur # Fver => Value(K, was[K].link.cur) = was[K].cur
      /\ was[K].link.old # Fver => Value(K, was[K].link.old) = was[K].old
  BY <1>1 DEF Kept, Spared
<1>8. Resolve(K, "cur") = Value(K, link[K].cur) /\ Resolve(K, "old") = Value(K, link[K].old)
  BY SeenType
<1>9. SUFFICES \/ Complete(Value(K, link[K].cur)) /\ link[K].cur[1] \in modules
               \/ Complete(Value(K, link[K].old)) /\ link[K].old[1] \in modules
  BY <1>8 DEF BootsNow
<1>10. CASE link[K] = was[K].link
  BY <1>6, <1>7, <1>10
<1>11. CASE link[K] = Moved(K) /\ Moves(K)
  <2>1. link[K].old = was[K].link.cur /\ was[K].link.cur # Fver
    BY <1>11 DEF Moved, Moves
  <2> QED BY <1>6, <1>7, <2>1
<1>12. CASE link[K] = Linked(K) /\ Image(K) = runs
  <2>1. link[K].cur = Fver
    BY <1>12 DEF Linked
  <2>2. Value(K, Fver) = runs
    BY <1>5, <1>12 DEF Value, Image
  <2> QED BY <1>1, <1>4, <2>1, <2>2
<1>13. pc \in {"link", "ln", "done"} => Image(K) = runs
  BY <1>2 DEF Installed
<1>14. \/ link[K] = was[K].link
       \/ link[K] = Moved(K) /\ Moves(K)
       \/ link[K] = Linked(K) /\ pc \in {"link", "ln", "done"}
  <2>1. pc \in {"tidyImage", "tidyModules", "aside", "copy", "link", "ln", "done"}
    BY DEF TypeOK
  <2>2. j < k \/ j = k \/ j > k
    BY <1>3
  <2> QED BY <1>2, <2>1, <2>2 DEF Relinked
<1> QED BY <1>10, <1>11, <1>12, <1>13, <1>14

(* A run that is through leaves the new image at KIND, whatever the runs   *)
(* before it have left.                                                    *)
LEMMA BootsAfter ==
  ASSUME "bzImage" \in Kind, TypeOK, Installed, Relinked, Kept, Booting, pc = "done", plain
  PROVE  BootsNow
<1>1. link["bzImage"].cur = Fver /\ Resolve("bzImage", "cur") = runs /\ Complete(runs)
  BY LinksLeft
<1>2. Fver[1] \in modules
  BY DEF Booting
<1>3. link["bzImage"]["cur"] = Fver
  BY <1>1
<1> QED BY <1>1, <1>2, <1>3 DEF BootsNow

LEMMA BootableKept ==
  ASSUME "bzImage" \in Kind, MaxAborts <= 1, TypeOK, Installed, Relinked, Kept, Booting, Bootable, Next
  PROVE  Bootable'
<1> SUFFICES ASSUME plain', pc' = "idle" PROVE BootsNow'
  BY DEF Bootable, BootsNow
<1>1. CASE Exit
  <2>1. pc = "done" /\ UNCHANGED <<file, link, modules, plain>>
    BY <1>1 DEF Exit, disk, ghosts
  <2>2. BootsNow
    BY <2>1, BootsAfter
  <2> QED BY <2>1, <2>2 DEF BootsNow, Resolve
<1>2. CASE Abort
  <2>1. pc # "idle" /\ UNCHANGED <<file, link, modules, plain>>
    BY <1>2 DEF Abort, disk, ghosts
  <2>2. aborts = 0
    BY <1>2, BoundsAssumption DEF Abort, TypeOK
  <2>3. BootsNow
    BY <2>1, <2>2, BootsInside
  <2> QED BY <2>1, <2>3 DEF BootsNow, Resolve
<1>3. ~TidyImage /\ ~Aside /\ ~Copy /\ ~TidyModules /\ ~MoveLink /\ ~MakeLink
  BY LoopSteps, MakeLinkSteps DEF TidyImage, TidyModules, Aside, Copy, MoveLink, Goto
<1>4. ~\E fver \in FVer, o \in Overwrite, t \in Tidy : Start(fver, o, t)
  BY DEF Start, Goto
<1> QED BY <1>1, <1>2, <1>3, <1>4 DEF Next

-----------------------------------------------------------------------------
(* The two kernels of the beginning.                                       *)
LEMMA Beginning ==
  ASSUME Init
  PROVE  /\ TypeOK /\ Installed /\ Relinked /\ Kept
         /\ "bzImage" \in Kind => Booting /\ Bootable
<1>1. PICK cur, old \in FVer :
        /\ cur # old
        /\ link = [kind \in Kind |-> [cur |-> cur, old |-> old]]
        /\ file = [kind \in Kind |-> [name \in Name |->
                     CASE name = <<cur, 0>> -> 0 [] name = <<old, 0>> -> -1 [] OTHER -> None]]
        /\ modules = {cur[1], old[1]}
        /\ pc = "idle" /\ k = 1 /\ runs = 0 /\ aborts = 0
        /\ opt = [fver |-> cur, overwrite |-> FALSE, tidy |-> FALSE]
        /\ was = Seen /\ plain = TRUE
  BY DEF Init
<1> DEFINE Contents(name) == CASE name = <<cur, 0>> -> 0 [] name = <<old, 0>> -> -1 [] OTHER -> None
<1>2. /\ \A name \in Name : Contents(name) \in Content
      /\ Contents(<<cur, 0>>) = 0 /\ Contents(<<old, 0>>) = -1
      /\ <<cur, 0>> \in Name /\ <<old, 0>> \in Name
      /\ cur # NoLink /\ old # NoLink /\ cur[1] \in Ver /\ old[1] \in Ver
  BY <1>1, Names, BoundsAssumption DEF Content, None, FVer
<1>3. file = [kind \in Kind |-> [name \in Name |-> Contents(name)]]
  BY <1>1
<1> HIDE DEF Contents
<1>4. file \in [Kind -> [Name -> Content]] /\ link \in [Kind -> Links] /\ modules \subseteq Ver
  BY <1>1, <1>2, <1>3 DEF Links
<1>5. \A kind \in Kind : /\ link[kind].cur = cur /\ link[kind].old = old
                         /\ Value(kind, cur) = 0 /\ Value(kind, old) = -1
  BY <1>1, <1>2, <1>3 DEF Value
<1>6. 1 \in DOMAIN Kinds /\ runs \in 0..MaxRuns /\ aborts \in 0..MaxAborts
  BY <1>1, KindsAssumption, BoundsAssumption
<1>7. opt \in [fver : FVer, overwrite : BOOLEAN, tidy : BOOLEAN] /\ plain \in BOOLEAN
  BY <1>1
<1>8. \A kind \in Kind : /\ link[kind] \in Links
                         /\ Resolve(kind, "cur") = 0 /\ Resolve(kind, "old") = -1
  BY <1>1, <1>2, <1>4, <1>5 DEF Resolve, Value
<1>9. Seen \in [Kind -> [link : Links, cur : Content, old : Content]]
  <2>1. 0 \in Content /\ -1 \in Content
    BY BoundsAssumption DEF Content
  <2> QED BY <1>8, <2>1 DEF Seen
<1>10. TypeOK
  BY <1>1, <1>4, <1>6, <1>7, <1>9 DEF TypeOK
<1>11. Installed /\ Relinked /\ Kept
  BY <1>1 DEF Installed, Relinked, Kept
<1>12. ASSUME "bzImage" \in Kind PROVE Booting /\ Bootable
  <2> DEFINE K == "bzImage"
  <2>1. Seen[K].link = link[K] /\ Seen[K].cur = 0 /\ Seen[K].old = -1
    BY <1>8, <1>12 DEF Seen
  <2>2. Complete(0) /\ Complete(-1)
    BY DEF Complete, Partial
  <2>3. Healthy(Seen[K])
    BY <1>1, <1>2, <1>5, <1>12, <2>1, <2>2 DEF Healthy, Boots
  <2>4. Booting
    BY <1>1, <2>3 DEF Booting
  <2>5. link[K]["cur"] = cur /\ Complete(Resolve(K, "cur")) /\ cur[1] \in modules
    BY <1>1, <1>5, <1>8, <1>12, <2>2
  <2>6. Bootable
    BY <2>5 DEF Bootable
  <2> QED BY <2>4, <2>6
<1> QED BY <1>10, <1>11, <1>12

LEMMA Stutter ==
  ASSUME UNCHANGED vars
  PROVE  /\ TypeOK => TypeOK'
         /\ Installed => Installed'
         /\ Relinked => Relinked'
         /\ Kept => Kept'
         /\ Booting => Booting'
         /\ Bootable => Bootable'
<1> USE DEF vars, disk, ghosts
<1>1. UNCHANGED <<file, link, modules, pc, k, opt, runs, aborts, was, plain>>
  OBVIOUS
<1>2. TypeOK => TypeOK'
  BY <1>1 DEF TypeOK
<1>3. Installed => Installed'
  BY <1>1 DEF Installed, Image, Fver
<1>4. Relinked => Relinked'
  BY <1>1 DEF Relinked, Linked, Moved, Moves, Fver
<1>5. Kept => Kept'
  BY <1>1 DEF Kept, Spared, Value, Fver
<1>6. Seen' = Seen
  BY <1>1 DEF Seen, Resolve
<1>7. Booting => Booting'
  BY <1>1, <1>6 DEF Booting, Healthy, Boots, Fver
<1>8. Bootable => Bootable'
  BY <1>1 DEF Bootable, Resolve
<1> QED BY <1>2, <1>3, <1>4, <1>5, <1>7, <1>8

(* What is under a name is nothing, a part of a copy or the build of a     *)
(* run; each loop stays within the kinds.                                  *)
THEOREM Typed == Spec => []TypeOK
<1>1. Init => TypeOK
  BY Beginning
<1>2. TypeOK /\ [Next]_vars => TypeOK'
  BY TypeKept, Stutter
<1> QED BY <1>1, <1>2, PTL DEF Spec

(* The inductive invariant: how far the loops that move aside, copy and    *)
(* link have got, and that what a run has found stays under its name until *)
(* that name is installed or tidied away.                                  *)
Progress == TypeOK /\ Installed /\ Relinked /\ Kept /\ Booting
THEOREM Progresses == ASSUME "bzImage" \in Kind PROVE Spec => []Progress
<1>1. Init => Progress
  BY Beginning DEF Progress
<1>2. Progress /\ Next => Progress'
  BY TypeKept, InstalledKept, RelinkedKept, KeptKept, BootingKept DEF Progress
<1>3. Progress /\ UNCHANGED vars => Progress'
  BY Stutter DEF Progress
<1> QED BY <1>1, <1>2, <1>3, PTL DEF Spec

(* A run that is through has left KIND at what it installed and, where     *)
(* another version was the current one, KIND~ at that one, or with         *)
(* --overwrite at the older kernel it led to before.                       *)
THEOREM LinksNewAndOld == ASSUME "bzImage" \in Kind PROVE Spec => []NewAndOldOfOther
<1>1. Progress => NewAndOldOfOther
  <2> SUFFICES ASSUME Progress, pc = "done", NEW kind \in Kind
               PROVE  /\ Resolve(kind, "cur") = runs
                      /\ was[kind].link.cur \notin {Fver, NoLink, was[kind].link.old} =>
                           IF opt.overwrite
                           THEN was[kind].link.old # Fver => Resolve(kind, "old") = was[kind].old
                           ELSE Resolve(kind, "old") = was[kind].cur
    BY DEF NewAndOldOfOther
  <2>1. /\ Resolve(kind, "cur") = runs
        /\ link[kind].old = IF Moves(kind) THEN was[kind].link.cur ELSE was[kind].link.old
        /\ Spared(kind, link[kind].old) =>
             Resolve(kind, "old") = IF Moves(kind) THEN was[kind].cur ELSE was[kind].old
    BY LinksLeft DEF Progress
  <2>2. opt.overwrite => was[kind].link[TidyLink(opt.overwrite)] = was[kind].link.cur
    BY DEF TidyLink
  <2>3. ~opt.overwrite => was[kind].link[TidyLink(opt.overwrite)] = was[kind].link.old
    BY DEF TidyLink
  <2>4. CASE opt.overwrite
    BY <2>1, <2>2, <2>4 DEF Moves, Spared
  <2>5. CASE ~opt.overwrite
    BY <2>1, <2>3, <2>5 DEF Moves, Spared
  <2> QED BY <2>1, <2>4, <2>5
<1> QED BY <1>1, Progresses, PTL

(* Without --overwrite and --tidy there is always a kernel to boot and its *)
(* modules, whatever versions are installed over whatever links and        *)
(* wherever one of the runs is cut short.                                  *)
THEOREM StaysBootable == ASSUME "bzImage" \in Kind, MaxAborts <= 1 PROVE Spec => []Bootable
<1>1. Init => Bootable
  BY Beginning
<1>2. Progress /\ Bootable /\ Next => Bootable'
  BY BootableKept DEF Progress
<1>3. Bootable /\ UNCHANGED vars => Bootable'
  BY Stutter
<1> QED BY <1>1, <1>2, <1>3, Progresses, PTL DEF Spec

(* No step but the tidying loses a build: mv moves only to a name that is  *)
(* free, and cp writes only where there is nothing or a part of a copy.    *)
THEOREM LosesNothing == ASSUME "bzImage" \in Kind PROVE Spec => NothingLost
<1>1. ASSUME Progress, Next, ~opt.tidy, NEW kind \in Kind, NEW build \in Builds(kind)
      PROVE  build \in Builds(kind)'
  <2>0. /\ k \in DOMAIN Kinds /\ Here = Kinds[k] /\ Here \in Kind /\ Fver \in FVer
        /\ file \in [Kind -> [Name -> Content]] /\ DOMAIN file[kind] = Name
    BY <1>1, Names DEF Progress, TypeOK, Here, Fver
  <2>1. PICK name \in Name : build = file[kind][name] /\ build \notin {None, Partial}
    BY <2>0, <1>1 DEF Builds
  <2>2. CASE UNCHANGED file
    BY <1>1, <2>2 DEF Builds
  <2>3. CASE Aside /\ InTheWay(0)
    <3>1. PICK d \in Depth :
            /\ d + 1 \in Depth /\ file[Here][<<Fver, d + 1>>] = None
            /\ file' \in [Kind -> [Name -> Content]]
            /\ \A K \in Kind, n \in Name :
                 file'[K][n] = IF K = Here /\ n = <<Fver, d>> THEN None
                               ELSE IF K = Here /\ n = <<Fver, d + 1>> THEN file[Here][<<Fver, d>>]
                               ELSE file[K][n]
      BY <1>1, <2>3, AsideSteps DEF Progress
    <3>2. <<Fver, d>> \in Name /\ <<Fver, d + 1>> \in Name /\ <<Fver, d>> # <<Fver, d + 1>>
      <4>1. d # d + 1
        BY DEF Depth
      <4> QED BY <2>0, <3>1, <4>1, Names
    <3>3. CASE kind = Here /\ name = <<Fver, d>>
      <4>1. file'[kind][<<Fver, d + 1>>] = build
        BY <2>0, <2>1, <3>1, <3>2, <3>3
      <4> QED BY <2>1, <3>1, <3>2, <4>1 DEF Builds
    <3>4. CASE ~(kind = Here /\ name = <<Fver, d>>)
      <4>1. file'[kind][name] = build
        BY <2>1, <3>1, <3>4
      <4> QED BY <2>1, <3>1, <4>1 DEF Builds
    <3> QED BY <3>3, <3>4
  <2>4. CASE Copy
    <3>1. /\ file' \in [Kind -> [Name -> Content]]
          /\ \A K \in Kind, n \in Name : ~(K = Here /\ n = <<Fver, 0>>) => file'[K][n] = file[K][n]
      BY <1>1, <2>4, CopySteps DEF Progress
    <3>2. file[Here][<<Fver, 0>>] \in {None, Partial}
      <4>1. pc = "copy"
        BY <2>4 DEF Copy
      <4> QED BY <1>1, <2>0, <4>1 DEF Progress, Installed, Image
    <3>3. ~(kind = Here /\ name = <<Fver, 0>>)
      BY <2>1, <3>2
    <3>4. file'[kind][name] = build
      BY <2>1, <3>1, <3>3
    <3> QED BY <2>1, <3>1, <3>4 DEF Builds
  <2>5. ~TidyImage
    BY <1>1 DEF TidyImage, Progress, Booting
  <2> QED
    BY <1>1, <2>2, <2>3, <2>4, <2>5 DEF Next, Start, TidyModules, Aside, MoveLink, MakeLink, Exit, Abort, disk
<1>2. Progress /\ [Next]_vars => [\A kind \in Kind : ~opt.tidy => Builds(kind) \subseteq Builds(kind)']_vars
  <2>1. Progress /\ Next => \A kind \in Kind : ~opt.tidy => Builds(kind) \subseteq Builds(kind)'
    <3> SUFFICES ASSUME Progress, Next, NEW kind \in Kind, ~opt.tidy
                 PROVE  \A build \in Builds(kind) : build \in Builds(kind)'
      OBVIOUS
    <3> QED BY <1>1
  <2> QED BY <2>1
<1> QED BY <1>2, Progresses, PTL DEF Spec, NothingLost
=============================================================================
