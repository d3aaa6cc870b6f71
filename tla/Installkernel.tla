--------------------------- MODULE Installkernel ----------------------------
(***************************************************************************)
(* installkernel: what a run does to /boot and /lib/modules.  For each     *)
(* kind of file (bzImage, System.map, config) there are files named after  *)
(* a version and a build number, copies of them moved aside to ~, ~~, ...  *)
(* and two links, KIND and KIND~.  The script stops at the first command   *)
(* that fails, a signal stops it anywhere, and so does a crash; nothing is *)
(* undone.                                                                 *)
(***************************************************************************)
EXTENDS Integers, Sequences

CONSTANTS
  Kinds,      \* the kinds of file in the script's order
  Ver,        \* kernel versions
  MaxRuns,    \* bound: how often the script is run
  MaxAborts,  \* bound: how many of the runs are cut short
  Overwrite,  \* values tried for --overwrite
  Tidy        \* values tried for --tidy-image and --tidy-modules

ASSUME KindsAssumption ==
  /\ Kinds \in Seq(STRING) /\ Len(Kinds) > 0
  /\ \A i, j \in DOMAIN Kinds : Kinds[i] = Kinds[j] => i = j
ASSUME BoundsAssumption == MaxRuns \in Nat /\ MaxAborts \in Nat
ASSUME SwitchAssumption == Overwrite \subseteq BOOLEAN /\ Tidy \subseteq BOOLEAN

Kind    == {Kinds[i] : i \in DOMAIN Kinds}
FVer    == Ver \X {1, 2}                \* "$VER-#$BUILD"
NoLink  == <<"none", 0>>
Depth   == 0..MaxRuns                   \* how many ~ are behind a file's name
Name    == FVer \X Depth
None    == -3                           \* no such file
Partial == -2                           \* cut short by a failing cp
Content == -3..MaxRuns                  \* or the run whose build it is

VARIABLES
  file,      \* file[kind][<<fver, depth>>]: what is in it
  link,      \* link[kind]["cur"], link[kind]["old"]: the names they hold
  modules,   \* versions that have a directory in /lib/modules
  pc, k,     \* the step of the script, the kind its loop is at
  opt,       \* the run's version and switches
  runs, aborts,
  was,       \* what the links led to when the run began, and whether
  plain      \* no run had --overwrite or --tidy (properties only)

disk == <<file, link, modules>>
ghosts == <<was, plain>>
vars == <<disk, pc, k, opt, runs, aborts, ghosts>>

Resolve(kind, l) == IF link[kind][l] = NoLink THEN None ELSE file[kind][<<link[kind][l], 0>>]
Seen == [kind \in Kind |-> [link |-> link[kind], cur |-> Resolve(kind, "cur"), old |-> Resolve(kind, "old")]]

(* Two kernels are installed, the current and an older one.  *)
Init ==
  \E cur, old \in FVer :
    /\ cur # old
    /\ link = [kind \in Kind |-> [cur |-> cur, old |-> old]]
    /\ file = [kind \in Kind |-> [name \in Name |->
                 CASE name = <<cur, 0>> -> 0 [] name = <<old, 0>> -> -1 [] OTHER -> None]]
    /\ modules = {cur[1], old[1]}
    /\ pc = "idle" /\ k = 1 /\ runs = 0 /\ aborts = 0
    /\ opt = [fver |-> cur, overwrite |-> FALSE, tidy |-> FALSE]
    /\ was = Seen /\ plain = TRUE

Here  == Kinds[k]
Fver  == opt.fver
Goto(step) == pc' = step /\ k' = 1
(* The loops over the kinds.  *)
LoopThen(step) == IF k < Len(Kinds) THEN k' = k + 1 /\ UNCHANGED pc ELSE Goto(step)

(* A run begins: the kernel is built and its modules installed.  *)
Start(fver, overwrite, tidy) ==
  /\ pc = "idle" /\ runs < MaxRuns
  /\ opt' = [fver |-> fver, overwrite |-> overwrite, tidy |-> tidy]
  /\ modules' = modules \cup {fver[1]}
  /\ runs' = runs + 1 /\ was' = Seen
  /\ plain' = (plain /\ ~overwrite /\ ~tidy)
  /\ Goto(IF tidy THEN "tidyImage" ELSE "aside")
  /\ UNCHANGED <<file, link, aborts>>

-----------------------------------------------------------------------------
(* "Removing old images": what KIND~ leads to, or KIND if that is about to *)
(* be overwritten.                                                         *)
TidyLink_Swapped(overwrite) == IF overwrite THEN "old" ELSE "cur"  \* mutant
TidyLink(overwrite) == IF overwrite THEN "cur" ELSE "old"

TidyImage ==
  /\ pc = "tidyImage"
  /\ LET name == <<link[Here][TidyLink(opt.overwrite)], 0>>
     IN file' = IF name \in DOMAIN file[Here] THEN [file EXCEPT ![Here][name] = None] ELSE file
  /\ LoopThen("tidyModules")
  /\ UNCHANGED <<link, modules, opt, runs, aborts, ghosts>>

(* read_version_from_link is called in $(...), which also captures what    *)
(* msg prints there: the text is the message and the version, and no       *)
(* directory has that name.                                                *)
ReadVersionFromLink(l) == <<"READLNK", link["bzImage"][l][1]>>

DirOf(text) == {v \in modules : text = <<v>>}

TidyModules ==
  /\ pc = "tidyModules"
  /\ LET over  == ReadVersionFromLink(TidyLink(~opt.overwrite))
         oover == ReadVersionFromLink(TidyLink(opt.overwrite))
     IN modules' = IF oover # <<Fver[1]>> /\ oover # over THEN modules \ DirOf(oover) ELSE modules
  /\ Goto("aside")
  /\ UNCHANGED <<file, link, opt, runs, aborts, ghosts>>

-----------------------------------------------------------------------------
(* "Installing kernel image".  A file in the way is moved to ~, the one in *)
(* the way of that first, and so on; one mv is one step.                   *)
InTheWay(d) == \A e \in 0..d : file[Here][<<Fver, e>>] # None

MoveAside_OneLevel(d) == InTheWay(d) /\ d = 0  \* mutant: an older ~ is overwritten
MoveAside(d) == InTheWay(d) /\ ~InTheWay(d + 1)

Aside ==
  /\ pc = "aside"
  /\ IF InTheWay(0)
     THEN /\ \E d \in Depth : d + 1 \in Depth /\ MoveAside(d)
               /\ file' = [file EXCEPT ![Here][<<Fver, d + 1>>] = file[Here][<<Fver, d>>],
                                       ![Here][<<Fver, d>>] = None]
          /\ UNCHANGED <<pc, k>>
     ELSE UNCHANGED file /\ LoopThen("copy")
  /\ UNCHANGED <<link, modules, opt, runs, aborts, ghosts>>

Copy ==
  /\ pc = "copy"
  /\ IF file[Here][<<Fver, 0>>] = None
     THEN file' = [file EXCEPT ![Here][<<Fver, 0>>] = Partial] /\ UNCHANGED <<pc, k>>
     ELSE file' = [file EXCEPT ![Here][<<Fver, 0>>] = runs] /\ LoopThen("link")
  /\ UNCHANGED <<link, modules, opt, runs, aborts, ghosts>>

(* The links of one kind, if KIND is not right: mv KIND KIND~ (which may   *)
(* fail), then ln.                                                         *)
NeedsLink_Always == TRUE  \* mutant: the link to this very name is moved too
NeedsLink == link[Here].cur # Fver
MovesLink == NeedsLink /\ ~opt.overwrite /\ link[Here].cur # NoLink

MoveLink ==
  /\ pc = "link" /\ MovesLink
  /\ link' = [link EXCEPT ![Here] = [cur |-> NoLink, old |-> link[Here].cur]]
  /\ pc' = "ln"
  /\ UNCHANGED <<file, modules, k, opt, runs, aborts, ghosts>>

MakeLink ==
  /\ pc = "ln" \/ (pc = "link" /\ ~MovesLink)
  /\ link' = [link EXCEPT ![Here].cur = Fver]
  /\ IF k < Len(Kinds) THEN pc' = "link" /\ k' = k + 1 ELSE Goto("done")
  /\ UNCHANGED <<file, modules, opt, runs, aborts, ghosts>>

Exit ==
  /\ pc = "done" /\ Goto("idle")
  /\ UNCHANGED <<disk, opt, runs, aborts, ghosts>>

(* A command fails, a signal arrives, the machine goes down.  *)
Abort ==
  /\ pc \notin {"idle", "done"} /\ aborts < MaxAborts
  /\ aborts' = aborts + 1
  /\ Goto("idle")
  /\ UNCHANGED <<disk, opt, runs, ghosts>>

Next ==
  \/ \E fver \in FVer, o \in Overwrite, t \in Tidy : Start(fver, o, t)
  \/ TidyImage \/ TidyModules \/ Aside \/ Copy \/ MoveLink \/ MakeLink \/ Exit
  \/ Abort

Spec == Init /\ [][Next]_vars

-----------------------------------------------------------------------------
Links == [cur : FVer \cup {NoLink}, old : FVer \cup {NoLink}]
TypeOK ==
  /\ file \in [Kind -> [Name -> Content]] /\ link \in [Kind -> Links] /\ modules \subseteq Ver
  /\ pc \in {"idle", "tidyImage", "tidyModules", "aside", "copy", "link", "ln", "done"} /\ k \in DOMAIN Kinds
  /\ opt \in [fver : FVer, overwrite : BOOLEAN, tidy : BOOLEAN] /\ plain \in BOOLEAN
  /\ runs \in 0..MaxRuns /\ aborts \in 0..MaxAborts
  /\ was \in [Kind -> [link : Links, cur : Content, old : Content]]

Complete(content) == content > Partial

(* "After the kernel image is installed [...] the new kernel image can be  *)
(* accessed by a /boot/bzImage and the old one by /boot/bzImage~ symlinks. *)
(* The same is with System.map and config files" (installkernel.8:368).    *)
(* For a version that is not the current one, if the links led to          *)
(* different kernels; and with --overwrite the older kernel stays.         *)
NewAndOldOfOther ==
  pc = "done" =>
    \A kind \in Kind :
      /\ Resolve(kind, "cur") = runs
      /\ was[kind].link.cur \notin {Fver, NoLink, was[kind].link.old} =>
           IF opt.overwrite
           THEN was[kind].link.old # Fver => Resolve(kind, "old") = was[kind].old
           ELSE Resolve(kind, "old") = was[kind].cur

(* A run without --overwrite and --tidy never leaves the machine without a *)
(* kernel to boot and its modules, whatever version is installed over      *)
(* whatever links, even if one run is cut short.                           *)
Bootable ==
  plain /\ pc = "idle" =>
    \E l \in {"cur", "old"} : Complete(Resolve("bzImage", l)) /\ link["bzImage"][l][1] \in modules

(* Installing loses nothing but the image under --tidy: what was complete  *)
(* before still is, under its name or a ~ of it.                           *)
Builds(kind) == {file[kind][name] : name \in DOMAIN file[kind]} \ {None, Partial}
NothingLost ==
  [][\A kind \in Kind : ~opt.tidy => Builds(kind) \subseteq Builds(kind)']_vars
=============================================================================
