------------------------------- MODULE Tools --------------------------------
(***************************************************************************)
(* The small programs that are proved about, one at a time: tool says      *)
(* which of them a behaviour is one of.  Each has the variables of its     *)
(* module, and those of the others stay at zero; pc belongs to whichever   *)
(* of them runs.                                                           *)
(***************************************************************************)
EXTENDS Integers, Sequences

VARIABLES tool, pc

CONSTANTS Windows, Television, Levels, MaxPipe
VARIABLES pipe, prev, values, opacity, focus, live, gone
Focus == INSTANCE TransFocus

CONSTANT Codes
VARIABLES mode, dir, waits, terminal, given, status, file, session, cwd, alarm, printed
Null == INSTANCE NullDaemon

CONSTANTS MaxAddresses, BufferMax, MaxSignals
VARIABLES peers, next, sock, open, buflen, error, doneProcessing, signals
Connect == INSTANCE MpdConnect

CONSTANTS Second, Delay, MaxNoise, MaxQueue
VARIABLES count, tv, queue, flying, noise, elapsed, heard
Ping == INSTANCE Arpping

CONSTANT Arguments
VARIABLES keep, keepOrig, keepSmaller, overwrite, args, at, disk, forgone
Convert == INSTANCE Gz2bz

CONSTANTS Paths, Values, Names, MaxDirs, PathMax, PathLength, Lengths
VARIABLES env, dirs, entry, path, capacity, pwd, out
Pwd == INSTANCE Tpwd WITH at <- entry

CONSTANTS MaxWords, MaxEnv, MaxChunks
VARIABLES mem, argv, written, found, command, valuesAt, jobs, orig, optind, cpuinfo
Args == INSTANCE ForeachArgs WITH out <- written, values <- valuesAt

ASSUME NoneAssumption     == 0 \notin Windows
ASSUME TimesAssumption    == Second \in Nat /\ Delay \in Nat
ASSUME ArgumentAssumption == Arguments \subseteq Seq(Convert!Name)
ASSUME PathAssumption ==
  Paths \cup Values \cup Names \subseteq Seq(STRING) /\ Lengths \subseteq Nat /\ MaxDirs \in Nat
ASSUME WordAssumption     == MaxWords \in Nat /\ MaxEnv \in Nat /\ MaxChunks \in Nat

-----------------------------------------------------------------------------
\* The variables of each but pc, and all of them.
ofFocus   == <<pipe, prev, values, opacity, focus, live, gone>>
ofNull    == <<mode, dir, waits, terminal, given, status, file, session, cwd, alarm, printed>>
ofConnect == <<peers, next, sock, open, buflen, error, doneProcessing, signals>>
ofPing    == <<count, tv, queue, flying, noise, elapsed, heard>>
ofConvert == <<keep, keepOrig, keepSmaller, overwrite, args, at, disk, forgone>>
ofPwd     == <<env, dirs, entry, path, capacity, pwd, out>>
ofArgs    == <<mem, argv, written, found, command, valuesAt, jobs, orig, optind, cpuinfo>>
ofTools   == <<tool, pc, ofFocus, ofNull, ofConnect, ofPing, ofConvert, ofPwd, ofArgs>>

NoFocus == pipe = 0 /\ prev = 0 /\ values = 0 /\ opacity = 0 /\ focus = 0 /\ live = 0 /\ gone = 0
NoNull ==
  /\ mode = 0 /\ dir = 0 /\ waits = 0 /\ terminal = 0 /\ given = 0 /\ status = 0
  /\ file = 0 /\ session = 0 /\ cwd = 0 /\ alarm = 0 /\ printed = 0
NoConnect ==
  /\ peers = 0 /\ next = 0 /\ sock = 0 /\ open = 0
  /\ buflen = 0 /\ error = 0 /\ doneProcessing = 0 /\ signals = 0
NoPing == count = 0 /\ tv = 0 /\ queue = 0 /\ flying = 0 /\ noise = 0 /\ elapsed = 0 /\ heard = 0
NoConvert ==
  /\ keep = 0 /\ keepOrig = 0 /\ keepSmaller = 0 /\ overwrite = 0
  /\ args = 0 /\ at = 0 /\ disk = 0 /\ forgone = 0
NoPwd == env = 0 /\ dirs = 0 /\ entry = 0 /\ path = 0 /\ capacity = 0 /\ pwd = 0 /\ out = 0
NoArgs ==
  /\ mem = 0 /\ argv = 0 /\ written = 0 /\ found = 0 /\ command = 0
  /\ valuesAt = 0 /\ jobs = 0 /\ orig = 0 /\ optind = 0 /\ cpuinfo = 0

Init ==
  \/ tool = "focus"   /\ Focus!Init /\ pc = 0 /\ NoNull /\ NoConnect /\ NoPing /\ NoConvert /\ NoPwd /\ NoArgs
  \/ tool = "null"    /\ Null!Init /\ NoFocus /\ NoConnect /\ NoPing /\ NoConvert /\ NoPwd /\ NoArgs
  \/ tool = "connect" /\ Connect!Init /\ NoFocus /\ NoNull /\ NoPing /\ NoConvert /\ NoPwd /\ NoArgs
  \/ tool = "arpping" /\ Ping!Init /\ NoFocus /\ NoNull /\ NoConnect /\ NoConvert /\ NoPwd /\ NoArgs
  \/ tool = "gz2bz"   /\ Convert!Init /\ NoFocus /\ NoNull /\ NoConnect /\ NoPing /\ NoPwd /\ NoArgs
  \/ tool = "tpwd"    /\ Pwd!Init /\ NoFocus /\ NoNull /\ NoConnect /\ NoPing /\ NoConvert /\ NoArgs
  \/ tool = "args"    /\ Args!Init /\ NoFocus /\ NoNull /\ NoConnect /\ NoPing /\ NoConvert /\ NoPwd

Next ==
  \/ tool = "focus"   /\ Focus!Next /\ UNCHANGED <<tool, pc, ofNull, ofConnect, ofPing, ofConvert, ofPwd, ofArgs>>
  \/ tool = "null"    /\ Null!Next /\ UNCHANGED <<tool, ofFocus, ofConnect, ofPing, ofConvert, ofPwd, ofArgs>>
  \/ tool = "connect" /\ Connect!Next /\ UNCHANGED <<tool, ofFocus, ofNull, ofPing, ofConvert, ofPwd, ofArgs>>
  \/ tool = "arpping" /\ Ping!Next /\ UNCHANGED <<tool, ofFocus, ofNull, ofConnect, ofConvert, ofPwd, ofArgs>>
  \/ tool = "gz2bz"   /\ Convert!Next /\ UNCHANGED <<tool, ofFocus, ofNull, ofConnect, ofPing, ofPwd, ofArgs>>
  \/ tool = "tpwd"    /\ Pwd!Next /\ UNCHANGED <<tool, ofFocus, ofNull, ofConnect, ofPing, ofConvert, ofArgs>>
  \/ tool = "args"    /\ Args!Next /\ UNCHANGED <<tool, ofFocus, ofNull, ofConnect, ofPing, ofConvert, ofPwd>>

Spec == Init /\ [][Next]_ofTools

-----------------------------------------------------------------------------
(* What each of them promises; its module says it in more words.           *)

(* FvwmTransFocus: only the focused window is as opaque as one can be.     *)
OnlyFocusedActive == tool = "focus" => Focus!OnlyFocusedActive
(* null: the command runs where, and with what descriptors, it was told.   *)
CommandDetached   == tool = "null" => Null!CommandDetached
(* null: it exits as the command did, if it has waited for that.           *)
StatusPassedOn    == tool = "null" => Null!StatusPassedOn
(* mpd_newConnection: without an error the connection can be used.         *)
ConnectionUsable  == tool = "connect" => Connect!ConnectionUsable
(* arpping: it says that the host is up when, and only when, it answers.   *)
AnswerTaken       == tool = "arpping" => Ping!AnswerTaken
(* gz2bz: the data of every file are somewhere on the disk.                *)
OriginalKept      == tool = "gz2bz" => Convert!OriginalKept
(* tpwd: what is printed names the working directory.                      *)
NamesDirectory    == tool = "tpwd" => Pwd!NamesDirectory
(* foreach: the arguments are parsed as they were given.                   *)
ParsedAsGiven     == tool = "args" => Args!ParsedAsGiven
=============================================================================
