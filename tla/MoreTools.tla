----------------------------- MODULE MoreTools ------------------------------
(***************************************************************************)
(* More small programs, and the parts of libmpdclient that share nothing   *)
(* with each other, one at a time: which says of which of them a behaviour *)
(* is one.  What they do they do to sequences.  Each has the variables of  *)
(* its module, and those of the others stay at zero.                       *)
(***************************************************************************)
EXTENDS Integers, Sequences, FiniteSets

VARIABLE which

CONSTANTS MaxUptime, MaxSessions
VARIABLES buptime, cuptime, uptime, stage, ran, credited
Uptime == INSTANCE Tuptime WITH pc <- stage, last <- ran

CONSTANTS Phrases, Numbers, IntLen, MaxConstraints
VARIABLES building, finished, sent, meant
Search == INSTANCE MpdSearch WITH
  Names <- Phrases, request <- building, doneProcessing <- finished, asked <- meant

CONSTANT Requests
VARIABLES whole, inList, reply, read, returnElement, over, listOks, doneListOk, failure, part, got, ended
Reply == INSTANCE MpdEntities WITH request <- whole, doneProcessing <- over, error <- failure

CONSTANT MaxInput
VARIABLES input, state, output
Comments == INSTANCE CutCom

CONSTANTS Tracks, MaxPlaylist, Devices, MaxChanges
VARIABLES server, listOpen, listed, lost, dropped, saved, skips, add, place, nextLine, songnum, exit, changes
State == INSTANCE MpdState WITH
  Songs <- Tracks, Outputs <- Devices, inList <- listOpen, list <- listed, file <- saved,
  pc <- place, at <- nextLine

ASSUME PhraseAssumption ==  \* no name has a line end; INTLEN is enough for an int
  /\ Phrases \cup Numbers \subseteq Seq(STRING) /\ IntLen \in Nat
  /\ \A s \in Phrases : \A i \in DOMAIN s : s[i] # Search!LF
  /\ \A n \in Numbers : Len(n) <= IntLen /\ \A i \in DOMAIN n : n[i] \notin Search!Special

ASSUME StateAssumption ==  \* MPD has as many outputs as its configuration names
  MaxPlaylist \in Nat /\ IsFiniteSet(Devices)

-----------------------------------------------------------------------------
\* The variables of each, and all of them.
ofUptime   == <<buptime, cuptime, uptime, stage, ran, credited>>
ofSearch   == <<building, finished, sent, meant>>
ofReply    ==
  <<whole, inList, reply, read, returnElement, over, listOks, doneListOk, failure, part, got, ended>>
ofComments == <<input, state, output>>
ofState    ==
  <<server, listOpen, listed, lost, dropped, saved, skips, add, place, nextLine, songnum, exit, changes>>
ofMore     == <<which, ofUptime, ofSearch, ofReply, ofComments, ofState>>

NoUptime == buptime = 0 /\ cuptime = 0 /\ uptime = 0 /\ stage = 0 /\ ran = 0 /\ credited = 0
NoSearch == building = 0 /\ finished = 0 /\ sent = 0 /\ meant = 0
NoReply ==
  /\ whole = 0 /\ inList = 0 /\ reply = 0 /\ read = 0 /\ returnElement = 0 /\ over = 0
  /\ listOks = 0 /\ doneListOk = 0 /\ failure = 0 /\ part = 0 /\ got = 0 /\ ended = 0
NoComments == input = 0 /\ state = 0 /\ output = 0
NoState ==
  /\ server = 0 /\ listOpen = 0 /\ listed = 0 /\ lost = 0 /\ dropped = 0 /\ saved = 0 /\ skips = 0
  /\ add = 0 /\ place = 0 /\ nextLine = 0 /\ songnum = 0 /\ exit = 0 /\ changes = 0

MoreInit ==
  \/ which = "tuptime"   /\ Uptime!Init   /\ NoSearch /\ NoReply /\ NoComments /\ NoState
  \/ which = "search"    /\ Search!Init   /\ NoUptime /\ NoReply /\ NoComments /\ NoState
  \/ which = "reply"     /\ Reply!Init    /\ NoUptime /\ NoSearch /\ NoComments /\ NoState
  \/ which = "cutcom"    /\ Comments!Init /\ NoUptime /\ NoSearch /\ NoReply /\ NoState
  \/ which = "mpd-state" /\ State!Init    /\ NoUptime /\ NoSearch /\ NoReply /\ NoComments

MoreNext ==
  \/ which = "tuptime"   /\ Uptime!Next   /\ UNCHANGED <<which, ofSearch, ofReply, ofComments, ofState>>
  \/ which = "search"    /\ Search!Next   /\ UNCHANGED <<which, ofUptime, ofReply, ofComments, ofState>>
  \/ which = "reply"     /\ Reply!Next    /\ UNCHANGED <<which, ofUptime, ofSearch, ofComments, ofState>>
  \/ which = "cutcom"    /\ Comments!Next /\ UNCHANGED <<which, ofUptime, ofSearch, ofReply, ofState>>
  \/ which = "mpd-state" /\ State!Next    /\ UNCHANGED <<which, ofUptime, ofSearch, ofReply, ofComments>>

MoreSpec == MoreInit /\ [][MoreNext]_ofMore

-----------------------------------------------------------------------------
(* What each of them promises; its module says it in more words.           *)

(* tuptime: a session is counted once at most, and if tuptime wrote it and *)
(* was not interrupted when writing it again, exactly once.                *)
CountedAtMostOnce == which = "tuptime" => Uptime!CountedAtMostOnce
(* mpd_send*: MPD reads the words that the program has given.              *)
WordsArrive  == which = "search" => Search!WordsArrive
(* mpd_getNext*: the application gets what MPD has, in order and unmixed.  *)
PartAsSent   == which = "reply" => Reply!PartAsSent
(* cutcom: what is left is the program without its comments.               *)
CutsComments == which = "cutcom" => Comments!CutsComments
(* mpd-state: a restore changes MPD with its end, or not at all.           *)
ChangesAtTheEnd == [][which = "mpd-state" => State!OnlyAtTheEnd]_ofMore
(* mpd-state: what a restore does to MPD is what it has read.              *)
RestoredAsRead  == [][which = "mpd-state" => State!AsRead]_ofMore
=============================================================================
