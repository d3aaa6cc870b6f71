------------------------------ MODULE MpdState ------------------------------
(***************************************************************************)
(* mpd-state.c: saves what MPD plays to a file and restores it.  Saving is *)
(* three requests, one after the other; restoring turns the file into one  *)
(* command list, which MPD executes when it ends, up to the first command  *)
(* it refuses.  No call of the list is checked for errors but the last,    *)
(* and each call forgets the error of the one before.  Others may use the  *)
(* same MPD meanwhile, and the file may be edited or cut short.            *)
(***************************************************************************)
EXTENDS Integers, Sequences, SequencesExt

CONSTANTS
  Songs,       \* bound: songs MPD knows
  MaxPlaylist, \* bound: songs in a playlist that MPD has before it is saved
  Outputs,     \* MPD's outputs
  MaxChanges   \* bound: how often somebody else changes MPD or the file

VARIABLES
  server,          \* MPD: playlist, outputs that are enabled, setting, current song or -1
  inList, list,    \* MPD collects a command list: its commands
  lost, dropped,   \* the connection is lost; a command has timed out unsent
  file,            \* the lines saved
  skips, add,      \* the switches -s, -p, -o (what is skipped) and -a of restoring
  pc, at, songnum, \* at: the next line to read
  exit,            \* exit code, -1 before
  changes

mpd      == <<server, inList, list, lost, dropped>>
switches == <<skips, add>>
vars == <<mpd, file, switches, pc, at, songnum, exit, changes>>

Part == {"state", "playlist", "outputs"}
Entry(key, val) == [key |-> key, val |-> val]
Command(name, arg) == [name |-> name, arg |-> arg]
Nothing == Command("none", 0)

Servers ==
  {s \in [playlist : UNION {[1..n -> Songs] : n \in 0..MaxPlaylist}, outputs : SUBSET Outputs,
          setting : {0, 1}, song : -1..MaxPlaylist - 1] : s.song < Len(s.playlist)}

Init ==
  /\ server \in Servers
  /\ inList = FALSE /\ list = <<>> /\ lost = FALSE /\ dropped = FALSE /\ file = <<>>
  /\ skips = {} /\ add = FALSE
  /\ pc = "saveState" /\ at = 1 /\ songnum = 0 /\ exit = -1 /\ changes = 0

-----------------------------------------------------------------------------
(* Saving.  The settings stand for volume, random, repeat and crossfade,   *)
(* which are treated alike.  A reply may end early; the end of the section *)
(* is printed all the same, and then the error.                            *)
StatusLines ==
  << Entry("state", 0), Entry("current", IF server.song = -1 THEN 0 ELSE server.song), Entry("setting", server.setting) >>
SongLines == [i \in DOMAIN server.playlist |-> Entry("song", server.playlist[i])]
OutputLine(o) == Entry(IF o \in server.outputs THEN "on" ELSE "off", o)
OutputLines == SetToSeq({OutputLine(o) : o \in Outputs})

Section(begin, lines, end) == <<Entry(begin, 0)>> \o lines \o <<Entry(end, 0)>>
PrintLines(lines) == file' = file \o lines

(* One part of what is saved: left out by a switch, printed, or cut short  *)
(* by an error.                                                            *)
Prints(from, to, whole, pieces) ==
  /\ pc = from
  /\ \/ pc' = to /\ UNCHANGED file
     \/ pc' = to /\ PrintLines(whole)
     \/ pc' = "saved" /\ \E piece \in pieces : PrintLines(piece)
  /\ UNCHANGED <<mpd, switches, at, songnum, exit, changes>>

Sections(begin, lines, end) == {Section(begin, piece, end) : piece \in Prefixes(lines)}

PrintStatus == Prints("saveState", "savePlaylist", StatusLines, {<<>>, StatusLines})
PrintPlaylist ==
  Prints("savePlaylist", "saveOutputs", Section("playlist_begin", SongLines, "playlist_end"),
         Sections("playlist_begin", SongLines, "playlist_end"))
PrintOutputs ==
  Prints("saveOutputs", "saved", Section("outputs_begin", OutputLines, "outputs_end"),
         Sections("outputs_begin", OutputLines, "outputs_end"))

(* Somebody takes the state line out of the file, or the disk was full.    *)
FileChanges ==
  /\ pc = "saved" /\ changes < MaxChanges /\ changes' = changes + 1
  /\ \/ file' \in Prefixes(file)
     \/ file # <<>> /\ file[1].key = "state" /\ file' = Tail(file)
  /\ UNCHANGED <<mpd, switches, pc, at, songnum, exit>>

-----------------------------------------------------------------------------
(* MPD executes a command at once, or when its list ends.                  *)
Effect(s, c) ==
  CASE c.name = "clear"   -> [s EXCEPT !.playlist = <<>>, !.song = -1]
    [] c.name = "add"     -> [s EXCEPT !.playlist = Append(@, c.arg)]
    [] c.name = "setting" -> [s EXCEPT !.setting = c.arg]
    [] c.name = "on"      -> [s EXCEPT !.outputs = @ \cup {c.arg}]
    [] c.name = "off"     -> [s EXCEPT !.outputs = @ \ {c.arg}]
    [] c.name = "seek"    -> IF c.arg < Len(s.playlist) THEN [s EXCEPT !.song = c.arg] ELSE s

Execute(s, commands) ==
  LET done[n \in 0..Len(commands)] == IF n = 0 THEN s ELSE Effect(done[n - 1], commands[n])
  IN done[Len(commands)]

(* A file that is gone, an output of another MPD, a song number too large. *)
Refusable(c) == c.name \in {"add", "on", "off", "seek"}

(* A library call.  It works; it times out, which the next call forgets;   *)
(* or the connection is lost, and MPD forgets the list.                    *)
Calls(c) ==
  \/ (c = Nothing \/ lost) /\ UNCHANGED mpd
  \/ /\ c # Nothing /\ ~lost
     /\ IF inList THEN list' = Append(list, c) /\ UNCHANGED server
                  ELSE server' \in {Effect(server, c)} \cup (IF Refusable(c) THEN {server} ELSE {}) /\ UNCHANGED list
     /\ UNCHANGED <<inList, lost, dropped>>
  \/ c # Nothing /\ ~lost /\ dropped' = TRUE /\ UNCHANGED <<server, inList, list, lost>>
  \/ c # Nothing /\ ~lost /\ lost' = TRUE /\ inList' = FALSE /\ list' = <<>> /\ UNCHANGED <<server, dropped>>

-----------------------------------------------------------------------------
(* restore.                                                                *)
Begins_Not == FALSE  \* mutant: mpd_sendCommandListBegin is forgotten
Begins == TRUE

ListBegin ==
  /\ pc = "saved" /\ pc' = "clear"
  /\ skips' \in SUBSET Part /\ add' \in BOOLEAN
  /\ \/ inList' = Begins /\ UNCHANGED <<lost, dropped>>
     \/ dropped' = TRUE /\ UNCHANGED <<inList, lost>>
     \/ lost' = TRUE /\ UNCHANGED <<inList, dropped>>
  /\ UNCHANGED <<server, list, file, at, songnum, exit, changes>>

Clear ==
  /\ pc = "clear" /\ pc' = "line"
  /\ Calls(IF "playlist" \notin skips /\ ~add THEN Command("clear", 0) ELSE Nothing)
  /\ UNCHANGED <<file, switches, at, songnum, exit, changes>>

Reads(keys) == at <= Len(file) /\ file[at].key \in keys /\ at' = at + 1
Val == file[at].val

(* The state line: not its value but its keyword is compared with the      *)
(* states, and is none of them.                                            *)
ReadState ==
  /\ pc = "line" /\ Reads({"state"})
  /\ exit' = 3 /\ pc' = "done" /\ inList' = FALSE /\ list' = <<>>
  /\ UNCHANGED <<server, lost, dropped, file, switches, songnum, changes>>

ReadSetting ==
  /\ pc = "line" /\ Reads({"setting"})
  /\ Calls(IF "state" \notin skips THEN Command("setting", Val) ELSE Nothing)
  /\ UNCHANGED <<file, switches, pc, songnum, exit, changes>>

ReadCurrent ==
  /\ pc = "line" /\ Reads({"current"}) /\ songnum' = Val
  /\ UNCHANGED <<mpd, file, switches, pc, exit, changes>>

ReadBegin ==
  /\ pc = "line" /\ Reads({"playlist_begin", "outputs_begin"})
  /\ pc' = IF file[at].key = "playlist_begin" THEN "songs" ELSE "outputs"
  /\ UNCHANGED <<mpd, file, switches, songnum, exit, changes>>

(* The test of the switch is the wrong way round.                          *)
AddsSongs == "playlist" \in skips

ReadSong ==
  /\ pc = "songs" /\ Reads({"song"})
  /\ Calls(IF AddsSongs THEN Command("add", Val) ELSE Nothing)
  /\ UNCHANGED <<file, switches, pc, songnum, exit, changes>>

SetsOutputs_Inverted == "outputs" \in skips  \* mutant: as with the playlist
SetsOutputs == "outputs" \notin skips

ReadOutput ==
  /\ pc = "outputs" /\ Reads({"on", "off"})
  /\ Calls(IF SetsOutputs THEN Command(file[at].key, Val) ELSE Nothing)
  /\ UNCHANGED <<file, switches, pc, songnum, exit, changes>>

ReadEnd ==
  /\ pc \in {"songs", "outputs"} /\ Reads({"playlist_end", "outputs_end"}) /\ pc' = "line"
  /\ UNCHANGED <<mpd, file, switches, songnum, exit, changes>>

(* The end of the file, wherever it comes.  No state has been read, so the *)
(* seek is always sent.                                                    *)
Seek ==
  /\ pc \in {"line", "songs", "outputs"} /\ at > Len(file) /\ pc' = "end"
  /\ Calls(IF "state" \notin skips THEN Command("seek", songnum) ELSE Nothing)
  /\ UNCHANGED <<file, switches, at, songnum, exit, changes>>

(* The end of the list is sent, and what MPD answers is not looked at; or  *)
(* the connection is lost or the end not sent, and the list forgotten.     *)
Executed(n) == n < Len(list) => Refusable(list[n + 1])

ListEnd ==
  /\ pc = "end" /\ pc' = "done"
  /\ \/ ~lost /\ exit' = 0 /\ \E n \in 0..Len(list) : Executed(n) /\ server' = Execute(server, SubSeq(list, 1, n))
     \/ exit' \in {0, 2} /\ UNCHANGED server
  /\ inList' = FALSE /\ list' = <<>>
  /\ UNCHANGED <<lost, dropped, file, switches, at, songnum, changes>>

(* Another client of MPD gives it a command.                               *)
OthersCommands == {Command("clear", 0), Command("seek", 1)} \cup {Command(name, o) : name \in {"on", "off"}, o \in Outputs}

OtherClient ==
  /\ pc # "done" /\ changes < MaxChanges /\ changes' = changes + 1
  /\ \E c \in OthersCommands : server' = Effect(server, c)
  /\ UNCHANGED <<inList, list, lost, dropped, file, switches, pc, at, songnum, exit>>

Next ==
  \/ PrintStatus \/ PrintPlaylist \/ PrintOutputs \/ FileChanges
  \/ ListBegin \/ Clear \/ ReadState \/ ReadSetting \/ ReadCurrent \/ ReadBegin \/ ReadSong \/ ReadOutput \/ ReadEnd
  \/ Seek \/ ListEnd \/ OtherClient

Spec == Init /\ [][Next]_vars

-----------------------------------------------------------------------------
(* A restore changes MPD only in the step it ends successfully with: a file*)
(* that is read wrong and a connection that is lost before then have no    *)
(* effect.  A command that timed out might be the list's beginning, and    *)
(* what MPD does at the end it may do in part (Executed).                  *)
OnlyAtTheEnd == server' # server /\ changes' = changes /\ ~dropped => exit' = 0
ChangesAtTheEnd == [][OnlyAtTheEnd]_vars

(* The songs in the file; and the step that ends a restore in which        *)
(* nothing was lost or refused.                                            *)
SavedSongs ==
  LET songs[n \in 0..Len(file)] ==
        IF n = 0 THEN <<>>
        ELSE IF file[n].key = "song" THEN Append(songs[n - 1], file[n].val)
        ELSE songs[n - 1]
  IN songs[Len(file)]
Complete == pc = "end" /\ pc' = "done" /\ exit' = 0 /\ ~lost /\ ~dropped /\ server' = Execute(server, list)

(* After such a restore the outputs are as the file says, unless -o was    *)
(* given.  With -p all the songs of the file come behind those MPD has, in *)
(* their order, and without -p none: this is the wrong way round, see      *)
(* SongsAsSaved.                                                           *)
AllAsRead ==
  Complete =>
    /\ "outputs" \notin skips =>
         \A l \in ToSet(file) : /\ l.key = "on" => l.val \in server.outputs'
                               /\ l.key = "off" => l.val \notin server.outputs'
    /\ server.playlist' = IF "playlist" \in skips THEN server.playlist \o SavedSongs
                          ELSE IF add THEN server.playlist ELSE <<>>

(* Whatever was lost, forgotten or refused, and whenever MPD executed it:  *)
(* an output that a restore switches is switched to what the file says of  *)
(* it, and none is with -o.                                                *)
SwitchedAsRead ==
  changes' = changes =>
    \A o \in Outputs : (o \in server.outputs') # (o \in server.outputs) =>
      /\ "outputs" \notin skips
      /\ Entry(IF o \in server.outputs' THEN "on" ELSE "off", o) \in ToSet(file)

AsRead == AllAsRead /\ SwitchedAsRead
RestoredAsRead == [][AsRead]_vars

(* " -p      ommit playlsit" (mpd-state.c:96): without -p such a restore   *)
(* brings the songs of the file, in place of those MPD has or, with -a,    *)
(* behind them.                                                            *)
SongsAsSaved ==
  [][Complete /\ "playlist" \notin skips =>
       server.playlist' = (IF add THEN server.playlist ELSE <<>>) \o SavedSongs]_vars

(* "for saving and restoring MPD (Music Player Daemon) state" (README:118):*)
(* a file that the program has written is one it can read.                 *)
RestoresSaved == pc = "done" /\ changes = 0 /\ ~lost => exit # 3
=============================================================================
