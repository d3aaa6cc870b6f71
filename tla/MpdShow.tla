------------------------------ MODULE MpdShow -------------------------------
(***************************************************************************)
(* mpd-show.c: the main loop.  Connect to MPD with a growing delay, ask    *)
(* every second for the status and, when the song's id has changed, for    *)
(* the song; show a line.  A first signal sets a flag, a second one exits  *)
(* from within the handler, wherever the program is.  The connection is    *)
(* used as MpdSession allows; what its replies are made of is abstracted   *)
(* to the song that is current when MPD answers.                           *)
(***************************************************************************)
EXTENDS Integers, Sequences

CONSTANT Songs  \* bound: ids of songs in MPD's queue
ASSUME SongsAssumption == Songs \subseteq Nat \ {0}

VARIABLES
  phase, request,   \* the connection, as in MpdSession
  error,            \* D.conn->error: 0, or a code
  conn, infoPtr,    \* the pointers D.conn and D.info: "null", "live", "dangling"
  info,             \* the song D.info is about, or 0
  cur, old,         \* D.cur and D.old: error and songid
  stopped,          \* D.cur.state is MPD_STATUS_STATE_STOP
  shown,            \* what the line on the terminal is about: a song, 0, or -code
  first,            \* first_time of display
  timeout, connected, password, secs,  \* variables of main, connectToMPD and display
  pc, gotSignal,
  playing, calm,    \* MPD's current song or 0; nothing fails or changes any more
  raced, fails, late, damage  \* for the properties only, see there

session  == <<phase, request, error>>
pointers == <<conn, infoPtr, info>>
view     == <<cur, old, stopped, shown, first>>
loop     == <<timeout, connected, password, secs>>
world    == <<gotSignal, playing, calm>>
vars     == <<session, pointers, view, loop, pc, world, raced, fails, late, damage>>

Api == 1
Ack == 2
Lost == 3
NoConnect == 4
Goto(from, to) == pc = from /\ pc' = to

Init ==
  /\ phase = "down" /\ request = <<>> /\ error = 0
  /\ conn = "null" /\ infoPtr = "null" /\ info = 0
  /\ cur = [error |-> 0, songid |-> 0] /\ old = cur /\ stopped = FALSE
  /\ shown = 0 /\ first = TRUE
  /\ timeout = 1 /\ connected = FALSE /\ password \in BOOLEAN /\ secs = 0
  /\ pc = "top" /\ gotSignal = FALSE /\ playing \in Songs \cup {0} /\ calm = FALSE
  /\ raced = FALSE /\ fails = 0 /\ late = 0 /\ damage = "none"

-----------------------------------------------------------------------------
(* main: connect if need be, ask for the song if connected.                *)
Longer(t) == IF t <= 30 THEN t * 2 ELSE 60

Timeout1_Kept(t) == t  \* mutant: the delay is not reset
Timeout1(t) == 1

Top ==
  /\ IF connected THEN Goto("top", "status") /\ timeout' = Timeout1(timeout)
                  ELSE Goto("top", "close")  /\ timeout' = Longer(timeout)
  /\ UNCHANGED <<session, pointers, view, connected, password, secs, world, raced, fails, late, damage>>

(* disconnectFromMPD: what is allocated is freed, and then forgotten.      *)
Freed(ptr) == IF ptr = "null" THEN "null" ELSE "dangling"
HarmIf(ptr, who) == damage' = IF ptr = "dangling" THEN who ELSE damage

CloseConn ==
  /\ Goto("close", "forget")
  /\ conn' = Freed(conn) /\ HarmIf(conn, "main")
  /\ phase' = "down" /\ request' = <<>>
  /\ UNCHANGED <<error, infoPtr, info, view, loop, world, raced, fails, late>>

ForgetConn ==
  /\ Goto("forget", "freeInfo")
  /\ conn' = "null"
  /\ UNCHANGED <<session, infoPtr, info, view, loop, world, raced, fails, late, damage>>

FreeInfo ==
  /\ Goto("freeInfo", "forgetInfo") \/ Goto("dropInfo", "forgetDropped")
  /\ infoPtr' = Freed(infoPtr) /\ HarmIf(infoPtr, "main")
  /\ UNCHANGED <<session, conn, info, view, loop, world, raced, fails, late>>

InfoPtrAfter_Kept == infoPtr  \* mutant: D.info is not reset
InfoPtrAfter == "null"
SongidAfter_Kept == cur.songid  \* mutant: the cached id outlives the connection
SongidAfter == -1

ForgetInfo ==
  /\ Goto("forgetInfo", "connect") \/ Goto("forgetDropped", "song")
  /\ infoPtr' = InfoPtrAfter /\ info' = 0
  /\ IF pc = "forgetInfo" THEN cur' = [cur EXCEPT !.songid = SongidAfter] /\ old' = [old EXCEPT !.songid = SongidAfter]
                          ELSE UNCHANGED <<cur, old>>
  /\ UNCHANGED <<session, conn, stopped, shown, first, loop, world, raced, fails, late, damage>>

-----------------------------------------------------------------------------
(* The library calls.  A call works or leaves an error, and the caller     *)
(* goes on at ok or gives the connection up.                               *)
Connecting == pc \in {"connect", "password", "passwordReply"}
GiveUp ==
  /\ pc' = "display" /\ connected' = FALSE /\ secs' = timeout
  /\ fails' = IF Connecting /\ fails < 6 THEN fails + 1 ELSE fails
  /\ UNCHANGED timeout

Connected == pc' = "status" /\ connected' = TRUE /\ timeout' = Timeout1(timeout) /\ fails' = 0

(* mpd_newConnection in connectToMPD.  *)
Connect ==
  /\ pc = "connect" /\ conn' = "live"
  /\ \/ /\ phase' = "idle" /\ error' = 0
        /\ IF password THEN pc' = "password" /\ UNCHANGED <<connected, timeout, fails>> ELSE Connected
        /\ UNCHANGED secs
     \/ ~calm /\ phase' = "down" /\ error' = NoConnect /\ GiveUp
  /\ request' = <<>>
  /\ UNCHANGED <<infoPtr, info, view, password, world, raced, late, damage>>

(* mpd_send*Command: the library refuses while a reply is unread.          *)
Continues_Always == TRUE  \* mutant: if (error()) is missing after sending
Continues == error' = 0

Asks(from, command, to) ==
  /\ pc = from
  /\ \/ /\ phase = "idle" /\ phase' = "awaiting" /\ request' = <<command>> /\ error' = 0
     \/ /\ phase # "idle" /\ error' = Api /\ UNCHANGED <<phase, request>>
     \/ /\ ~calm /\ phase' = "broken" /\ error' = Lost /\ UNCHANGED request
  /\ IF Continues THEN pc' = to /\ UNCHANGED <<connected, secs, timeout, fails>> ELSE GiveUp
  /\ UNCHANGED <<pointers, view, password, world, raced, late, damage>>

SendPassword    == Asks("password", "password", "passwordReply")
SendStatus      == Asks("status", "status", "statusReply")
SendCurrentSong == Asks("song", "currentsong", "songReply")

(* Reading a reply: its end, an ACK, a failure, or a reply the parser does *)
(* not understand; mpd_getNextInfoEntity leaves the rest of that unread.   *)
ReplyRead == phase' = "idle" /\ error' = 0 /\ UNCHANGED request
ReplyFails ==
  /\ ~calm
  /\ \/ phase' = "idle" /\ error' \in {Ack, Api}
     \/ phase' = "broken" /\ error' = Lost
     \/ pc = "songReply" /\ phase' = phase /\ error' = Api
  /\ UNCHANGED request
  /\ GiveUp

FinishPassword ==
  /\ pc = "passwordReply"
  /\ \/ ReplyRead /\ Connected /\ UNCHANGED secs
     \/ ReplyFails
  /\ UNCHANGED <<pointers, view, password, world, raced, late, damage>>

-----------------------------------------------------------------------------
(* getSong.  The song is asked for only if its id is a new one.  MPD's     *)
(* replies are as it sends them: a line without a colon, or an entity that *)
(* is no song, which the code leaves half read (:458), are not modelled.   *)
Returns(ok) == pc' = "display" /\ connected' = ok /\ secs' = timeout /\ UNCHANGED <<timeout, fails>>

GetStatus ==
  /\ pc = "statusReply"
  /\ \/ /\ ReplyRead
        /\ cur' = [cur EXCEPT !.songid = playing]
        /\ stopped' \in IF playing = 0 THEN {TRUE} ELSE BOOLEAN
        /\ IF playing = old.songid
           THEN Returns(TRUE) /\ UNCHANGED raced
           ELSE /\ pc' = IF infoPtr = "null" THEN "song" ELSE "dropInfo"
                /\ raced' = FALSE
                /\ UNCHANGED <<connected, secs, timeout, fails>>
     \/ ReplyFails /\ UNCHANGED <<cur, stopped, raced>>
  /\ UNCHANGED <<pointers, old, shown, first, password, world, late, damage>>

GetInfo ==
  /\ pc = "songReply"
  /\ \/ /\ ReplyRead
        /\ info' = playing /\ infoPtr' = IF playing = 0 THEN infoPtr ELSE "live"
        /\ Returns(playing # 0 \/ ~stopped)
     \/ ReplyFails /\ UNCHANGED <<info, infoPtr>>
  /\ UNCHANGED <<conn, view, password, world, raced, late, damage>>

-----------------------------------------------------------------------------
(* One round of display's loop: the line is made anew when it has to be.   *)
NewLine == first \/ error # old.error \/ cur.songid # old.songid
FormatLine == IF error # 0 THEN -error ELSE IF infoPtr = "null" THEN 0 ELSE info

Display ==
  /\ Goto("display", "sleep")
  /\ cur' = [cur EXCEPT !.error = error]
  /\ shown' = IF NewLine THEN FormatLine ELSE shown
  /\ first' = FALSE /\ old' = cur'
  /\ late' = IF gotSignal /\ late < 2 THEN late + 1 ELSE late
  /\ UNCHANGED <<session, pointers, stopped, loop, world, raced, fails, damage>>

(* A second passes, or a signal ends usleep.                               *)
Done == gotSignal
MoreRounds_Deaf == secs > 1  \* mutant: done() is not looked at
MoreRounds == ~Done /\ secs > 1

Sleep ==
  /\ pc = "sleep" /\ secs' = secs - 1
  /\ pc' = IF MoreRounds THEN "display" ELSE IF Done THEN "exit" ELSE "top"
  /\ UNCHANGED <<session, pointers, view, timeout, connected, password, world, raced, fails, late, damage>>

(* main returns: exit() calls disconnectFromMPD.                           *)
Harm(who) == damage' = IF "dangling" \in {conn, infoPtr} THEN who ELSE damage

Exit ==
  /\ Goto("exit", "gone") /\ Harm("main")
  /\ UNCHANGED <<session, pointers, view, loop, world, raced, fails, late>>

-----------------------------------------------------------------------------
(* handleSignal.  The second signal calls exit, and so disconnectFromMPD,  *)
(* from the handler.                                                       *)
HandleSignal ==
  /\ pc \notin {"exit", "gone"} /\ ~calm
  /\ IF gotSignal THEN pc' = "gone" /\ Harm("handler") /\ UNCHANGED gotSignal
                  ELSE gotSignal' = TRUE /\ UNCHANGED <<pc, damage>>
  /\ UNCHANGED <<session, pointers, view, loop, playing, calm, raced, fails, late>>

(* MPD goes to another song, or to none.  *)
Fetching == pc \in {"dropInfo", "forgetDropped", "song", "songReply"}

SongChanges ==
  /\ ~calm /\ playing' \in (Songs \cup {0}) \ {playing}
  /\ raced' = (raced \/ Fetching)
  /\ UNCHANGED <<session, pointers, view, loop, pc, gotSignal, calm, fails, late, damage>>

CalmsDown ==
  /\ ~calm /\ calm' = TRUE
  /\ UNCHANGED <<session, pointers, view, loop, pc, gotSignal, playing, raced, fails, late, damage>>

Main ==
  \/ Top \/ CloseConn \/ ForgetConn \/ FreeInfo \/ ForgetInfo
  \/ Connect \/ SendPassword \/ FinishPassword
  \/ SendStatus \/ GetStatus \/ SendCurrentSong \/ GetInfo
  \/ Display \/ Sleep \/ Exit

Next == Main \/ HandleSignal \/ SongChanges \/ CalmsDown
Spec == Init /\ [][Next]_vars

(* The process runs; every library call returns (MpdConnection's           *)
(* CallReturns), every sleep ends.                                         *)
FairSpec == Spec /\ WF_vars(Main)

-----------------------------------------------------------------------------
Seen == [error : {0, Api, Ack, Lost, NoConnect}, songid : Songs \cup {0, -1}]
TypeOK ==
  /\ pc \in {"top", "close", "forget", "freeInfo", "forgetInfo", "connect", "password", "passwordReply", "status",
            "statusReply", "dropInfo", "forgetDropped", "song", "songReply", "display", "sleep", "exit", "gone"}
  /\ phase \in {"down", "idle", "awaiting", "broken"}
  /\ request \in {<<>>, <<"password">>, <<"status">>, <<"currentsong">>}
  /\ error \in {0, Api, Ack, Lost, NoConnect}
  /\ conn \in {"null", "live", "dangling"} /\ infoPtr \in {"null", "live", "dangling"}
  /\ info \in Songs \cup {0}
  /\ cur \in Seen /\ old \in Seen
  /\ stopped \in BOOLEAN /\ first \in BOOLEAN
  /\ shown \in Songs \cup -NoConnect..0
  /\ timeout \in 1..60 /\ secs \in 0..60 /\ connected \in BOOLEAN /\ password \in BOOLEAN
  /\ gotSignal \in BOOLEAN /\ playing \in Songs \cup {0} /\ calm \in BOOLEAN
  /\ raced \in BOOLEAN /\ fails \in 0..6 /\ late \in 0..2 /\ damage \in {"none", "main", "handler"}

(* mpd-show uses its connection only as libmpdclient allows: no command on *)
(* a connection that has failed, none while a reply is unread.             *)
Session == INSTANCE MpdSession WITH
  Cmd <- {"password", "status", "currentsong"}, inParts <- FALSE, parts <- 0, holding <- 0

KeepsToSession == Session!Spec

(* The program itself frees nothing twice and uses nothing it has freed,   *)
(* through reconnects and song changes; display has a connection to read   *)
(* the error from.                                                         *)
FreedOnce == damage # "main" /\ (pc \in {"display", "status", "song"} => conn = "live")

(* The line is about the song with the id that was asked for, and says     *)
(* "[no song]" if there is none, over all errors and reconnects, unless    *)
(* MPD changed songs between its answers to status and currentsong.        *)
ShowsAsked ==
  pc = "sleep" => shown = IF cur.error # 0 THEN -cur.error ELSE IF raced THEN shown ELSE cur.songid

(* Once nothing changes any more the playing song is shown, unless the     *)
(* last one asked for was raced, or the program was told to stop.          *)
Recovers == calm ~> [](gotSignal \/ raced \/ shown = playing)

(* A signal ends the program, after at most one more line.                 *)
Prompt == late <= 1

(* After n attempts in a row have failed the next one is 2^n seconds away, *)
(* a minute at most, whatever connections there were before.               *)
BacksOff == pc = "display" /\ ~connected => timeout = IF fails < 6 THEN 2 ^ fails ELSE 60
=============================================================================
