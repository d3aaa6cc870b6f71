--------------------------- MODULE MpdShow_proofs ---------------------------
(***************************************************************************)
(* Proofs about the main loop of mpd-show, for any songs.  Each invariant  *)
(* says what a step of the program may count on because of the steps that  *)
(* lead to it, whatever failed before.                                     *)
(***************************************************************************)
EXTENDS MpdShow, TLAPS

(* The steps of a connect: what is left of the last connection is freed,   *)
(* a new one is made and the password given.  None of them is taken with a *)
(* connection that can be used.                                            *)
Closing    == {"close", "forget", "freeInfo", "forgetInfo", "connect"}
Conversing == {"status", "statusReply", "dropInfo", "forgetDropped", "song", "songReply"}
Resting    == {"top", "display", "sleep"}

Staged ==
  /\ pc \in Closing \cup {"password", "passwordReply"} => ~connected
  /\ pc \in Conversing => connected
  /\ pc \in {"display", "sleep"} => secs > 0

(* A pointer dangles only between its free and the next statement.         *)
Pointing ==
  /\ damage # "main"
  /\ conn = "dangling" => pc \in {"forget", "gone"}
  /\ infoPtr = "dangling" => pc \in {"forgetInfo", "forgetDropped", "gone"}
  /\ conn = "null" => pc \in Closing \cup {"top", "gone"}
  /\ pc = "top" /\ connected => conn = "live"

(* Where a signal has been seen by one round, the program is on its way out. *)
Ending == late = 0 \/ (late = 1 /\ gotSignal /\ pc \in {"sleep", "exit", "gone"})

(* The delay after n failed attempts, and where it is already the next one. *)
Delay(n) == IF n < 6 THEN 2 ^ n ELSE 60
Delayed ==
  /\ pc \in Conversing => fails = 0 /\ timeout = 1
  /\ pc \in Resting =>
       /\ connected => fails = 0 /\ timeout = 1
       /\ ~connected => timeout = Delay(fails)
  /\ pc \in Closing \cup {"password", "passwordReply"} => timeout = Delay(IF fails < 6 THEN fails + 1 ELSE 6)

(* What the conversation is at.                                            *)
InTurn ==
  /\ pc \in {"password", "status", "dropInfo", "forgetDropped", "song"} => phase = "idle"
  /\ pc \in {"passwordReply", "statusReply", "songReply"} => phase = "awaiting"
  /\ pc \in Resting /\ connected => phase = "idle"

(* What is cached: the song of the id that is displayed, unless MPD went   *)
(* on between its two answers.                                             *)
Agrees(id) == raced \/ id = IF infoPtr = "null" THEN 0 ELSE info
Caching ==
  /\ pc \notin {"dropInfo", "forgetDropped", "song", "songReply", "display", "gone"} => cur.songid = old.songid
  /\ pc = "sleep" => cur = old /\ cur.error = error /\ ~first
  /\ pc \in {"connect", "password", "passwordReply"} => old.songid = -1
  /\ pc = "top" /\ connected => old.songid # -1 /\ Agrees(old.songid)
  /\ pc \in {"status", "statusReply"} => old.songid = -1 \/ Agrees(old.songid)
  /\ pc \in {"dropInfo", "forgetDropped", "song", "songReply"} => cur.songid # -1 /\ (raced \/ playing = cur.songid)
  /\ pc \in {"song", "songReply"} => infoPtr = "null"
  /\ pc \in {"display", "sleep"} => (connected => error = 0) /\ (error = 0 => cur.songid # -1 /\ Agrees(cur.songid))

(* What the line says, until the next one is made.                         *)
Showing ==
  ~first =>
    /\ old.error # 0 => shown = -old.error
    /\ old.error = 0 /\ old.songid # -1 /\ old.songid = cur.songid => raced \/ shown = old.songid

LEMMA StagedKept == ASSUME TypeOK, Staged, Next PROVE Staged'
<1> USE DEF Staged, Closing, Conversing, Goto, loop
<1>0. timeout \in 1..60 /\ secs \in 0..60
  BY DEF TypeOK
<1>1. CASE Top
  BY <1>1 DEF Top, Timeout1
<1>2. CASE CloseConn \/ ForgetConn \/ FreeInfo \/ ForgetInfo
  BY <1>2 DEF CloseConn, ForgetConn, FreeInfo, ForgetInfo
<1>3. CASE Connect
  BY <1>0, <1>3 DEF Connect, Connected, GiveUp
<1>4. CASE SendPassword \/ SendStatus \/ SendCurrentSong
  BY <1>0, <1>4 DEF SendPassword, SendStatus, SendCurrentSong, Asks, Continues, GiveUp
<1>5. CASE FinishPassword
  BY <1>0, <1>5 DEF FinishPassword, ReplyFails, Connected, GiveUp
<1>6. CASE GetStatus
  <2>1. pc = "statusReply"
    BY <1>6 DEF GetStatus
  <2>2. \/ pc' = "display" /\ secs' = timeout
        \/ pc' \in {"song", "dropInfo"} /\ connected' = connected
    BY <1>6 DEF GetStatus, ReplyFails, Returns, GiveUp
  <2>3. pc \in Conversing => connected
    OBVIOUS
  <2>4. pc' = "display" /\ secs' = timeout => Staged'
    BY <1>0
  <2>5. pc' \in {"song", "dropInfo"} /\ connected' = connected => Staged'
    BY <2>1, <2>3
  <2> QED
    BY <2>2, <2>4, <2>5
<1>7. CASE GetInfo
  BY <1>0, <1>7 DEF GetInfo, ReplyFails, Returns, GiveUp
<1>8. CASE Display \/ Exit
  BY <1>8 DEF Display, Exit
<1>10. CASE Sleep
  BY <1>0, <1>10 DEF Sleep, MoreRounds, Done
<1>9. CASE HandleSignal \/ SongChanges \/ CalmsDown
  BY <1>0, <1>9 DEF HandleSignal, SongChanges, CalmsDown
<1> QED
  BY <1>1, <1>2, <1>3, <1>4, <1>5, <1>6, <1>7, <1>8, <1>9, <1>10 DEF Next, Main

(* How the variables of main and connectToMPD are set where a call returns. *)
LEMMA Counters ==
  ASSUME timeout \in 1..60, secs \in 0..60, fails \in 0..6
  PROVE  /\ Longer(timeout) \in 1..60
         /\ GiveUp => timeout' \in 1..60 /\ secs' \in 0..60 /\ fails' \in 0..6
         /\ Connected /\ UNCHANGED secs => timeout' \in 1..60 /\ secs' \in 0..60 /\ fails' \in 0..6
         /\ \A ok : Returns(ok) => timeout' \in 1..60 /\ secs' \in 0..60 /\ fails' \in 0..6
         /\ UNCHANGED <<timeout, secs, fails>> => timeout' \in 1..60 /\ secs' \in 0..60 /\ fails' \in 0..6
<1>1. Longer(timeout) \in 1..60
  BY DEF Longer
<1>2. ASSUME GiveUp PROVE timeout' \in 1..60 /\ secs' \in 0..60 /\ fails' \in 0..6
  BY <1>2 DEF GiveUp
<1>3. ASSUME Connected, UNCHANGED secs PROVE timeout' \in 1..60 /\ secs' \in 0..60 /\ fails' \in 0..6
  BY <1>3 DEF Connected, Timeout1
<1>4. ASSUME NEW ok, Returns(ok) PROVE timeout' \in 1..60 /\ secs' \in 0..60 /\ fails' \in 0..6
  BY <1>4 DEF Returns
<1> QED
  BY <1>1, <1>2, <1>3, <1>4

LEMMA TypesKept == ASSUME TypeOK, Staged, Next PROVE TypeOK'
<1> USE DEF Goto, session, pointers, view, loop, world
<1>t. timeout \in 1..60 /\ secs \in 0..60 /\ fails \in 0..6
  BY DEF TypeOK
<1>n. /\ timeout \in 1..60 /\ secs \in 0..60 /\ fails \in 0..6 /\ late \in 0..2 /\ error \in {0, Api, Ack, Lost, NoConnect}
      /\ pc \in {"display", "sleep"} => secs > 0
      /\ damage \in {"none", "main", "handler"}
      /\ request \in {<<>>, <<"password">>, <<"status">>, <<"currentsong">>}
      /\ playing \in Songs \cup {0} /\ info \in Songs \cup {0}
  BY DEF TypeOK, Staged
<1>v. /\ cur \in Seen /\ old \in Seen
      /\ \A v \in Seen : /\ \A c \in {0, Api, Ack, Lost, NoConnect} : [v EXCEPT !.error = c] \in Seen
                        /\ \A s \in Songs \cup {0, -1} : [v EXCEPT !.songid = s] \in Seen
  BY DEF TypeOK, Seen
<1>b. connected \in BOOLEAN /\ raced \in BOOLEAN /\ gotSignal \in BOOLEAN /\ stopped \in BOOLEAN
  BY DEF TypeOK
<1>1. CASE Top
  <2>1. timeout' \in 1..60
    BY <1>t, Counters, <1>1 DEF Top, Timeout1
  <2> QED
    BY <1>1, <2>1 DEF Top, TypeOK
<1>2. CASE CloseConn \/ ForgetConn
  <2>1. damage' \in {"none", "main", "handler"} /\ conn' \in {"null", "dangling"}
    BY <1>n, <1>2 DEF CloseConn, ForgetConn, Freed, HarmIf
  <2>2. phase' \in {"down", phase} /\ request' \in {<<>>, request} /\ pc' \in {"forget", "freeInfo"}
    BY <1>2 DEF CloseConn, ForgetConn
  <2>3. UNCHANGED <<error, infoPtr, info, view, loop, world, raced, fails, late>>
    BY <1>2 DEF CloseConn, ForgetConn
  <2> QED
    BY <2>1, <2>2, <2>3 DEF TypeOK
<1>3. CASE FreeInfo
  <2>1. damage' \in {"none", "main", "handler"} /\ infoPtr' \in {"null", "dangling"}
    BY <1>n, <1>3 DEF FreeInfo, Freed, HarmIf
  <2> QED
    BY <1>3, <2>1 DEF FreeInfo, TypeOK
<1>4. CASE ForgetInfo
  <2>1. cur' \in Seen /\ old' \in Seen
    BY <1>v, <1>4 DEF ForgetInfo, SongidAfter
  <2> QED
    BY <1>4, <2>1 DEF ForgetInfo, InfoPtrAfter, TypeOK
<1>5. CASE Connect
  <2>1. timeout' \in 1..60 /\ secs' \in 0..60 /\ fails' \in 0..6
    BY <1>t, Counters, <1>5 DEF Connect
  <2>2. connected' \in BOOLEAN
    BY <1>b, <1>5 DEF Connect, Connected, GiveUp
  <2>3. pc' \in {"password", "status", "display"} /\ error' \in {0, NoConnect}
    BY <1>5 DEF Connect, Connected, GiveUp
  <2> QED
    BY <1>5, <2>1, <2>2, <2>3 DEF Connect, TypeOK
<1>6. CASE SendPassword \/ SendStatus \/ SendCurrentSong
  <2>1. timeout' \in 1..60 /\ secs' \in 0..60 /\ fails' \in 0..6
    BY <1>t, Counters, <1>6 DEF SendPassword, SendStatus, SendCurrentSong, Asks
  <2>2. connected' \in BOOLEAN
    BY <1>b, <1>6 DEF SendPassword, SendStatus, SendCurrentSong, Asks, GiveUp
  <2>3. /\ pc' \in {"passwordReply", "statusReply", "songReply", "display"} /\ error' \in {0, Api, Lost}
        /\ phase' \in {"awaiting", "broken", phase}
        /\ request' \in {request, <<"password">>, <<"status">>, <<"currentsong">>}
    BY <1>6 DEF SendPassword, SendStatus, SendCurrentSong, Asks, GiveUp
  <2>4. UNCHANGED <<pointers, view, password, world, raced, late, damage>>
    BY <1>6 DEF SendPassword, SendStatus, SendCurrentSong, Asks
  <2> QED
    BY <2>1, <2>2, <2>3, <2>4 DEF TypeOK
<1>7. CASE FinishPassword
  <2>1. timeout' \in 1..60 /\ secs' \in 0..60 /\ fails' \in 0..6
    BY <1>t, Counters, <1>7 DEF FinishPassword, ReplyFails
  <2>2. connected' \in BOOLEAN
    BY <1>7 DEF FinishPassword, ReplyFails, Connected, GiveUp
  <2>3. /\ pc' \in {"status", "display"} /\ error' \in {0, Api, Ack, Lost}
        /\ phase' \in {"idle", "broken", phase} /\ request' = request
    BY <1>7 DEF FinishPassword, ReplyRead, ReplyFails, Connected, GiveUp
  <2> QED
    BY <1>7, <2>1, <2>2, <2>3 DEF FinishPassword, TypeOK
<1>8. CASE GetStatus
  <2>1. timeout' \in 1..60 /\ secs' \in 0..60 /\ fails' \in 0..6
    BY <1>t, Counters, <1>8 DEF GetStatus, ReplyFails
  <2>2. connected' \in BOOLEAN /\ raced' \in BOOLEAN
    BY <1>b, <1>8 DEF GetStatus, ReplyFails, Returns, GiveUp
  <2>3. /\ pc' \in {"song", "dropInfo", "display"} /\ error' \in {0, Api, Ack, Lost}
        /\ phase' \in {"idle", "broken", phase} /\ request' = request
    BY <1>8 DEF GetStatus, ReplyRead, ReplyFails, Returns, GiveUp
  <2>4. cur' \in Seen
    BY <1>v, <1>n, <1>8 DEF GetStatus
  <2>5. stopped' \in BOOLEAN
    BY <1>b, <1>8 DEF GetStatus
  <2> QED
    BY <1>8, <2>1, <2>2, <2>3, <2>4, <2>5 DEF GetStatus, TypeOK
<1>9. CASE GetInfo
  <2>1. timeout' \in 1..60 /\ secs' \in 0..60 /\ fails' \in 0..6
    BY <1>t, Counters, <1>9 DEF GetInfo, ReplyFails
  <2>2. connected' \in BOOLEAN
    BY <1>9 DEF GetInfo, ReplyFails, Returns, GiveUp
  <2>3. /\ pc' = "display" /\ error' \in {0, Api, Ack, Lost}
        /\ phase' \in {"idle", "broken", phase} /\ request' = request
    BY <1>9 DEF GetInfo, ReplyRead, ReplyFails, Returns, GiveUp
  <2>4. info' \in Songs \cup {0} /\ infoPtr' \in {infoPtr, "live"}
    BY <1>n, <1>9 DEF GetInfo
  <2> QED
    BY <1>9, <2>1, <2>2, <2>3, <2>4 DEF GetInfo, TypeOK
<1>10. CASE Display
  <2>1. cur' \in Seen /\ old' \in Seen
    BY <1>v, <1>n, <1>10 DEF Display
  <2>2. shown' \in Songs \cup -NoConnect..0
    <3>1. shown \in Songs \cup -NoConnect..0
      BY DEF TypeOK
    <3>2. FormatLine \in Songs \cup -NoConnect..0
      BY <1>n DEF FormatLine, Api, Ack, Lost, NoConnect
    <3> QED
      BY <1>10, <3>1, <3>2 DEF Display
  <2>3. late' \in 0..2
    BY <1>n, <1>10 DEF Display
  <2>4. pc' = "sleep" /\ first' \in BOOLEAN
    BY <1>10 DEF Display
  <2>5. UNCHANGED <<session, pointers, stopped, loop, world, raced, fails, damage>>
    BY <1>10 DEF Display
  <2> QED
    BY <2>1, <2>2, <2>3, <2>4, <2>5 DEF TypeOK
<1>11. CASE Sleep
  <2>1. secs' \in 0..60 /\ pc' \in {"display", "exit", "top"}
    BY <1>n, <1>11 DEF Sleep
  <2> QED
    BY <1>11, <2>1 DEF Sleep, TypeOK
<1>12. CASE Exit \/ HandleSignal
  <2>1. damage' \in {"none", "main", "handler"}
    BY <1>n, <1>12 DEF Exit, HandleSignal, Harm
  <2>2. gotSignal' \in BOOLEAN /\ pc' \in {pc, "gone"}
    BY <1>b, <1>12 DEF Exit, HandleSignal
  <2>3. UNCHANGED <<session, pointers, view, loop, playing, calm, raced, fails, late>>
    BY <1>12 DEF Exit, HandleSignal
  <2> QED
    BY <2>1, <2>2, <2>3 DEF TypeOK
<1>13. CASE SongChanges
  <2>1. raced' \in BOOLEAN
    BY <1>b, <1>13 DEF SongChanges
  <2> QED
    BY <1>13, <2>1 DEF SongChanges, TypeOK
<1>14. CASE CalmsDown
  BY <1>14 DEF CalmsDown, TypeOK
<1> QED
  BY <1>1, <1>2, <1>3, <1>4, <1>5, <1>6, <1>7, <1>8, <1>9, <1>10, <1>11, <1>12, <1>13, <1>14 DEF Next, Main

(* Type correctness: the delay stays between a second and a minute, and a  *)
(* sleep is never entered without seconds left, whatever fails.            *)
THEOREM Typed == Spec => []TypeOK /\ []Staged
<1>1. Init => TypeOK /\ Staged
  <2> SUFFICES ASSUME Init PROVE TypeOK /\ Staged
    OBVIOUS
  <2>1. cur \in Seen /\ old \in Seen /\ shown \in Songs \cup -NoConnect..0
    BY DEF Init, Seen, NoConnect
  <2>2. /\ stopped \in BOOLEAN /\ first \in BOOLEAN /\ connected \in BOOLEAN /\ password \in BOOLEAN
        /\ gotSignal \in BOOLEAN /\ calm \in BOOLEAN /\ raced \in BOOLEAN
    BY DEF Init
  <2>3. /\ phase = "down" /\ request = <<>> /\ error = 0 /\ conn = "null" /\ infoPtr = "null" /\ info = 0
        /\ timeout = 1 /\ secs = 0 /\ pc = "top" /\ playing \in Songs \cup {0} /\ fails = 0 /\ late = 0 /\ damage = "none"
    BY DEF Init
  <2>4. TypeOK
    BY <2>1, <2>2, <2>3 DEF TypeOK
  <2> QED
    BY <2>3, <2>4 DEF Staged, Closing, Conversing
<1>2. TypeOK /\ Staged /\ [Next]_vars => TypeOK' /\ Staged'
  <2> SUFFICES ASSUME TypeOK, Staged, [Next]_vars PROVE TypeOK' /\ Staged'
    OBVIOUS
  <2>1. CASE Next
    BY <2>1, StagedKept, TypesKept
  <2>2. CASE UNCHANGED vars
    BY <2>2 DEF vars, session, pointers, view, loop, world, TypeOK, Staged
  <2> QED
    BY <2>1, <2>2
<1> QED
  BY <1>1, <1>2, PTL DEF Spec

-----------------------------------------------------------------------------
(* Signals.                                                                *)
LEMMA EndingKept == ASSUME TypeOK, Ending, Next PROVE Ending'
<1> USE DEF Ending, Goto, world
<1>1. CASE Display
  BY <1>1 DEF Display
<1>2. CASE Sleep
  BY <1>2 DEF Sleep, MoreRounds, Done
<1>3. CASE Exit \/ HandleSignal
  BY <1>3 DEF Exit, HandleSignal
<1>4. CASE SongChanges \/ CalmsDown
  BY <1>4 DEF SongChanges, CalmsDown
<1>5. CASE Top \/ CloseConn \/ ForgetConn \/ FreeInfo \/ ForgetInfo
  BY <1>5 DEF Top, CloseConn, ForgetConn, FreeInfo, ForgetInfo
<1>6. CASE Connect \/ SendPassword \/ FinishPassword \/ SendStatus \/ GetStatus \/ SendCurrentSong \/ GetInfo
  BY <1>6 DEF Connect, SendPassword, FinishPassword, SendStatus, GetStatus, SendCurrentSong, GetInfo, Asks
<1> QED
  BY <1>1, <1>2, <1>3, <1>4, <1>5, <1>6 DEF Next, Main

(* A signal ends the program after at most one more line, mpd-show.c:507,  *)
(* however long the delay it is in.                                        *)
THEOREM EndsPromptly == Spec => []Prompt
<1>1. Init => Ending
  BY DEF Init, Ending
<1>2. TypeOK /\ Ending /\ [Next]_vars => Ending'
  BY EndingKept DEF vars, world, Ending
<1>3. Ending => Prompt
  BY DEF Ending, Prompt
<1> QED
  BY <1>1, <1>2, <1>3, Typed, PTL DEF Spec

-----------------------------------------------------------------------------
(* Pointers.                                                               *)
LEMMA PointingKept == ASSUME TypeOK, Staged, Pointing, Next PROVE Pointing'
<1> USE DEF Pointing, Closing, Goto, pointers
<1>1. CASE Top
  BY <1>1 DEF Top
<1>2. CASE CloseConn
  BY <1>2 DEF CloseConn, Freed, HarmIf
<1>3. CASE ForgetConn
  BY <1>3 DEF ForgetConn
<1>4. CASE FreeInfo
  BY <1>4 DEF FreeInfo, Freed, HarmIf
<1>5. CASE ForgetInfo
  BY <1>5 DEF ForgetInfo, InfoPtrAfter
<1>6. CASE Connect
  BY <1>6 DEF Connect, Connected, GiveUp
<1>7. CASE SendPassword \/ SendStatus \/ SendCurrentSong
  BY <1>7 DEF SendPassword, SendStatus, SendCurrentSong, Asks, GiveUp
<1>8. CASE FinishPassword
  BY <1>8 DEF FinishPassword, ReplyFails, Connected, GiveUp
<1>9. CASE GetStatus
  BY <1>9 DEF GetStatus, ReplyFails, Returns, GiveUp
<1>10. CASE GetInfo
  BY <1>10 DEF GetInfo, ReplyFails, Returns, GiveUp
<1>11. CASE Display \/ Sleep
  <2>1. CASE Display
    BY <2>1 DEF Display
  <2>2. CASE Sleep
    <3>1. conn = "live"
      BY <2>2 DEF Sleep, TypeOK
    <3> QED
      BY <2>2, <3>1 DEF Sleep
  <2> QED
    BY <1>11, <2>1, <2>2
<1>12. CASE Exit \/ HandleSignal
  <2>1. CASE Exit
    BY <2>1 DEF Exit, Harm
  <2>2. CASE HandleSignal
    BY <2>2 DEF HandleSignal, Harm, loop
  <2> QED
    BY <1>12, <2>1, <2>2
<1>13. CASE SongChanges \/ CalmsDown
  BY <1>13 DEF SongChanges, CalmsDown, loop
<1> QED
  BY <1>1, <1>2, <1>3, <1>4, <1>5, <1>6, <1>7, <1>8, <1>9, <1>10, <1>11, <1>12, <1>13 DEF Next, Main

(* disconnectFromMPD (mpd-show.c:393), run by main on the way to every     *)
(* connect, by getSong for every song and once by exit(), frees nothing    *)
(* twice; there is a connection wherever one is used.                      *)
THEOREM FreesOnce == Spec => []FreedOnce
<1>1. Init => Pointing
  BY DEF Init, Pointing
<1>2. TypeOK /\ Staged /\ Pointing /\ [Next]_vars => Pointing'
  BY PointingKept DEF vars, pointers, loop, Pointing
<1>3. TypeOK /\ Pointing => FreedOnce
  BY DEF TypeOK, Pointing, Closing, FreedOnce
<1> QED
  BY <1>1, <1>2, <1>3, Typed, PTL DEF Spec

-----------------------------------------------------------------------------
(* Delays.                                                                 *)
NextFails == IF fails < 6 THEN fails + 1 ELSE 6

LEMMA Doubles == ASSUME fails \in 0..6 PROVE Longer(Delay(fails)) = Delay(NextFails)
<1>1. Delay(0) = 1 /\ Delay(1) = 2 /\ Delay(2) = 4 /\ Delay(3) = 8 /\ Delay(4) = 16 /\ Delay(5) = 32 /\ Delay(6) = 60
  BY DEF Delay
<1>2. fails \in {0, 1, 2, 3, 4, 5, 6}
  OBVIOUS
<1> QED
  BY <1>1, <1>2 DEF Longer, NextFails

LEMMA NoFailsNoDelay == Delay(0) = 1
BY DEF Delay

LEMMA DelayedKept == ASSUME TypeOK, Staged, Delayed, Next PROVE Delayed'
<1> USE DEF Delayed, Staged, Closing, Conversing, Resting, Goto
<1>0. fails \in 0..6 /\ timeout \in 1..60
  BY DEF TypeOK
<1>1. CASE Top
  BY <1>0, <1>1, Doubles DEF Top, Timeout1, NextFails
<1>2. CASE CloseConn \/ ForgetConn \/ FreeInfo \/ ForgetInfo
  BY <1>2 DEF CloseConn, ForgetConn, FreeInfo, ForgetInfo, loop
<1>3. CASE Connect
  BY <1>0, <1>3, NoFailsNoDelay DEF Connect, Connected, Connecting, GiveUp, Timeout1
<1>4. CASE SendPassword \/ SendStatus \/ SendCurrentSong
  BY <1>0, <1>4, NoFailsNoDelay DEF SendPassword, SendStatus, SendCurrentSong, Asks, Connecting, GiveUp
<1>5. CASE FinishPassword
  BY <1>0, <1>5, NoFailsNoDelay DEF FinishPassword, ReplyFails, Connected, Connecting, GiveUp, Timeout1
<1>6. CASE GetStatus
  BY <1>0, <1>6, NoFailsNoDelay DEF GetStatus, ReplyFails, Returns, Connecting, GiveUp
<1>7. CASE GetInfo
  BY <1>0, <1>7, NoFailsNoDelay DEF GetInfo, ReplyFails, Returns, Connecting, GiveUp
<1>8. CASE Display \/ Exit
  BY <1>8 DEF Display, Exit, loop
<1>9. CASE Sleep
  BY <1>9 DEF Sleep
<1>10. CASE HandleSignal \/ SongChanges \/ CalmsDown
  BY <1>10 DEF HandleSignal, SongChanges, CalmsDown, loop
<1> QED
  BY <1>1, <1>2, <1>3, <1>4, <1>5, <1>6, <1>7, <1>8, <1>9, <1>10 DEF Next, Main

(* mpd-show.c:125: after n attempts that have failed in a row the next is  *)
(* 2^n seconds away, a minute at most, whatever worked before them.        *)
THEOREM Backs == Spec => []BacksOff
<1>1. Init => Delayed
  BY NoFailsNoDelay DEF Init, Delayed, Closing, Conversing, Resting
<1>2. TypeOK /\ Staged /\ Delayed /\ [Next]_vars => Delayed'
  BY DelayedKept DEF vars, loop, Delayed
<1>3. Delayed => BacksOff
  BY DEF Delayed, Delay, Resting, BacksOff
<1> QED
  BY <1>1, <1>2, <1>3, Typed, PTL DEF Spec

-----------------------------------------------------------------------------
(* The conversation with MPD.                                              *)
LEMMA InTurnKept == ASSUME TypeOK, Staged, InTurn, Next PROVE InTurn'
<1> USE DEF InTurn, Staged, Closing, Conversing, Resting, Goto
<1>1. CASE Top
  BY <1>1 DEF Top, session
<1>2. CASE CloseConn \/ ForgetConn \/ FreeInfo \/ ForgetInfo
  BY <1>2 DEF CloseConn, ForgetConn, FreeInfo, ForgetInfo, session, loop
<1>3. CASE Connect
  BY <1>3 DEF Connect, Connected, GiveUp
<1>4. CASE SendPassword \/ SendStatus \/ SendCurrentSong
  BY <1>4 DEF SendPassword, SendStatus, SendCurrentSong, Asks, Continues, GiveUp, Api, Lost
<1>5. CASE FinishPassword
  BY <1>5 DEF FinishPassword, ReplyRead, ReplyFails, Connected, GiveUp
<1>6. CASE GetStatus
  BY <1>6 DEF GetStatus, ReplyRead, ReplyFails, Returns, GiveUp
<1>7. CASE GetInfo
  BY <1>7 DEF GetInfo, ReplyRead, ReplyFails, Returns, GiveUp
<1>8. CASE Display \/ Exit
  BY <1>8 DEF Display, Exit, session, loop
<1>9. CASE Sleep
  BY <1>9 DEF Sleep, session
<1>10. CASE HandleSignal \/ SongChanges \/ CalmsDown
  BY <1>10 DEF HandleSignal, SongChanges, CalmsDown, session, loop
<1> QED
  BY <1>1, <1>2, <1>3, <1>4, <1>5, <1>6, <1>7, <1>8, <1>9, <1>10 DEF Next, Main

(* No reply is left unread when the next command is sent: the library      *)
(* never refuses one of mpd-show's.                                        *)
THEOREM TakesTurns == Spec => []InTurn
<1>1. Init => InTurn
  BY DEF Init, InTurn, Resting
<1>2. TypeOK /\ Staged /\ InTurn /\ [Next]_vars => InTurn'
  BY InTurnKept DEF vars, session, loop, InTurn
<1> QED
  BY <1>1, <1>2, Typed, PTL DEF Spec

LEMMA SessionSteps ==
  ASSUME TypeOK, InTurn, Next
  PROVE  [Session!Next]_(Session!vars)
<1> USE DEF Session!vars, Goto
<1>0. request \in Seq({"password", "status", "currentsong"})
  <2>1. request \in {<<>>, <<"password">>, <<"status">>, <<"currentsong">>}
    BY DEF TypeOK
  <2>2. <<>> \in Seq({"password", "status", "currentsong"})
    OBVIOUS
  <2>3. \A c \in {"password", "status", "currentsong"} : <<c>> \in Seq({"password", "status", "currentsong"})
    OBVIOUS
  <2> QED
    BY <2>1, <2>2, <2>3
<1>1. CASE UNCHANGED <<phase, request>>
  BY <1>1
<1>2. ASSUME phase' \in {"down", "idle"}, request' = <<>> PROVE Session!Connect
  BY <1>2 DEF Session!Connect, Session!Fresh
<1>3. ASSUME phase = "awaiting", phase' = "idle", request' = request PROVE Session!Complete
  BY <1>3 DEF Session!Complete
<1>4. ASSUME phase # "down", phase' = "broken", request' = request PROVE Session!Fail
  BY <1>0, <1>4 DEF Session!Fail
<1>5. ASSUME NEW c \in {"password", "status", "currentsong"}, phase = "idle", phase' = "awaiting", request' = <<c>>
      PROVE  Session!Ask(c)
  BY <1>5 DEF Session!Ask
<1>6. CASE CloseConn
  BY <1>2, <1>6 DEF CloseConn, Session!Next
<1>7. CASE Connect
  BY <1>2, <1>7 DEF Connect, Session!Next
<1>8. CASE SendPassword \/ SendStatus \/ SendCurrentSong
  <2>1. phase = "idle"
    BY <1>8 DEF SendPassword, SendStatus, SendCurrentSong, Asks, InTurn
  <2>2. \/ phase' = "broken" /\ request' = request
        \/ \E c \in {"password", "status", "currentsong"} : phase' = "awaiting" /\ request' = <<c>>
    BY <1>8, <2>1 DEF SendPassword, SendStatus, SendCurrentSong, Asks
  <2> QED
    BY <1>4, <1>5, <2>1, <2>2 DEF Session!Next
<1>9. CASE FinishPassword \/ GetStatus \/ GetInfo
  <2>1. phase = "awaiting"
    BY <1>9 DEF FinishPassword, GetStatus, GetInfo, InTurn
  <2>2. request' = request /\ phase' \in {"idle", "broken", phase}
    BY <1>9 DEF FinishPassword, GetStatus, GetInfo, ReplyRead, ReplyFails
  <2> QED
    BY <1>1, <1>3, <1>4, <2>1, <2>2 DEF Session!Next
<1>10. CASE Top \/ ForgetConn \/ FreeInfo \/ ForgetInfo \/ Display \/ Sleep \/ Exit
  BY <1>1, <1>10 DEF Top, ForgetConn, FreeInfo, ForgetInfo, Display, Sleep, Exit, session
<1>11. CASE HandleSignal \/ SongChanges \/ CalmsDown
  BY <1>1, <1>11 DEF HandleSignal, SongChanges, CalmsDown, session
<1> QED
  BY <1>6, <1>7, <1>8, <1>9, <1>10, <1>11 DEF Next, Main

(* mpd-show is a program as MpdSession has it: step by step its use of the *)
(* connection is a session, which libmpdclient's connections implement.    *)
THEOREM IsSession == Spec => KeepsToSession
<1>1. Init => Session!Init
  BY DEF Init, Session!Init
<1>2. TypeOK /\ InTurn /\ [Next]_vars => [Session!Next]_(Session!vars)
  BY SessionSteps DEF vars, session, Session!vars
<1> QED
  BY <1>1, <1>2, Typed, TakesTurns, PTL DEF Spec, KeepsToSession, Session!Spec

-----------------------------------------------------------------------------
(* The cached song and the line.                                           *)
(* The three ways in which getSong takes the reply to status.              *)
LEMMA StatusReplies ==
  ASSUME cur \in Seen, GetStatus
  PROVE  /\ pc = "statusReply" /\ infoPtr' = infoPtr /\ info' = info /\ playing' = playing
         /\ old' = old /\ shown' = shown /\ first' = first
         /\ \/ /\ pc' = "display" /\ cur'.songid = playing /\ playing = old.songid /\ error' = 0 /\ raced' = raced
            \/ /\ pc' = IF infoPtr = "null" THEN "song" ELSE "dropInfo"
               /\ cur'.songid = playing /\ playing # old.songid
            \/ /\ pc' = "display" /\ error' # 0 /\ connected' = FALSE /\ cur' = cur /\ raced' = raced
<1>1. \A i : [cur EXCEPT !.songid = i].songid = i
  BY DEF Seen
<1>2. pc = "statusReply" /\ UNCHANGED <<pointers, old, shown, first, world>>
  BY DEF GetStatus
<1>3. CASE ReplyFails /\ UNCHANGED <<cur, stopped, raced>>
  <2>1. pc' = "display" /\ connected' = FALSE
    BY <1>3 DEF ReplyFails, GiveUp
  <2>2. error' # 0
    BY <1>3 DEF ReplyFails, Api, Ack, Lost
  <2> QED
    BY <1>2, <1>3, <2>1, <2>2 DEF pointers, world
<1>4. CASE ReplyRead /\ playing = old.songid /\ cur' = [cur EXCEPT !.songid = playing] /\ Returns(TRUE) /\ UNCHANGED raced
  BY <1>1, <1>2, <1>4 DEF ReplyRead, Returns, pointers, world
<1>5. CASE /\ playing # old.songid /\ cur' = [cur EXCEPT !.songid = playing]
           /\ pc' = IF infoPtr = "null" THEN "song" ELSE "dropInfo"
  BY <1>1, <1>2, <1>5 DEF pointers, world
<1> QED
  BY <1>3, <1>4, <1>5 DEF GetStatus

LEMMA Forgotten ==
  ASSUME cur \in Seen, old \in Seen, ForgetInfo
  PROVE  /\ infoPtr' = "null" /\ shown' = shown /\ first' = first /\ raced' = raced /\ playing' = playing
         /\ connected' = connected /\ error' = error
         /\ \/ /\ pc = "forgetInfo" /\ pc' = "connect" /\ cur'.songid = -1 /\ old'.songid = -1
               /\ old'.error = old.error
            \/ pc = "forgetDropped" /\ pc' = "song" /\ cur' = cur /\ old' = old
<1>1. \A v \in Seen : [v EXCEPT !.songid = -1].songid = -1 /\ [v EXCEPT !.songid = -1].error = v.error
  BY DEF Seen
<1>2. infoPtr' = "null" /\ UNCHANGED <<session, shown, first, loop, world, raced>>
  BY DEF ForgetInfo, InfoPtrAfter
<1>3. CASE pc = "forgetInfo"
  BY <1>1, <1>2, <1>3 DEF ForgetInfo, SongidAfter, Goto, session, loop, world
<1>4. CASE pc # "forgetInfo"
  BY <1>2, <1>4 DEF ForgetInfo, Goto, session, loop, world
<1> QED
  BY <1>3, <1>4

LEMMA CachingKept == ASSUME TypeOK, Staged, Caching, Next PROVE Caching'
<1> USE DEF Caching, Staged, Closing, Conversing, Agrees, Goto
<1>s. /\ cur \in Seen /\ old \in Seen /\ playing \in Nat /\ info \in Nat
      /\ \A v \in Seen : /\ \A c : [v EXCEPT !.error = c].songid = v.songid /\ [v EXCEPT !.error = c].error = c
                        /\ \A i : [v EXCEPT !.songid = i].songid = i
  BY SongsAssumption DEF TypeOK, Seen
<1>1. CASE Top
  BY <1>1 DEF Top, view, pointers
<1>2. CASE CloseConn \/ ForgetConn \/ FreeInfo
  BY <1>2 DEF CloseConn, ForgetConn, FreeInfo, loop, view, world
<1>3. CASE ForgetInfo
  BY <1>s, <1>3, Forgotten
<1>4. CASE Connect
  BY <1>4 DEF Connect, Connected, GiveUp, NoConnect, view
<1>5. CASE SendPassword \/ SendStatus \/ SendCurrentSong
  BY <1>5 DEF SendPassword, SendStatus, SendCurrentSong, Asks, Continues, GiveUp, Api, Lost, view, pointers, world
<1>6. CASE FinishPassword
  BY <1>6 DEF FinishPassword, ReplyFails, Connected, GiveUp, Api, Ack, Lost, view, pointers, world
<1>7. CASE GetStatus
  <2>1. pc = "statusReply" /\ connected /\ (old.songid = -1 \/ Agrees(old.songid))
    BY <1>s, <1>7, StatusReplies
  <2>2. pc' \in {"display", "song", "dropInfo"}
    BY <1>s, <1>7, StatusReplies
  <2>3. ASSUME pc' = "display" PROVE Caching'
    <3>1. connected' => error' = 0
      BY <1>s, <1>7, <2>3, StatusReplies
    <3>2. ASSUME error' = 0 PROVE cur'.songid # -1 /\ Agrees(cur.songid)'
      <4>1. cur'.songid = old.songid /\ cur'.songid = playing /\ raced' = raced /\ infoPtr' = infoPtr /\ info' = info
        BY <1>s, <1>7, <2>3, <3>2, StatusReplies
      <4> QED
        BY <1>s, <2>1, <4>1
    <3> QED
      BY <2>3, <3>1, <3>2
  <2>4. ASSUME pc' # "display" PROVE Caching'
    <3>1. cur'.songid = playing' /\ pc' = IF infoPtr' = "null" THEN "song" ELSE "dropInfo"
      BY <1>s, <1>7, <2>4, StatusReplies
    <3> QED
      BY <1>s, <1>7, <3>1, StatusReplies
  <2> QED
    BY <2>3, <2>4
<1>8. CASE GetInfo
  BY <1>s, <1>8 DEF GetInfo, ReplyRead, ReplyFails, Returns, GiveUp, Api, Ack, Lost, view, world
<1>9. CASE Display
  <2>1. cur'.songid = cur.songid /\ cur'.error = error /\ old' = cur' /\ first' = FALSE
    BY <1>s, <1>9 DEF Display
  <2>2. pc = "display" /\ pc' = "sleep" /\ UNCHANGED <<session, pointers, loop, world, raced>>
    BY <1>9 DEF Display
  <2> QED
    BY <2>1, <2>2 DEF session, pointers, loop, world
<1>10. CASE Sleep
  <2>1. pc = "sleep" /\ pc' \in {"display", "exit", "top"}
    BY <1>10 DEF Sleep
  <2>2. UNCHANGED <<session, pointers, view, connected, world, raced>>
    BY <1>10 DEF Sleep
  <2> QED
    BY <2>1, <2>2 DEF session, view, pointers, world
<1>13. CASE Exit
  BY <1>13 DEF Exit, view, pointers, loop, world
<1>11. CASE HandleSignal \/ CalmsDown
  BY <1>11 DEF HandleSignal, CalmsDown, view, pointers, loop, session
<1>12. CASE SongChanges
  BY <1>12 DEF SongChanges, Fetching, view, pointers, loop, session
<1> QED
  BY <1>1, <1>2, <1>3, <1>4, <1>5, <1>6, <1>7, <1>8, <1>9, <1>10, <1>11, <1>12, <1>13 DEF Next, Main

LEMMA ShowingKept == ASSUME TypeOK, Caching, Showing, Next PROVE Showing'
<1> USE DEF Showing, Goto
<1>s. /\ cur \in Seen /\ old \in Seen /\ playing \in Nat /\ info \in Nat
      /\ \A v \in Seen : /\ \A c : [v EXCEPT !.error = c].songid = v.songid /\ [v EXCEPT !.error = c].error = c
                        /\ \A i : [v EXCEPT !.songid = i].songid = i /\ [v EXCEPT !.songid = i].error = v.error
  BY SongsAssumption DEF TypeOK, Seen
<1>1. CASE Display
  BY <1>s, <1>1 DEF Display, NewLine, FormatLine, Caching, Agrees
<1>2. CASE GetStatus
  BY <1>s, <1>2, StatusReplies DEF Caching
<1>3. CASE ForgetInfo
  BY <1>s, <1>3, Forgotten
<1>4. CASE Top \/ CloseConn \/ ForgetConn \/ FreeInfo \/ Connect
  BY <1>4 DEF Top, CloseConn, ForgetConn, FreeInfo, Connect, view
<1>5. CASE SendPassword \/ FinishPassword \/ SendStatus \/ SendCurrentSong \/ GetInfo
  BY <1>5 DEF SendPassword, FinishPassword, SendStatus, SendCurrentSong, GetInfo, Asks, view
<1>6. CASE Sleep \/ Exit \/ HandleSignal \/ SongChanges \/ CalmsDown
  BY <1>6 DEF Sleep, Exit, HandleSignal, SongChanges, CalmsDown, view
<1> QED
  BY <1>1, <1>2, <1>3, <1>4, <1>5, <1>6 DEF Next, Main

(* The line is about the song with the id that was asked for, or about the *)
(* error, over all errors and reconnects: the id that is cached goes when  *)
(* its song goes (mpd-show.c:402, 432).                                    *)
THEOREM ShowsWhatItAsked == Spec => []ShowsAsked
<1>1. Init => Caching /\ Showing
  BY DEF Init, Caching, Showing
<1>2. TypeOK /\ Staged /\ Caching /\ Showing /\ [Next]_vars => Caching' /\ Showing'
  BY CachingKept, ShowingKept DEF vars, session, pointers, view, loop, world, Caching, Agrees, Showing
<1>3. TypeOK /\ Staged /\ Caching /\ Showing => ShowsAsked
  BY DEF TypeOK, Staged, Caching, Showing, Agrees, ShowsAsked
<1> QED
  BY <1>1, <1>2, <1>3, Typed, PTL DEF Spec
=============================================================================
