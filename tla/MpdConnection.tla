--------------------------- MODULE MpdConnection ---------------------------
(***************************************************************************)
(* libmpdclient.c: one connection between an application and the Music     *)
(* Player Daemon.  The library turns API calls into request lines, reads   *)
(* reply lines, and tracks with four fields (doneProcessing, commandList,  *)
(* listOks, doneListOk) where in the conversation it is.  The server and   *)
(* the two byte streams are external; what the library may see of them is  *)
(* all that is modelled: replies in request order, delays, a peer that     *)
(* goes away, signals that interrupt select().                             *)
(*                                                                         *)
(* Reply lines carry the request they answer (of) and its place in its     *)
(* command list (at).  The library never reads these two fields, only the  *)
(* properties do.  The same holds for broken, sent, okUnit and taken.      *)
(***************************************************************************)
EXTENDS Integers, Sequences

CONSTANTS
  Cmd,        \* plain commands (status, currentsong, clear, ...)
  BodyKinds,  \* the kinds of line a reply's body is made of
  MaxList,    \* bound: commands put in one command list
  Window      \* bound: reply lines the server may have unread before it blocks

Begin   == "command_list_begin"
OkBegin == "command_list_ok_begin"
End     == "command_list_end"
Garbled == "garbled"  \* a command glued to the unsent rest of the one before
Control == {Begin, OkBegin, End, Garbled}
Token   == Cmd \cup Control
Outbox  == MaxList + 2  \* bound: request lines the socket takes unread

ASSUME CmdAssumption     == Cmd \cap Control = {}
ASSUME BodyAssumption    == BodyKinds \subseteq {"element", "noColon", "noSpace"}
ASSUME MaxListAssumption == MaxList \in Nat
ASSUME WindowAssumption  == Window \in Nat \ {0}

Line == [kind : BodyKinds \cup {"list_OK", "ACK", "OK"}, of : Token, at : Nat]
NoLine == [kind |-> "none", of |-> Garbled, at |-> 0]

VARIABLES
  sock,            \* "none": never connected or the connect failed; "open"
  doneProcessing,  \* connection->doneProcessing
  commandList,     \* connection->commandList: "none", "list", "ok"
  listOks,         \* connection->listOks
  doneListOk,      \* connection->doneListOk
  error,           \* connection->error, by its MPD_ERROR_* name; "api" is 1
  ret,             \* connection->returnElement, or NoLine
  call,            \* the library loop the application is inside, or "none"
  wake,            \* why select() gave up: "none" (it has not), "late", "signal"
  c2s, half,       \* request lines under way; a line was cut off at the end
  s2c,             \* reply lines under way or in connection->buffer
  peer,            \* the server still has its end open
  mode,            \* server: "idle", "list", "okList", "answer", "okAnswer"
  queue, at,       \* server: the commands of the request, the one it is at
  broken,          \* a read or a send has failed since the connect
  sent, okUnit, taken  \* commands of the request, its kind, list_OKs read

client == <<sock, doneProcessing, commandList, listOks, doneListOk, error, ret, call, wake>>
server == <<peer, mode, queue, at>>
ghosts == <<broken, sent, okUnit, taken>>
vars   == <<client, c2s, half, s2c, server, ghosts>>

Errors == {"none", "api", "ack", "timeout", "closed", "sending", "connect"}

TypeOK ==
  /\ sock \in {"none", "open"}
  /\ doneProcessing \in BOOLEAN
  /\ commandList \in {"none", "list", "ok"}
  /\ listOks \in Nat
  /\ doneListOk \in BOOLEAN
  /\ error \in Errors
  /\ ret \in Line \cup {NoLine}
  /\ call \in {"none", "getNext", "finish", "nextListOk"}
  /\ wake \in {"none", "late", "signal"}
  /\ c2s \in Seq(Token)
  /\ half \in BOOLEAN
  /\ s2c \in Seq(Line)
  /\ peer \in BOOLEAN
  /\ mode \in {"idle", "list", "okList", "answer", "okAnswer"}
  /\ queue \in Seq(Token)
  /\ at \in Nat \ {0}
  /\ broken \in BOOLEAN
  /\ sent \in Seq(Cmd)
  /\ okUnit \in BOOLEAN
  /\ taken \in Nat

Init ==
  /\ sock = "none" /\ doneProcessing = FALSE /\ commandList = "none"
  /\ listOks = 0 /\ doneListOk = FALSE /\ error = "none" /\ ret = NoLine
  /\ call = "none" /\ wake = "none"
  /\ c2s = <<>> /\ half = FALSE /\ s2c = <<>>
  /\ peer = FALSE /\ mode = "idle" /\ queue = <<>> /\ at = 1
  /\ broken = FALSE /\ sent = <<>> /\ okUnit = FALSE /\ taken = 0

-----------------------------------------------------------------------------
(* mpd_closeConnection, then mpd_newConnection: every field starts anew.   *)
(* The welcome line is read before doneProcessing is set, so a connection  *)
(* object that failed to connect has doneProcessing = 0 and refuses        *)
(* commands.                                                               *)
NewConnection(connected) ==
  /\ call = "none"
  /\ sock' = IF connected THEN "open" ELSE "none"
  /\ doneProcessing' = connected
  /\ error' = IF connected THEN "none" ELSE "connect"
  /\ commandList' = "none" /\ listOks' = 0 /\ doneListOk' = FALSE
  /\ ret' = NoLine /\ call' = "none" /\ wake' = "none"
  /\ c2s' = <<>> /\ half' = FALSE /\ s2c' = <<>>
  /\ peer' = connected /\ mode' = "idle" /\ queue' = <<>> /\ at' = 1
  /\ broken' = FALSE /\ sent' = <<>> /\ okUnit' = FALSE /\ taken' = 0

ClearError ==
  /\ call = "none" /\ error # "none"
  /\ error' = "none"
  /\ UNCHANGED <<sock, doneProcessing, commandList, listOks, doneListOk, ret, call, wake,
                 c2s, half, s2c, server, ghosts>>

-----------------------------------------------------------------------------
(* mpd_executeCommand.  CanExecute is its only check; Transmit is the      *)
(* select/send loop with its outcomes: the whole line is sent, or the      *)
(* loop ends early and leaves nothing or a part of the line in the stream. *)
Idle == sock = "open" /\ call = "none"

CanExecute_NoCheck(list) == TRUE  \* mutant: the check is dropped
CanExecute(list) == doneProcessing \/ list # "none"

Transmit(token) ==
  \/ /\ Len(c2s) < Outbox
     /\ c2s' = IF peer THEN Append(c2s, IF half THEN Garbled ELSE token) ELSE c2s
     /\ half' = FALSE
     /\ error' = "none"
     /\ UNCHANGED broken
  \/ /\ error' \in IF peer THEN {"timeout"} ELSE {"timeout", "sending"}
     /\ half' \in {half, TRUE}
     /\ broken' = TRUE
     /\ UNCHANGED c2s

Sent == error' = "none"

(* A send function called outside a command list.  *)
SendCommand(c) ==
  /\ Idle /\ commandList = "none" /\ CanExecute("none")
  /\ Transmit(c)
  /\ doneProcessing' = ~Sent
  /\ IF Sent THEN sent' = <<c>> /\ okUnit' = FALSE /\ taken' = 0
             ELSE UNCHANGED <<sent, okUnit, taken>>
  /\ UNCHANGED <<sock, commandList, listOks, doneListOk, ret, call, wake, s2c, server>>

(* A send function called inside a command list: no reply is expected yet. *)
QueueCommand(c) ==
  /\ Idle /\ commandList # "none" /\ Len(sent) < MaxList
  /\ Transmit(c)
  /\ listOks' = IF Sent /\ commandList = "ok" THEN listOks + 1 ELSE listOks
  /\ sent' = IF Sent THEN Append(sent, c) ELSE sent
  /\ UNCHANGED <<sock, doneProcessing, commandList, doneListOk, ret, call, wake, s2c, server,
                 okUnit, taken>>

(* mpd_sendCommandListBegin and mpd_sendCommandListOkBegin.  commandList   *)
(* is set first, so mpd_executeCommand never refuses these two.  The reset *)
(* of listOks comes last: mpd_executeCommand has counted the begin itself. *)
ListOksAtBegin(list) == IF list = "ok" THEN 0 ELSE listOks

CommandListBegin(list) ==
  /\ Idle /\ commandList = "none"
  /\ commandList' = list
  /\ Transmit(IF list = "ok" THEN OkBegin ELSE Begin)
  /\ listOks' = ListOksAtBegin(list)
  /\ sent' = <<>> /\ okUnit' = (list = "ok") /\ taken' = 0
  /\ UNCHANGED <<sock, doneProcessing, doneListOk, ret, call, wake, s2c, server>>

CommandListEnd ==
  /\ Idle /\ commandList # "none" /\ CanExecute("none")
  /\ commandList' = "none"
  /\ Transmit(End)
  /\ doneProcessing' = ~Sent
  /\ UNCHANGED <<sock, listOks, doneListOk, ret, call, wake, s2c, server, sent, okUnit, taken>>

(* Calls out of turn only report an error; a refused list end has already  *)
(* left list mode.                                                         *)
Refuse ==
  /\ Idle
  /\ \/ /\ commandList = "none"            \* "not in command list mode", or
        /\ UNCHANGED commandList           \* "not done processing current command"
     \/ /\ commandList # "none"            \* "already in command list mode"
        /\ UNCHANGED commandList
     \/ /\ commandList # "none" /\ ~CanExecute("none")
        /\ commandList' = "none"
  /\ error' = "api"
  /\ UNCHANGED <<sock, doneProcessing, listOks, doneListOk, ret, call, wake, c2s, half, s2c,
                 server, ghosts>>

-----------------------------------------------------------------------------
(* Starting a read.  mpd_getNextReturnElement drops the element it handed  *)
(* out last and refuses when the reply, or its list_OK part, is complete.  *)
(* mpd_finishCommand and mpd_nextListOkCommand call it in a loop; ReadMore *)
(* holds while their loop condition does.                                  *)
PartComplete_IgnoresListOk == doneProcessing  \* mutant
PartComplete == doneProcessing \/ (listOks > 0 /\ doneListOk)

GetNext ==
  /\ Idle
  /\ ret' = NoLine
  /\ IF PartComplete THEN error' = "api" /\ call' = "none"
                     ELSE call' = "getNext" /\ UNCHANGED error
  /\ UNCHANGED <<sock, doneProcessing, commandList, listOks, doneListOk, wake,
                 c2s, half, s2c, server, ghosts>>

ReadMore(loop, done, count, listOk) ==
  \/ loop = "finish" /\ ~done
  \/ loop = "nextListOk" /\ ~done /\ count > 0 /\ ~listOk

(* finishCommand clears doneListOk before every read, nextListOkCommand    *)
(* once its loop is over.                                                  *)
Enter(loop) ==
  /\ Idle
  /\ IF ReadMore(loop, doneProcessing, listOks, doneListOk)
     THEN /\ call' = loop
          /\ ret' = NoLine
          /\ doneListOk' = FALSE
     ELSE /\ doneListOk' = (doneListOk /\ doneProcessing)
          /\ UNCHANGED <<call, ret>>
  /\ UNCHANGED <<sock, doneProcessing, commandList, listOks, error, wake,
                 c2s, half, s2c, server, ghosts>>

FinishCommand     == Enter("finish")
NextListOkCommand == Enter("nextListOk")

-----------------------------------------------------------------------------
(* The select/recv loop of mpd_getNextReturnElement and its parser.        *)
Waiting == call # "none"

(* What a line of kind k does to the fields. *)
Completes_Part(k)    == k \in {"OK", "ACK", "list_OK"}  \* mutant
Completes(k) == k \in {"OK", "ACK"}

Unexpected(k) ==
  \/ k = "OK" /\ listOks > 0        \* "expected more list_OK's"
  \/ k = "list_OK" /\ listOks = 0   \* "got an unexpected list_OK"
  \/ k = "noSpace"                  \* "error parsing"

ListOksAfter(k) ==
  IF k = "OK" THEN 0 ELSE IF k = "list_OK" /\ listOks > 0 THEN listOks - 1 ELSE listOks

DoneListOkAfter(k) == ~Completes(k) /\ (doneListOk \/ (k = "list_OK" /\ listOks > 0))

ErrorAfter(k) == IF Unexpected(k) THEN "api" ELSE IF k = "ACK" THEN "ack" ELSE error

(* The end of one read with the fields it leaves: the next iteration of    *)
(* the enclosing loop, or the return to the application.                   *)
EndRead(done, count, listOk, err) ==
  LET more == ReadMore(call, done, count, listOk)
  IN /\ doneProcessing' = done
     /\ listOks' = count
     /\ error' = err
     /\ call' = IF more THEN call ELSE "none"
     /\ doneListOk' = (listOk /\ ~more /\ (call = "nextListOk" => done))

TakeLine ==
  /\ Waiting /\ wake = "none" /\ s2c # <<>>
  /\ LET line == Head(s2c)
         k    == line.kind
     IN /\ EndRead(Completes(k), ListOksAfter(k), DoneListOkAfter(k), ErrorAfter(k))
        /\ ret' = IF k = "element" THEN line ELSE NoLine
        /\ taken' = IF k = "list_OK" /\ listOks > 0 THEN taken + 1 ELSE taken
  /\ s2c' = Tail(s2c)
  /\ UNCHANGED <<sock, commandList, wake, c2s, half, server, broken, sent, okUnit>>

Lost_KeepsWaiting(why) ==  \* mutant: doneProcessing is not set
  EndRead(FALSE, listOks, FALSE, why) /\ ret' = NoLine /\ broken' = TRUE
Lost(why) == EndRead(TRUE, listOks, FALSE, why) /\ ret' = NoLine /\ broken' = TRUE

(* recv() finds the stream at its end.  *)
PeerClosed ==
  /\ Waiting /\ wake = "none" /\ s2c = <<>> /\ ~peer
  /\ Lost("closed")
  /\ UNCHANGED <<sock, commandList, wake, c2s, half, s2c, server, sent, okUnit, taken>>

(* select() gave up.  A signal and the end of the time are told apart by   *)
(* err < 0, but err holds the truth value of select(...) == 1: both are    *)
(* "connection timeout".                                                   *)
GiveUp ==
  /\ Waiting /\ wake # "none"
  /\ Lost("timeout")
  /\ wake' = "none"
  /\ UNCHANGED <<sock, commandList, c2s, half, s2c, server, sent, okUnit, taken>>

(* The environment: the armed select() runs out of time, or a signal       *)
(* handler runs, perhaps just before a line arrives.                       *)
Wakes(why) ==
  /\ Waiting /\ wake = "none"
  /\ wake' = why
  /\ UNCHANGED <<sock, doneProcessing, commandList, listOks, doneListOk, error, ret, call,
                 c2s, half, s2c, server, ghosts>>

-----------------------------------------------------------------------------
(* The server, as far as the library relies on it.                         *)
Reply(line) == s2c' = Append(s2c, line)
Room == Len(s2c) < Window

ServerReads ==
  /\ peer /\ mode \in {"idle", "list", "okList"} /\ c2s # <<>>
  /\ LET token == Head(c2s)
     IN \/ /\ mode = "idle" /\ token \in {Begin, OkBegin}
           /\ mode' = IF token = OkBegin THEN "okList" ELSE "list"
           /\ UNCHANGED queue
        \/ /\ mode = "idle" /\ token \notin {Begin, OkBegin}
           /\ mode' = "answer" /\ queue' = <<token>>
        \/ /\ mode # "idle" /\ token # End
           /\ queue' = Append(queue, token)
           /\ UNCHANGED mode
        \/ /\ mode # "idle" /\ token = End
           /\ mode' = IF mode = "okList" THEN "okAnswer" ELSE "answer"
           /\ UNCHANGED queue
  /\ c2s' = Tail(c2s)
  /\ UNCHANGED <<client, half, s2c, peer, at, ghosts>>

Answering == peer /\ mode \in {"answer", "okAnswer"} /\ Room

ServerBody ==
  /\ Answering /\ at <= Len(queue) /\ queue[at] \in Cmd
  /\ \E k \in BodyKinds : Reply([kind |-> k, of |-> queue[at], at |-> at])
  /\ UNCHANGED <<client, c2s, half, server, ghosts>>

ServerNext ==
  /\ Answering /\ at <= Len(queue) /\ queue[at] \in Cmd
  /\ IF mode = "okAnswer" THEN Reply([kind |-> "list_OK", of |-> queue[at], at |-> at])
                          ELSE UNCHANGED s2c
  /\ at' = at + 1
  /\ UNCHANGED <<client, c2s, half, peer, mode, queue, ghosts>>

BackToIdle == mode' = "idle" /\ queue' = <<>> /\ at' = 1

ServerRefuses ==
  /\ Answering /\ at <= Len(queue)
  /\ Reply([kind |-> "ACK", of |-> queue[at], at |-> at])
  /\ BackToIdle
  /\ UNCHANGED <<client, c2s, half, peer, ghosts>>

ServerFinishes ==
  /\ Answering /\ at > Len(queue)
  /\ Reply([kind |-> "OK", of |-> Garbled, at |-> at])
  /\ BackToIdle
  /\ UNCHANGED <<client, c2s, half, peer, ghosts>>

(* The server exits, or drops the connection; what it wrote still arrives. *)
ServerCloses ==
  /\ peer /\ peer' = FALSE
  /\ BackToIdle
  /\ c2s' = <<>>
  /\ UNCHANGED <<client, half, s2c, ghosts>>

-----------------------------------------------------------------------------
(* An application that follows the library's protocol, as mpd-show.c and   *)
(* mpd-state.c do: it begins a command list only when the last reply is    *)
(* read, and sends nothing more over a connection that has failed.         *)
Sends ==
  \/ \E c \in Cmd : SendCommand(c) \/ QueueCommand(c)
  \/ \E l \in {"list", "ok"} : doneProcessing /\ CommandListBegin(l)
  \/ CommandListEnd

ClientCalls ==
  \/ \E ok \in BOOLEAN : NewConnection(ok)
  \/ ClearError
  \/ Refuse
  \/ ~broken /\ Sends
  \/ GetNext \/ FinishCommand \/ NextListOkCommand

ClientReads == TakeLine \/ PeerClosed \/ GiveUp
TimeRunsOut == Wakes("late")
Signal      == Wakes("signal")
Server      == ServerReads \/ ServerBody \/ ServerNext \/ ServerRefuses \/ ServerFinishes
                 \/ ServerCloses

Next == ClientCalls \/ ClientReads \/ TimeRunsOut \/ Signal \/ Server

Spec == Init /\ [][Next]_vars

(* A library call runs while its process does; a select() that nothing     *)
(* wakes ends with its timeout; the server ends every reply it has begun.  *)
Fairness ==
  /\ WF_vars(ClientReads)
  /\ WF_vars(TimeRunsOut)
  /\ SF_vars(ServerFinishes \/ ServerRefuses)
  /\ SF_vars(ServerNext)

FairSpec == Spec /\ Fairness

-----------------------------------------------------------------------------
(* Correctness. *)
Healthy == sock = "open" /\ ~broken

(* When a command is complete and no list is open, nothing of it is left   *)
(* anywhere: the next reply line will belong to the next command.  It is   *)
(* what lets mpd_executeCommand rely on doneProcessing alone.              *)
InSync ==
  Healthy /\ doneProcessing /\ commandList = "none" =>
    c2s = <<>> /\ s2c = <<>> /\ mode = "idle"

(* A returned element answers a command of the request being read; in a    *)
(* list_OK list it is of the very part the application is in, which it     *)
(* leaves only through mpd_nextListOkCommand or mpd_finishCommand; and     *)
(* listOks counts the list_OKs still to be read, from the first command    *)
(* queued to the last part read.                                           *)
ReplyMatchesRequest ==
  Healthy =>
    /\ ret # NoLine => /\ ret.at \in 1..Len(sent) /\ ret.of = sent[ret.at]
                       /\ okUnit => ret.at = taken + 1 /\ ~doneListOk
    /\ okUnit => listOks + taken = Len(sent)

(* The library never waits for a reply nobody owes it.                     *)
ReplyDue ==
  Healthy /\ peer /\ Waiting => s2c # <<>> \/ c2s # <<>> \/ mode \in {"answer", "okAnswer"}

(* A request line is on its way only when the reply before it is read: the *)
(* check "not done processing current command" of mpd_executeCommand.      *)
NoPipelining ==
  Healthy /\ c2s # <<>> => s2c = <<>> /\ mode \notin {"answer", "okAnswer"}

(* Every loop over mpd_getNextReturnElement returns to the application.    *)
CallReturns == Waiting ~> ~Waiting

(* The connection keeps the promise of MpdSession.                         *)
Phase ==
  CASE sock = "none" -> "down"
    [] sock = "open" /\ broken -> "broken"
    [] Healthy /\ commandList # "none" -> "collecting"
    [] Healthy /\ commandList = "none" /\ doneProcessing -> "idle"
    [] Healthy /\ commandList = "none" /\ ~doneProcessing -> "awaiting"

Session == INSTANCE MpdSession WITH
  phase <- Phase, request <- sent, inParts <- okUnit, parts <- taken, holding <- ret.at

ImplementsSession == Session!Spec

-----------------------------------------------------------------------------
(* Where the conversation is: the inductive invariant behind InSync,       *)
(* ReplyDue and NoPipelining.  Exactly one reply is owed while a command   *)
(* is being processed, and none before.                                    *)
Listing == mode \in {"list", "okList"}
Silent  == c2s = <<>> /\ mode = "idle"

Open(lines)   == \A i \in 1..Len(lines) : ~Completes(lines[i].kind)
Closed(lines) == /\ lines # <<>> /\ Completes(lines[Len(lines)].kind)
                 /\ \A i \in 1..Len(lines) - 1 : ~Completes(lines[i].kind)

(* The server has read, or will read from c2s, the begin of a list and     *)
(* commands only.                                                          *)
ListOpened ==
  \/ mode = "idle" /\ c2s # <<>> /\ c2s[1] \in {Begin, OkBegin}
       /\ \A i \in 2..Len(c2s) : c2s[i] \in Cmd
  \/ Listing /\ \A i \in 1..Len(c2s) : c2s[i] \in Cmd

(* The same and then its end, or one plain command: a request to answer.   *)
RequestComing ==
  \/ mode = "idle" /\ Len(c2s) = 1 /\ c2s[1] \in Cmd
  \/ mode = "idle" /\ Len(c2s) > 1 /\ c2s[1] \in {Begin, OkBegin} /\ c2s[Len(c2s)] = End
       /\ \A i \in 2..Len(c2s) - 1 : c2s[i] \in Cmd
  \/ Listing /\ c2s # <<>> /\ c2s[Len(c2s)] = End
       /\ \A i \in 1..Len(c2s) - 1 : c2s[i] \in Cmd

Collecting == s2c = <<>> /\ ((peer /\ ListOpened) \/ (~peer /\ Silent))

Awaiting ==
  \/ peer /\ s2c = <<>> /\ RequestComing
  \/ peer /\ c2s = <<>> /\ mode \in {"answer", "okAnswer"} /\ Open(s2c)
  \/ Silent /\ Closed(s2c)
  \/ ~peer /\ Silent /\ Open(s2c)

Conversation ==
  /\ Waiting => ~doneProcessing
  /\ commandList # "none" => doneProcessing
  /\ Healthy =>
       /\ ~half
       /\ commandList # "none" => Collecting
       /\ commandList = "none" /\ doneProcessing => Silent /\ s2c = <<>>
       /\ ~doneProcessing => Awaiting
=============================================================================
