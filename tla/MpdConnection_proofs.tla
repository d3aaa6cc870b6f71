------------------------ MODULE MpdConnection_proofs ------------------------
(***************************************************************************)
(* Proofs about MpdConnection, for every Cmd, MaxList and Window: that a   *)
(* reply is owed or none is, that it is handed out as the answer to the    *)
(* request made only, and that a connection keeps the promise of           *)
(* MpdSession.                                                             *)
(***************************************************************************)
EXTENDS MpdConnection, SequenceTheorems, TLAPS

(* TypeOK in two parts, which different provers handle.                    *)
Flags ==
  /\ doneProcessing \in BOOLEAN /\ doneListOk \in BOOLEAN /\ half \in BOOLEAN
  /\ peer \in BOOLEAN /\ broken \in BOOLEAN /\ okUnit \in BOOLEAN

Data ==
  /\ sock \in {"none", "open"}
  /\ commandList \in {"none", "list", "ok"}
  /\ listOks \in Nat
  /\ error \in Errors
  /\ ret \in Line \cup {NoLine}
  /\ call \in {"none", "getNext", "finish", "nextListOk"}
  /\ wake \in {"none", "late", "signal"}
  /\ c2s \in Seq(Token)
  /\ s2c \in Seq(Line)
  /\ mode \in {"idle", "list", "okList", "answer", "okAnswer"}
  /\ queue \in Seq(Token)
  /\ at \in Nat \ {0}
  /\ sent \in Seq(Cmd)
  /\ taken \in Nat

LEMMA TypeSplit == TypeOK <=> Flags /\ Data
BY DEF TypeOK, Flags, Data

LEMMA TokenType == {Begin, OkBegin, End, Garbled} \subseteq Token /\ Cmd \subseteq Token
BY DEF Token, Control

(* The flags stay flags in every step of the library and its environment.  *)
LEMMA FlagsKept == Flags /\ [Next]_vars => Flags'
<1> SUFFICES ASSUME Flags, [Next]_vars PROVE Flags'
  OBVIOUS
<1> USE DEF Flags, Sent
<1>1. ASSUME NEW ok \in BOOLEAN, NewConnection(ok) PROVE Flags'
  BY <1>1 DEF NewConnection
<1>2. CASE ClearError \/ Refuse \/ GetNext
  BY <1>2 DEF ClearError, Refuse, GetNext, server, ghosts
<1>3. ASSUME NEW token, Transmit(token) PROVE half' \in BOOLEAN /\ broken' \in BOOLEAN
  BY <1>3 DEF Transmit
<1>4. ASSUME NEW c \in Cmd, SendCommand(c) PROVE Flags'
  BY <1>3, <1>4 DEF SendCommand, server
<1>5. ASSUME NEW c \in Cmd, QueueCommand(c) PROVE Flags'
  BY <1>3, <1>5 DEF QueueCommand, server
<1>6. ASSUME NEW l \in {"list", "ok"}, CommandListBegin(l) PROVE Flags'
  BY <1>3, <1>6 DEF CommandListBegin, server
<1>7. CASE CommandListEnd
  BY <1>3, <1>7 DEF CommandListEnd, server
<1>8. CASE FinishCommand \/ NextListOkCommand
  BY <1>8 DEF FinishCommand, NextListOkCommand, Enter, server, ghosts
<1>9. ASSUME NEW done \in BOOLEAN, NEW count, NEW listOk, NEW err, EndRead(done, count, listOk, err)
      PROVE  doneProcessing' \in BOOLEAN /\ doneListOk' \in BOOLEAN
  BY <1>9 DEF EndRead
<1>10. ASSUME NEW k PROVE Completes(k) \in BOOLEAN
  BY DEF Completes
<1>11. CASE TakeLine
  BY <1>9, <1>10, <1>11 DEF TakeLine, server
<1>12. CASE PeerClosed \/ GiveUp
  BY <1>9, <1>12 DEF PeerClosed, GiveUp, Lost, server
<1>13. CASE TimeRunsOut \/ Signal
  BY <1>13 DEF TimeRunsOut, Signal, Wakes, server, ghosts
<1>14. CASE Server
  BY <1>14 DEF Server, ServerReads, ServerBody, ServerNext, ServerRefuses, ServerFinishes,
               ServerCloses, client, server, ghosts
<1>15. CASE UNCHANGED vars
  BY <1>15 DEF vars, client, server, ghosts
<1> QED
  BY <1>1, <1>2, <1>4, <1>5, <1>6, <1>7, <1>8, <1>11, <1>12, <1>13, <1>14, <1>15
  DEF Next, ClientCalls, Sends, ClientReads

(* The other variables keep their types.                                   *)
LEMMA DataKept == Flags /\ Data /\ [Next]_vars => Data'
<1> SUFFICES ASSUME Flags, Data, [Next]_vars PROVE Data'
  OBVIOUS
<1> USE TokenType
<1>1. ASSUME NEW ok \in BOOLEAN, NewConnection(ok) PROVE Data'
  BY <1>1 DEF NewConnection, Data, Errors
<1>2. CASE ClearError \/ Refuse \/ GetNext
  BY <1>2 DEF ClearError, Refuse, GetNext, Data, Errors, server, ghosts
<1>3. ASSUME NEW token \in Token, Transmit(token) PROVE c2s' \in Seq(Token) /\ error' \in Errors
  <2>1. c2s' \in {c2s, Append(c2s, token), Append(c2s, Garbled)}
    BY <1>3 DEF Transmit
  <2>2. error' \in {"none", "timeout", "sending"}
    BY <1>3 DEF Transmit
  <2>3. Append(c2s, token) \in Seq(Token) /\ Append(c2s, Garbled) \in Seq(Token)
    BY DEF Data
  <2>4. c2s' \in Seq(Token)
    BY <2>1, <2>3 DEF Data
  <2> QED BY <2>2, <2>4 DEF Errors
<1>4. ASSUME NEW c \in Cmd, SendCommand(c) PROVE Data'
  <2>1. sent' \in {<<c>>, sent} /\ taken' \in {0, taken}
    BY <1>4 DEF SendCommand
  <2>2. UNCHANGED <<sock, commandList, listOks, ret, call, wake, s2c, mode, queue, at>>
    BY <1>4 DEF SendCommand, server
  <2>3. c2s' \in Seq(Token) /\ error' \in Errors
    BY <1>3, <1>4 DEF SendCommand
  <2>4. <<c>> \in Seq(Cmd) /\ sent \in Seq(Cmd)
    BY DEF Data
  <2>5. sent' \in Seq(Cmd)
    BY <2>1, <2>4
  <2>6. taken' \in Nat
    BY <2>1 DEF Data
  <2> QED BY <2>2, <2>3, <2>5, <2>6 DEF Data
<1>5. ASSUME NEW c \in Cmd, QueueCommand(c) PROVE Data'
  BY <1>3, <1>5 DEF QueueCommand, Data, server
<1>6. ASSUME NEW l \in {"list", "ok"}, CommandListBegin(l) PROVE Data'
  BY <1>3, <1>6 DEF CommandListBegin, ListOksAtBegin, Data, server
<1>7. CASE CommandListEnd
  BY <1>3, <1>7 DEF CommandListEnd, Data, server
<1>8. CASE FinishCommand \/ NextListOkCommand
  BY <1>8 DEF FinishCommand, NextListOkCommand, Enter, Data, server, ghosts
<1>9. ASSUME NEW done, NEW count, NEW listOk, NEW err, EndRead(done, count, listOk, err)
      PROVE  listOks' = count /\ error' = err /\ call' \in {call, "none"}
  BY <1>9 DEF EndRead
<1>10. CASE TakeLine
  <2> DEFINE line == Head(s2c)
  <2>1. line \in Line /\ Tail(s2c) \in Seq(Line)
    BY <1>10, HeadTailProperties DEF TakeLine, Data
  <2>2. listOks' = ListOksAfter(line.kind) /\ error' = ErrorAfter(line.kind) /\ call' \in {call, "none"}
    BY <1>9, <1>10 DEF TakeLine
  <2>3. ListOksAfter(line.kind) \in Nat /\ ErrorAfter(line.kind) \in Errors
    BY DEF ListOksAfter, ErrorAfter, Errors, Data
  <2>4. taken' \in Nat /\ ret' \in Line \cup {NoLine}
    BY <1>10, <2>1 DEF TakeLine, Data
  <2> QED BY <1>10, <2>1, <2>2, <2>3, <2>4 DEF TakeLine, Data, server
<1>11. ASSUME NEW why, Lost(why)
       PROVE  listOks' = listOks /\ error' = why /\ call' \in {call, "none"} /\ ret' = NoLine
  BY <1>9, <1>11 DEF Lost
<1>12. CASE PeerClosed
  <2>1. listOks' = listOks /\ error' = "closed" /\ call' \in {call, "none"} /\ ret' = NoLine
    BY <1>11, <1>12 DEF PeerClosed
  <2> QED BY <1>12, <2>1 DEF PeerClosed, Data, Errors, server
<1>13. CASE GiveUp
  <2>1. listOks' = listOks /\ error' = "timeout" /\ call' \in {call, "none"} /\ ret' = NoLine
    BY <1>11, <1>13 DEF GiveUp
  <2> QED BY <1>13, <2>1 DEF GiveUp, Data, Errors, server
<1>14. CASE TimeRunsOut \/ Signal
  BY <1>14 DEF TimeRunsOut, Signal, Wakes, Data, server, ghosts
<1>15. CASE ServerReads
  <2>1. Head(c2s) \in Token /\ Tail(c2s) \in Seq(Token)
    BY <1>15, HeadTailProperties DEF ServerReads, Data
  <2>2. queue' \in {queue, <<Head(c2s)>>, Append(queue, Head(c2s))}
    BY <1>15 DEF ServerReads
  <2>3. mode' \in {mode, "list", "okList", "answer", "okAnswer"}
    BY <1>15 DEF ServerReads
  <2>4. queue' \in Seq(Token)
    <3>1. <<Head(c2s)>> \in Seq(Token) /\ Append(queue, Head(c2s)) \in Seq(Token)
      BY <2>1 DEF Data
    <3> QED BY <2>2, <3>1 DEF Data
  <2>5. UNCHANGED <<client, s2c, at, ghosts>> /\ c2s' = Tail(c2s)
    BY <1>15 DEF ServerReads
  <2> QED BY <2>1, <2>3, <2>4, <2>5 DEF Data, client, ghosts
<1>16. ASSUME NEW line \in Line, Reply(line) PROVE s2c' \in Seq(Line)
  BY <1>16 DEF Reply, Data
<1>17. CASE ServerBody
  <2>1. \A k \in BodyKinds : [kind |-> k, of |-> queue[at], at |-> at] \in Line
    BY <1>17 DEF ServerBody, Data, Line
  <2> QED BY <1>16, <1>17, <2>1 DEF ServerBody, Data, client, server, ghosts
<1>18. CASE ServerNext
  <2>1. [kind |-> "list_OK", of |-> queue[at], at |-> at] \in Line /\ at + 1 \in Nat \ {0}
    BY <1>18 DEF ServerNext, Data, Line
  <2> QED BY <1>16, <1>18, <2>1 DEF ServerNext, Data, client, ghosts
<1>19. BackToIdle => mode' = "idle" /\ queue' \in Seq(Token) /\ at' \in Nat \ {0}
  BY DEF BackToIdle
<1>20. CASE ServerRefuses
  <2>1. queue[at] \in Token
    BY <1>20 DEF ServerRefuses, Data
  <2>2. [kind |-> "ACK", of |-> queue[at], at |-> at] \in Line
    BY <2>1 DEF Data, Line
  <2> QED BY <1>16, <1>19, <1>20, <2>2 DEF ServerRefuses, Data, client, ghosts
<1>21. CASE ServerFinishes
  <2>1. [kind |-> "OK", of |-> Garbled, at |-> at] \in Line
    BY DEF Data, Line
  <2> QED BY <1>16, <1>19, <1>21, <2>1 DEF ServerFinishes, Data, client, ghosts
<1>22. CASE ServerCloses
  BY <1>19, <1>22 DEF ServerCloses, Data, client, ghosts
<1>23. CASE UNCHANGED vars
  BY <1>23 DEF vars, client, server, ghosts, Data
<1> QED
  BY <1>1, <1>2, <1>4, <1>5, <1>6, <1>7, <1>8, <1>10, <1>12, <1>13, <1>14, <1>15, <1>17,
     <1>18, <1>20, <1>21, <1>22, <1>23
  DEF Next, ClientCalls, Sends, ClientReads, Server

(* Every variable keeps its type: the fields of mpd_Connection             *)
(* (libmpdclient.h, lines 104-129), the lines under way and the server.    *)
THEOREM Typed == Spec => []TypeOK
<1>1. Init => Flags
  BY DEF Init, Flags
<1>2. Init => Data
  BY DEF Init, Data, Errors
<1>3. TypeOK /\ [Next]_vars => TypeOK'
  BY TypeSplit, FlagsKept, DataKept DEF TypeOK, Flags, Data
<1> QED BY <1>1, <1>2, <1>3, TypeSplit, PTL DEF Spec

-----------------------------------------------------------------------------
(* Reply lines taken from the front and added at the back.                 *)
LEMMA OpenTail ==
  ASSUME NEW lines \in Seq(Line), lines # <<>>, Open(lines)
  PROVE  ~Completes(Head(lines).kind) /\ Open(Tail(lines))
BY HeadTailProperties DEF Open

LEMMA ClosedTail ==
  ASSUME NEW S, NEW lines \in Seq(S), Closed(lines)
  PROVE  \/ Len(lines) = 1 /\ Completes(Head(lines).kind) /\ Tail(lines) = <<>>
         \/ Len(lines) > 1 /\ ~Completes(Head(lines).kind) /\ Closed(Tail(lines))
<1>1. lines # <<>> /\ Len(lines) \in Nat /\ Len(lines) >= 1
  BY EmptySeq DEF Closed
<1>2. /\ Tail(lines) \in Seq(S) /\ Len(Tail(lines)) = Len(lines) - 1
      /\ \A i \in 1..Len(Tail(lines)) : Tail(lines)[i] = lines[i + 1]
      /\ Head(lines) = lines[1]
  BY <1>1, HeadTailProperties
<1>3. CASE Len(lines) = 1
  <2>1. Len(Tail(lines)) = 0
    BY <1>2, <1>3
  <2>2. Tail(lines) = <<>>
    BY <1>2, <2>1, EmptySeq
  <2>3. Completes(Head(lines).kind)
    BY <1>2, <1>3 DEF Closed
  <2> QED BY <1>3, <2>2, <2>3
<1>4. CASE Len(lines) > 1
  <2>1. Tail(lines) # <<>>
    <3>1. Len(Tail(lines)) # 0
      BY <1>1, <1>2, <1>4
    <3>2. Len(<<>>) = 0
      BY EmptySeq
    <3> QED BY <3>1, <3>2
  <2>2. Tail(lines)[Len(Tail(lines))] = lines[Len(lines)]
    BY <1>1, <1>2, <1>4
  <2>3. \A i \in 1..Len(Tail(lines)) - 1 : Tail(lines)[i] = lines[i + 1] /\ i + 1 \in 1..Len(lines) - 1
    BY <1>1, <1>2
  <2>4. Closed(Tail(lines))
    BY <2>1, <2>2, <2>3 DEF Closed
  <2> QED BY <1>1, <1>2, <1>4, <2>4 DEF Closed
<1>5. \A n \in Nat : n >= 1 => n = 1 \/ n > 1
  OBVIOUS
<1> QED BY <1>1, <1>3, <1>4, <1>5

LEMMA OpenAppend ==
  ASSUME NEW lines \in Seq(Line), NEW line \in Line, Open(lines), ~Completes(line.kind)
  PROVE  Open(Append(lines, line))
BY DEF Open

LEMMA ClosedAppend ==
  ASSUME NEW lines \in Seq(Line), NEW line \in Line, Open(lines), Completes(line.kind)
  PROVE  Closed(Append(lines, line))
BY DEF Open, Closed

(* Request lines added at the back and read by the server.                 *)
LEMMA ListOpenedAppend ==
  ASSUME Data, ListOpened, NEW c \in Cmd, c2s' = Append(c2s, c), mode' = mode
  PROVE  ListOpened'
<1>1. c2s \in Seq(Token) /\ c2s' \in Seq(Token) /\ Len(c2s') = Len(c2s) + 1
      /\ c2s'[Len(c2s) + 1] = c /\ \A i \in 1..Len(c2s) : c2s'[i] = c2s[i]
  BY TokenType DEF Data
<1>2. CASE mode = "idle"
  <2>1. Len(c2s) \in Nat \ {0} /\ c2s[1] \in {Begin, OkBegin} /\ \A i \in 2..Len(c2s) : c2s[i] \in Cmd
    BY <1>1, <1>2, EmptySeq DEF ListOpened, Listing
  <2>2. c2s' # <<>> /\ c2s'[1] \in {Begin, OkBegin} /\ \A i \in 2..Len(c2s') : c2s'[i] \in Cmd
    BY <1>1, <2>1
  <2> QED BY <1>2, <2>2 DEF ListOpened
<1>3. CASE Listing
  BY <1>1, <1>3 DEF ListOpened, Listing
<1> QED BY <1>2, <1>3 DEF ListOpened

LEMMA RequestComingAppend ==
  ASSUME Data, ListOpened, c2s' = Append(c2s, End), mode' = mode
  PROVE  RequestComing'
BY TokenType DEF Data, ListOpened, RequestComing, Listing

-----------------------------------------------------------------------------
(* The conversation invariant, action by action.                           *)
talk == <<sock, doneProcessing, commandList, call, c2s, half, s2c, peer, mode, broken>>

(* A step that leaves all that Conversation is about alone.                *)
LEMMA Frame == ASSUME Conversation, UNCHANGED talk PROVE Conversation'
BY DEF talk, Conversation, Waiting, Healthy, Collecting, Awaiting, Silent, Open, Closed,
       ListOpened, RequestComing, Listing

(* What a sent request line leaves: the line at the end of the stream, if  *)
(* the server still listens.  A line that is not sent breaks the talk.     *)
LEMMA Transmitted ==
  ASSUME Healthy, ~half, NEW token, Transmit(token), sock' = sock
  PROVE  \/ /\ Sent /\ ~half' /\ broken' = broken
            /\ \/ peer /\ c2s' = Append(c2s, token)
               \/ ~peer /\ c2s' = c2s
         \/ ~Sent /\ ~Healthy'
BY DEF Transmit, Sent, Healthy

LEMMA AfterSendCommand ==
  ASSUME Flags, Data, Conversation, ~broken, NEW c \in Cmd, SendCommand(c)
  PROVE  Conversation'
<1>1. /\ sock = "open" /\ call = "none" /\ commandList = "none" /\ doneProcessing
      /\ Transmit(c) /\ sock' = sock /\ commandList' = commandList /\ call' = call
      /\ s2c' = s2c /\ peer' = peer /\ mode' = mode /\ doneProcessing' = ~Sent
  BY DEF SendCommand, Idle, CanExecute, server
<1>2. Healthy /\ ~half /\ c2s = <<>> /\ mode = "idle" /\ s2c = <<>>
  BY <1>1 DEF Conversation, Healthy, Silent
<1>3. CASE ~Sent /\ ~Healthy'
  BY <1>1, <1>3 DEF Conversation, Waiting
<1>4. CASE Sent /\ ~half' /\ peer /\ c2s' = Append(c2s, c)
  <2>1. Len(c2s') = 1 /\ c2s'[1] = c
    BY <1>2, <1>4
  <2>2. RequestComing'
    BY <1>1, <1>2, <2>1 DEF RequestComing
  <2>3. Awaiting'
    BY <1>1, <1>2, <1>4, <2>2 DEF Awaiting
  <2> QED BY <1>1, <1>4, <2>3 DEF Conversation, Waiting
<1>5. CASE Sent /\ ~half' /\ ~peer /\ c2s' = c2s
  <2>1. Open(s2c')
    BY <1>1, <1>2, EmptySeq DEF Open
  <2>2. Awaiting'
    BY <1>1, <1>2, <1>5, <2>1 DEF Awaiting, Silent
  <2> QED BY <1>1, <1>5, <2>2 DEF Conversation, Waiting
<1> QED BY <1>1, <1>2, <1>3, <1>4, <1>5, Transmitted

LEMMA AfterQueueCommand ==
  ASSUME Flags, Data, Conversation, ~broken, NEW c \in Cmd, QueueCommand(c)
  PROVE  Conversation'
<1>1. /\ sock = "open" /\ call = "none" /\ commandList # "none" /\ doneProcessing
      /\ Transmit(c) /\ sock' = sock /\ commandList' = commandList /\ call' = call
      /\ s2c' = s2c /\ peer' = peer /\ mode' = mode /\ doneProcessing' = doneProcessing
  BY DEF QueueCommand, Idle, server, Conversation
<1>2. Healthy /\ ~half /\ Collecting
  BY <1>1 DEF Conversation, Healthy
<1>3. CASE ~Sent /\ ~Healthy'
  BY <1>1, <1>3 DEF Conversation, Waiting
<1>4. CASE Sent /\ ~half' /\ peer /\ c2s' = Append(c2s, c)
  <2>1. ListOpened /\ s2c = <<>>
    BY <1>2, <1>4 DEF Collecting
  <2>2. ListOpened'
    BY <1>1, <1>4, <2>1, ListOpenedAppend
  <2> QED BY <1>1, <1>4, <2>1, <2>2 DEF Conversation, Waiting, Collecting
<1>5. CASE Sent /\ ~half' /\ ~peer /\ c2s' = c2s
  BY <1>1, <1>2, <1>5 DEF Conversation, Waiting, Collecting, Silent
<1> QED BY <1>1, <1>2, <1>3, <1>4, <1>5, Transmitted

LEMMA AfterListBegin ==
  ASSUME Flags, Data, Conversation, ~broken, doneProcessing, NEW l \in {"list", "ok"},
         CommandListBegin(l)
  PROVE  Conversation'
<1> DEFINE token == IF l = "ok" THEN OkBegin ELSE Begin
<1>1. /\ sock = "open" /\ call = "none" /\ commandList = "none" /\ commandList' # "none"
      /\ Transmit(token) /\ sock' = sock /\ call' = call
      /\ s2c' = s2c /\ peer' = peer /\ mode' = mode /\ doneProcessing' = doneProcessing
  BY DEF CommandListBegin, Idle, server
<1>2. Healthy /\ ~half /\ c2s = <<>> /\ mode = "idle" /\ s2c = <<>>
  BY <1>1 DEF Conversation, Healthy, Silent
<1>3. CASE ~Sent /\ ~Healthy'
  BY <1>1, <1>3 DEF Conversation, Waiting
<1>4. CASE Sent /\ ~half' /\ peer /\ c2s' = Append(c2s, token)
  <2>1. Len(c2s') = 1 /\ c2s'[1] \in {Begin, OkBegin}
    BY <1>2, <1>4
  <2>2. ListOpened'
    BY <1>1, <1>2, <2>1, EmptySeq DEF ListOpened
  <2> QED BY <1>1, <1>2, <1>4, <2>2 DEF Conversation, Waiting, Collecting
<1>5. CASE Sent /\ ~half' /\ ~peer /\ c2s' = c2s
  BY <1>1, <1>2, <1>5 DEF Conversation, Waiting, Collecting, Silent
<1> QED BY <1>1, <1>2, <1>3, <1>4, <1>5, Transmitted

LEMMA AfterListEnd ==
  ASSUME Flags, Data, Conversation, ~broken, CommandListEnd
  PROVE  Conversation'
<1>1. /\ sock = "open" /\ call = "none" /\ commandList # "none" /\ commandList' = "none"
      /\ doneProcessing /\ Transmit(End) /\ sock' = sock /\ call' = call
      /\ s2c' = s2c /\ peer' = peer /\ mode' = mode /\ doneProcessing' = ~Sent
  BY DEF CommandListEnd, Idle, server, Conversation
<1>2. Healthy /\ ~half /\ Collecting
  BY <1>1 DEF Conversation, Healthy
<1>3. CASE ~Sent /\ ~Healthy'
  BY <1>1, <1>3 DEF Conversation, Waiting
<1>4. CASE Sent /\ ~half' /\ peer /\ c2s' = Append(c2s, End)
  <2>1. ListOpened /\ s2c = <<>>
    BY <1>2, <1>4 DEF Collecting
  <2>2. RequestComing'
    BY <1>1, <1>4, <2>1, RequestComingAppend
  <2> QED BY <1>1, <1>4, <2>1, <2>2 DEF Conversation, Waiting, Awaiting
<1>5. CASE Sent /\ ~half' /\ ~peer /\ c2s' = c2s
  <2>1. s2c = <<>> /\ Silent
    BY <1>2, <1>5 DEF Collecting
  <2>2. Open(s2c')
    BY <1>1, <2>1, EmptySeq DEF Open
  <2> QED BY <1>1, <1>5, <2>1, <2>2 DEF Conversation, Waiting, Awaiting, Silent
<1> QED BY <1>1, <1>2, <1>3, <1>4, <1>5, Transmitted

LEMMA AfterConnect ==
  ASSUME NEW ok \in BOOLEAN, NewConnection(ok) PROVE Conversation'
<1>1. /\ sock' = (IF ok THEN "open" ELSE "none") /\ doneProcessing' = ok
      /\ call' = "none" /\ commandList' = "none" /\ ~half' /\ c2s' = <<>> /\ s2c' = <<>>
      /\ mode' = "idle"
  BY DEF NewConnection
<1>2. CASE ok
  BY <1>1, <1>2 DEF Conversation, Waiting, Silent
<1>3. CASE ~ok
  <2>1. ~Healthy'
    BY <1>1, <1>3 DEF Healthy
  <2> QED BY <1>1, <2>1 DEF Conversation, Waiting
<1> QED BY <1>2, <1>3

LEMMA AfterCalls ==
  ASSUME Flags, Data, Conversation, ClearError \/ Refuse \/ GetNext \/ FinishCommand \/ NextListOkCommand
  PROVE  Conversation'
<1>1. CASE ClearError \/ Refuse
  <2>1. UNCHANGED talk
    BY <1>1 DEF ClearError, Refuse, talk, server, ghosts, CanExecute, Conversation
  <2> QED BY <2>1, Frame
<1>2. CASE GetNext \/ FinishCommand \/ NextListOkCommand
  <2>1. Waiting' => ~doneProcessing
    BY <1>2 DEF GetNext, FinishCommand, NextListOkCommand, Enter, ReadMore, PartComplete, Idle, Waiting
  <2>2. UNCHANGED <<sock, doneProcessing, commandList, c2s, half, s2c, peer, mode, broken>>
    BY <1>2 DEF GetNext, FinishCommand, NextListOkCommand, Enter, server, ghosts
  <2> QED
    BY <2>1, <2>2
    DEF Conversation, Waiting, Healthy, Collecting, Awaiting, Silent, Open, Closed,
        ListOpened, RequestComing, Listing
<1> QED BY <1>1, <1>2

(* A read ends the loop whenever it completes the command.                 *)
LEMMA ReadEnds ==
  ASSUME NEW done, NEW count, NEW listOk, NEW err, EndRead(done, count, listOk, err)
  PROVE  (done <=> doneProcessing') /\ (Waiting' => ~done)
BY DEF EndRead, ReadMore, Waiting

LEMMA AfterTakeLine ==
  ASSUME Flags, Data, Conversation, TakeLine
  PROVE  Conversation'
<1> DEFINE k == Head(s2c).kind
<1>1. Waiting /\ ~doneProcessing /\ commandList = "none" /\ s2c # <<>> /\ s2c \in Seq(Line)
  BY DEF TakeLine, Conversation, Data
<1>2. EndRead(Completes(k), ListOksAfter(k), DoneListOkAfter(k), ErrorAfter(k))
  BY DEF TakeLine
<1>3. (Completes(k) <=> doneProcessing') /\ (Waiting' => ~Completes(k))
  BY <1>2, ReadEnds
<1>4. /\ s2c' = Tail(s2c)
      /\ UNCHANGED <<sock, commandList, c2s, half, peer, mode, broken>>
  BY DEF TakeLine, server
<1>5. CASE ~Healthy
  BY <1>1, <1>3, <1>4, <1>5 DEF Conversation, Healthy
<1>6. CASE Healthy /\ ~Completes(k) /\ Awaiting'
  BY <1>1, <1>3, <1>4, <1>6 DEF Conversation, Healthy
<1>7. CASE Healthy /\ Completes(k) /\ Silent' /\ s2c' = <<>>
  BY <1>1, <1>3, <1>4, <1>7 DEF Conversation, Healthy
<1>8. ASSUME Healthy PROVE (~Completes(k) /\ Awaiting') \/ (Completes(k) /\ Silent' /\ s2c' = <<>>)
  <2>1. Awaiting
    BY <1>1, <1>8 DEF Conversation
  <2>2. CASE peer /\ s2c = <<>> /\ RequestComing
    BY <1>1, <2>2
  <2>3. CASE peer /\ c2s = <<>> /\ mode \in {"answer", "okAnswer"} /\ Open(s2c)
    <3>1. ~Completes(k) /\ Open(s2c')
      BY <1>1, <1>4, <2>3, OpenTail DEF Open
    <3> QED BY <1>4, <2>3, <3>1 DEF Awaiting
  <2>4. CASE Silent /\ Closed(s2c)
    <3>1. (Completes(k) /\ s2c' = <<>>) \/ (~Completes(k) /\ Closed(s2c'))
      BY <1>1, <1>4, <2>4, ClosedTail DEF Closed
    <3>2. Silent'
      BY <1>4, <2>4 DEF Silent
    <3> QED BY <3>1, <3>2 DEF Awaiting
  <2>5. CASE ~peer /\ Silent /\ Open(s2c)
    <3>1. ~Completes(k) /\ Open(s2c')
      BY <1>1, <1>4, <2>5, OpenTail DEF Open
    <3> QED BY <1>4, <2>5, <3>1 DEF Awaiting, Silent
  <2> QED BY <2>1, <2>2, <2>3, <2>4, <2>5 DEF Awaiting
<1> QED BY <1>5, <1>6, <1>7, <1>8

LEMMA AfterLost ==
  ASSUME Conversation, PeerClosed \/ GiveUp
  PROVE  Conversation'
<1>1. Waiting /\ \E why : Lost(why)
  BY DEF PeerClosed, GiveUp
<1>2. doneProcessing' /\ ~Waiting' /\ broken'
  BY <1>1, ReadEnds DEF Lost
<1> QED BY <1>1, <1>2 DEF Conversation, Healthy, PeerClosed, GiveUp

(* The server reads a request line: a list stays opened, and a request     *)
(* still coming becomes one being answered with its last line.             *)
LEMMA ReadOpened ==
  ASSUME Data, peer, ListOpened, c2s # <<>>, ServerReads
  PROVE  ListOpened'
<1> DEFINE token == Head(c2s)
<1>1. /\ token = c2s[1] /\ c2s' = Tail(c2s) /\ c2s' \in Seq(Token) /\ Len(c2s') = Len(c2s) - 1
      /\ Len(c2s) \in Nat
      /\ \A i \in 1..Len(c2s') : c2s'[i] = c2s[i + 1]
  BY HeadTailProperties, LenProperties DEF ServerReads, Data
<1>2. \A i \in 1..Len(c2s') : i + 1 \in 2..Len(c2s) /\ i + 1 \in 1..Len(c2s)
  BY <1>1
<1>3. CASE mode = "idle"
  <2>1. token \in {Begin, OkBegin} /\ \A i \in 2..Len(c2s) : c2s[i] \in Cmd
    BY <1>1, <1>3 DEF ListOpened, Listing
  <2>2. Listing'
    BY <1>3, <2>1 DEF ServerReads, Listing
  <2> QED BY <1>1, <1>2, <2>1, <2>2 DEF ListOpened
<1>4. CASE Listing
  <2>1. \A i \in 1..Len(c2s) : c2s[i] \in Cmd
    BY <1>4 DEF ListOpened, Listing
  <2>2. Len(c2s) >= 1
    BY <1>1, EmptySeq DEF Data
  <2>3. token \in Cmd
    BY <1>1, <2>1, <2>2
  <2>4. token # End
    BY <2>3, CmdAssumption DEF Control
  <2>5. Listing'
    BY <1>4, <2>4 DEF ServerReads, Listing
  <2> QED BY <1>1, <1>2, <2>1, <2>5 DEF ListOpened
<1> QED BY <1>3, <1>4 DEF ListOpened

LEMMA ReadComing ==
  ASSUME Data, RequestComing, c2s # <<>>, ServerReads
  PROVE  RequestComing' \/ (c2s' = <<>> /\ mode' \in {"answer", "okAnswer"})
<1> DEFINE token == Head(c2s)
<1>1. /\ token = c2s[1] /\ c2s' = Tail(c2s) /\ c2s' \in Seq(Token) /\ Len(c2s') = Len(c2s) - 1
      /\ Len(c2s) \in Nat /\ Len(c2s) >= 1
      /\ \A i \in 1..Len(c2s') : c2s'[i] = c2s[i + 1]
  BY HeadTailProperties, LenProperties, EmptySeq DEF ServerReads, Data
<1>2. Len(c2s) = 1 => c2s' = <<>>
  BY <1>1, EmptySeq
<1>3. \A i \in 1..Len(c2s') - 1 : i + 1 \in 2..Len(c2s) - 1 /\ i + 1 \in 1..Len(c2s) - 1
  BY <1>1
<1>4. Len(c2s) > 1 => c2s' # <<>> /\ c2s'[Len(c2s')] = c2s[Len(c2s)]
  <2>1. ASSUME Len(c2s) > 1 PROVE c2s' # <<>> /\ c2s'[Len(c2s')] = c2s[Len(c2s)]
    <3>1. Len(c2s') >= 1 /\ Len(c2s') + 1 = Len(c2s)
      BY <1>1, <2>1
    <3>2. c2s' # <<>>
      BY <3>1, EmptySeq
    <3> QED BY <1>1, <3>1, <3>2
  <2> QED BY <2>1
<1>5. CASE mode = "idle" /\ Len(c2s) = 1 /\ c2s[1] \in Cmd
  <2>1. token \notin {Begin, OkBegin}
    BY <1>1, <1>5, CmdAssumption DEF Control
  <2>2. mode' = "answer"
    BY <1>5, <2>1 DEF ServerReads
  <2> QED BY <1>2, <1>5, <2>2
<1>6. CASE /\ mode = "idle" /\ Len(c2s) > 1 /\ c2s[1] \in {Begin, OkBegin} /\ c2s[Len(c2s)] = End
           /\ \A i \in 2..Len(c2s) - 1 : c2s[i] \in Cmd
  <2>1. Listing'
    BY <1>1, <1>6 DEF ServerReads, Listing
  <2>2. \A i \in 1..Len(c2s') - 1 : c2s'[i] \in Cmd
    BY <1>1, <1>3, <1>6
  <2> QED BY <1>4, <1>6, <2>1, <2>2 DEF RequestComing
<1>7. CASE Listing /\ c2s[Len(c2s)] = End /\ \A i \in 1..Len(c2s) - 1 : c2s[i] \in Cmd
  <2>1. CASE Len(c2s) = 1
    <3>1. token = End /\ mode # "idle"
      BY <1>1, <1>7, <2>1 DEF Listing
    <3>2. mode' \in {"answer", "okAnswer"}
      BY <3>1 DEF ServerReads
    <3> QED BY <1>2, <2>1, <3>2
  <2>2. CASE Len(c2s) > 1
    <3>1. token \in Cmd
      BY <1>1, <1>7, <2>2
    <3>2. token # End
      BY <3>1, CmdAssumption DEF Control
    <3>3. Listing'
      BY <1>7, <3>2 DEF ServerReads, Listing
    <3>4. \A i \in 1..Len(c2s') - 1 : c2s'[i] \in Cmd
      BY <1>1, <1>3, <1>7
    <3> QED BY <1>4, <1>7, <2>2, <3>3, <3>4 DEF RequestComing
  <2> QED BY <1>1, <2>1, <2>2
<1> QED BY <1>5, <1>6, <1>7 DEF RequestComing

LEMMA AfterServerReads ==
  ASSUME Flags, Data, Conversation, ServerReads
  PROVE  Conversation'
<1>1. /\ peer /\ c2s # <<>>
      /\ UNCHANGED <<sock, doneProcessing, commandList, call, half, s2c, peer, broken>>
  BY DEF ServerReads, client, ghosts
<1>2. CASE ~Healthy
  BY <1>1, <1>2 DEF Conversation, Waiting, Healthy
<1>3. CASE Healthy /\ commandList # "none"
  <2>1. ListOpened /\ s2c = <<>>
    BY <1>1, <1>3 DEF Conversation, Collecting
  <2>2. ListOpened'
    BY <1>1, <2>1, ReadOpened
  <2> QED BY <1>1, <1>3, <2>1, <2>2 DEF Conversation, Waiting, Healthy, Collecting
<1>4. CASE Healthy /\ commandList = "none" /\ doneProcessing
  BY <1>1, <1>4 DEF Conversation, Silent
<1>5. CASE Healthy /\ commandList = "none" /\ ~doneProcessing
  <2>1. s2c = <<>> /\ RequestComing
    BY <1>1, <1>5 DEF Conversation, Awaiting, Silent
  <2>2. RequestComing' \/ (c2s' = <<>> /\ mode' \in {"answer", "okAnswer"})
    BY <1>1, <2>1, ReadComing
  <2>3. Open(s2c')
    BY <1>1, <2>1, EmptySeq DEF Open
  <2>4. Awaiting'
    BY <1>1, <2>1, <2>2, <2>3 DEF Awaiting
  <2> QED BY <1>1, <1>5, <2>4 DEF Conversation, Waiting, Healthy
<1> QED BY <1>2, <1>3, <1>4, <1>5

(* While the server answers, a command is being processed.                 *)
LEMMA AnsweringAwaited ==
  ASSUME Conversation, Healthy, peer, mode \in {"answer", "okAnswer"}
  PROVE  commandList = "none" /\ ~doneProcessing /\ c2s = <<>> /\ Open(s2c)
BY DEF Conversation, Collecting, Awaiting, Silent, ListOpened, RequestComing, Listing

LEMMA AfterServerBody ==
  ASSUME Flags, Data, Conversation, ServerBody \/ ServerNext
  PROVE  Conversation'
<1>1. /\ peer /\ mode \in {"answer", "okAnswer"}
      /\ UNCHANGED <<sock, doneProcessing, commandList, call, half, c2s, peer, mode, broken>>
  BY DEF ServerBody, ServerNext, Answering, client, server, ghosts
<1>2. \/ s2c' = s2c
      \/ \E line \in Line : ~Completes(line.kind) /\ s2c' = Append(s2c, line)
  <2>1. queue[at] \in Token /\ at \in Nat
    BY TokenType DEF ServerBody, ServerNext, Data
  <2>2. CASE ServerNext
    <3>1. [kind |-> "list_OK", of |-> queue[at], at |-> at] \in Line
      BY <2>1 DEF Line
    <3> QED BY <2>2, <3>1 DEF ServerNext, Reply, Completes
  <2>3. CASE ServerBody
    <3>1. PICK kind \in BodyKinds : s2c' = Append(s2c, [kind |-> kind, of |-> queue[at], at |-> at])
      BY <2>3 DEF ServerBody, Reply
    <3>2. [kind |-> kind, of |-> queue[at], at |-> at] \in Line
      BY <2>1 DEF Line
    <3>3. ~Completes(kind)
      BY BodyAssumption DEF Completes
    <3> QED BY <3>1, <3>2, <3>3
  <2> QED BY <2>2, <2>3
<1>3. CASE ~Healthy
  BY <1>1, <1>3 DEF Conversation, Waiting, Healthy
<1>4. CASE Healthy
  <2>1. commandList = "none" /\ ~doneProcessing /\ c2s = <<>> /\ Open(s2c)
    BY <1>1, <1>4, AnsweringAwaited
  <2>2. Open(s2c')
    BY <1>2, <2>1, OpenAppend DEF Data
  <2>3. Awaiting'
    BY <1>1, <2>1, <2>2 DEF Awaiting
  <2> QED BY <1>1, <1>4, <2>1, <2>3 DEF Conversation, Waiting, Healthy
<1> QED BY <1>3, <1>4

LEMMA AfterServerEnds ==
  ASSUME Flags, Data, Conversation, ServerRefuses \/ ServerFinishes
  PROVE  Conversation'
<1>1. /\ peer /\ mode \in {"answer", "okAnswer"} /\ mode' = "idle"
      /\ UNCHANGED <<sock, doneProcessing, commandList, call, half, c2s, peer, broken>>
  BY DEF ServerRefuses, ServerFinishes, Answering, BackToIdle, client, ghosts
<1>2. \E line \in Line : Completes(line.kind) /\ s2c' = Append(s2c, line)
  <2>1. CASE ServerRefuses
    <3>1. queue[at] \in Token /\ at \in Nat
      BY <2>1 DEF ServerRefuses, Data
    <3>2. [kind |-> "ACK", of |-> queue[at], at |-> at] \in Line
      BY <3>1 DEF Line
    <3> QED BY <2>1, <3>2 DEF ServerRefuses, Reply, Completes
  <2>2. CASE ServerFinishes
    <3>1. [kind |-> "OK", of |-> Garbled, at |-> at] \in Line
      BY TokenType DEF Line, Data
    <3> QED BY <2>2, <3>1 DEF ServerFinishes, Reply, Completes
  <2> QED BY <2>1, <2>2
<1>3. CASE ~Healthy
  BY <1>1, <1>3 DEF Conversation, Waiting, Healthy
<1>4. CASE Healthy
  <2>1. commandList = "none" /\ ~doneProcessing /\ c2s = <<>> /\ Open(s2c)
    BY <1>1, <1>4, AnsweringAwaited
  <2>2. Closed(s2c')
    BY <1>2, <2>1, ClosedAppend DEF Data
  <2>3. Awaiting'
    BY <1>1, <2>1, <2>2 DEF Awaiting, Silent
  <2> QED BY <1>1, <1>4, <2>1, <2>3 DEF Conversation, Waiting, Healthy
<1> QED BY <1>3, <1>4

LEMMA AfterServerCloses ==
  ASSUME Flags, Data, Conversation, ServerCloses
  PROVE  Conversation'
<1>1. /\ peer /\ ~peer' /\ mode' = "idle" /\ c2s' = <<>>
      /\ UNCHANGED <<sock, doneProcessing, commandList, call, half, s2c, broken>>
  BY DEF ServerCloses, BackToIdle, client, ghosts
<1>2. CASE ~Healthy
  BY <1>1, <1>2 DEF Conversation, Waiting, Healthy
<1>3. CASE Healthy
  <2>1. commandList # "none" => Collecting'
    BY <1>1, <1>3 DEF Conversation, Collecting, Silent
  <2>2. ~doneProcessing => Awaiting'
    <3>1. SUFFICES ASSUME ~doneProcessing PROVE Awaiting'
      OBVIOUS
    <3>2. Open(s2c) \/ Closed(s2c)
      BY <1>1, <1>3, <3>1, EmptySeq DEF Conversation, Awaiting, Open
    <3>3. Open(s2c') \/ Closed(s2c')
      BY <1>1, <3>2 DEF Open, Closed
    <3> QED BY <1>1, <3>3 DEF Awaiting, Silent
  <2> QED BY <1>1, <1>3, <2>1, <2>2 DEF Conversation, Waiting, Healthy, Silent
<1> QED BY <1>2, <1>3

(* Conversation is inductive: the library, the streams and the server      *)
(* always agree on whether a reply is owed.                                *)
THEOREM Conversing == Spec => []Conversation
<1>1. Init => Conversation
  BY DEF Init, Conversation, Waiting, Healthy
<1>2. TypeOK /\ Conversation /\ [Next]_vars => Conversation'
  <2> SUFFICES ASSUME Flags, Data, Conversation, [Next]_vars PROVE Conversation'
    BY TypeSplit
  <2>1. CASE TimeRunsOut \/ Signal
    <3>1. UNCHANGED talk
      BY <2>1 DEF TimeRunsOut, Signal, Wakes, talk, server, ghosts
    <3> QED BY <3>1, Frame
  <2>2. CASE UNCHANGED vars
    <3>1. UNCHANGED talk
      BY <2>2 DEF vars, talk, client, server, ghosts
    <3> QED BY <3>1, Frame
  <2> QED
    BY <2>1, <2>2, AfterConnect, AfterCalls, AfterSendCommand, AfterQueueCommand, AfterListBegin,
       AfterListEnd, AfterTakeLine, AfterLost, AfterServerReads, AfterServerBody, AfterServerEnds,
       AfterServerCloses
    DEF Next, ClientCalls, Sends, ClientReads, Server
<1> QED BY <1>1, <1>2, Typed, PTL DEF Spec

(* After a complete reply nothing of it is left to be taken for the next.  *)
THEOREM StaysInSync == Spec => []InSync
<1>1. Conversation => InSync
  BY DEF Conversation, InSync, Silent
<1> QED BY <1>1, Conversing, PTL

(* mpd_getNextReturnElement never waits for a reply nobody owes it.        *)
THEOREM WaitsForDueReply == Spec => []ReplyDue
<1>1. Conversation => ReplyDue
  BY EmptySeq DEF Conversation, ReplyDue, Awaiting, RequestComing, Closed
<1> QED BY <1>1, Conversing, PTL

(* A request line never travels while the reply before it is unread.       *)
THEOREM NeverPipelines == Spec => []NoPipelining
<1>1. Conversation => NoPipelining
  BY DEF Conversation, NoPipelining, Collecting, Awaiting, Silent, ListOpened, RequestComing, Listing
<1> QED BY <1>1, Conversing, PTL

-----------------------------------------------------------------------------
(* What is above says that a reply is owed or none is; the invariants here *)
(* say whose: the commands on their way to the server are those of the     *)
(* request, and the lines on their way back answer them in order, part by  *)
(* part.                                                                   *)

(* The server has read, or will read from c2s, the begin of a list and the *)
(* commands of the request, and then as many lines as rest says.           *)
OnItsWay(rest) ==
  \/ /\ mode = "idle" /\ Len(c2s) = 1 + Len(sent) + rest
     /\ c2s[1] = IF okUnit THEN OkBegin ELSE Begin
     /\ \A i \in 1..Len(sent) : c2s[i + 1] = sent[i]
  \/ /\ mode = IF okUnit THEN "okList" ELSE "list"
     /\ Len(queue) + Len(c2s) = Len(sent) + rest /\ Len(queue) <= Len(sent)
     /\ \A i \in 1..Len(queue) : queue[i] = sent[i]
     /\ \A i \in 1..Len(sent) - Len(queue) : c2s[i] = sent[Len(queue) + i]

Alone == mode = "idle" /\ c2s = sent /\ Len(sent) = 1 /\ ~okUnit

(* Which command the line after this one answers, in a list_OK list.       *)
NextAt(line) == IF line.kind = "list_OK" THEN line.at + 1 ELSE line.at

Answers(line) ==
  /\ line.kind \notin {"OK", "ACK"} => line.at \in 1..Len(sent) /\ line.of = sent[line.at]
  /\ line.kind = "list_OK" => okUnit
  /\ line.kind = "OK" => line.at = Len(sent) + 1

(* The lines under way, and the next one the server writes, go through the *)
(* commands of the request.                                                *)
InOrder ==
  okUnit =>
    /\ s2c # <<>> => s2c[1].at = taken + 1
    /\ \A i \in 1..Len(s2c) - 1 : s2c[i + 1].at = NextAt(s2c[i])

Writing ==
  /\ queue = sent /\ mode = IF okUnit THEN "okAnswer" ELSE "answer"
  /\ at <= Len(sent) + 1
  /\ okUnit => at = IF s2c = <<>> THEN taken + 1 ELSE NextAt(s2c[Len(s2c)])

Resting ==
  /\ call # "none" => sock = "open"
  /\ mode = "idle" => queue = <<>>
  /\ mode \notin {"answer", "okAnswer"} => at = 1

Counted   == okUnit => listOks + taken = Len(sent)
Gathering == commandList # "none" => okUnit = (commandList = "ok") /\ taken = 0 /\ (peer => OnItsWay(0))
Requested == ~doneProcessing /\ peer /\ c2s # <<>> => taken = 0 /\ (Alone \/ OnItsWay(1))
Answered  == ~doneProcessing => InOrder /\ \A i \in 1..Len(s2c) : Answers(s2c[i])
Written   == peer /\ mode \in {"answer", "okAnswer"} => Writing

Script == Healthy => Counted /\ Gathering /\ Requested /\ Answered /\ Written

(* What the application holds, and whether the part it reads is at its end. *)
Holding ==
  /\ call \in {"finish", "nextListOk"} => ~doneListOk
  /\ call # "none" /\ listOks > 0 => ~doneListOk
  /\ doneProcessing => ret = NoLine
  /\ Healthy /\ ret # NoLine =>
       /\ ret.at \in 1..Len(sent) /\ ret.of = sent[ret.at]
       /\ okUnit => ret.at = taken + 1 /\ ~doneListOk
-----------------------------------------------------------------------------
(* The library's calls.                                                    *)
LEMMA RestingKept == ASSUME Resting, [Next]_vars PROVE Resting'
<1> USE DEF Resting
<1>1. ASSUME NEW ok \in BOOLEAN, NewConnection(ok) PROVE Resting'
  BY <1>1 DEF NewConnection
<1>2. CASE ClearError \/ Refuse \/ GetNext \/ FinishCommand \/ NextListOkCommand
  BY <1>2 DEF ClearError, Refuse, GetNext, FinishCommand, NextListOkCommand, Enter, Idle, server
<1>3. CASE Sends
  BY <1>3 DEF Sends, SendCommand, QueueCommand, CommandListBegin, CommandListEnd, server
<1>4. CASE TakeLine \/ PeerClosed \/ GiveUp
  <2>1. call' \in {call, "none"} /\ sock' = sock /\ UNCHANGED server
    BY <1>4 DEF TakeLine, PeerClosed, GiveUp, Lost, EndRead
  <2> QED BY <2>1 DEF server
<1>5. CASE TimeRunsOut \/ Signal
  BY <1>5 DEF TimeRunsOut, Signal, Wakes, server
<1>6. CASE ServerReads
  BY <1>6 DEF ServerReads, client
<1>7. CASE ServerBody \/ ServerNext
  BY <1>7 DEF ServerBody, ServerNext, Answering, client, server
<1>8. CASE ServerRefuses \/ ServerFinishes \/ ServerCloses
  BY <1>8 DEF ServerRefuses, ServerFinishes, ServerCloses, BackToIdle, client
<1>9. CASE UNCHANGED vars
  BY <1>9 DEF vars, client, server
<1> QED
  BY <1>1, <1>2, <1>3, <1>4, <1>5, <1>6, <1>7, <1>8, <1>9 DEF Next, ClientCalls, ClientReads, Server

script == <<sock, broken, doneProcessing, commandList, listOks, c2s, s2c, peer, mode, queue, at, sent, okUnit, taken>>

LEMMA ScriptFrame == ASSUME Script, UNCHANGED script PROVE Script'
BY DEF script, Script, Healthy, Counted, Gathering, Requested, Answered, Written, OnItsWay, Alone, NextAt,
       Answers, InOrder, Writing

LEMMA ScriptCalls ==
  ASSUME Conversation, Script,
         ClearError \/ Refuse \/ GetNext \/ FinishCommand \/ NextListOkCommand \/ TimeRunsOut \/ Signal
  PROVE  Script'
<1>1. UNCHANGED script
  BY DEF ClearError, Refuse, CanExecute, Conversation, GetNext, FinishCommand, NextListOkCommand, Enter, TimeRunsOut,
         Signal, Wakes, server, ghosts, script
<1> QED BY <1>1, ScriptFrame

LEMMA ScriptConnect == ASSUME NEW ok \in BOOLEAN, NewConnection(ok) PROVE Script'
<1>1. CASE ok
  <2>1. doneProcessing' /\ commandList' = "none" /\ mode' = "idle" /\ ~okUnit'
    BY <1>1 DEF NewConnection
  <2> QED BY <2>1 DEF Script, Counted, Gathering, Requested, Answered, Written
<1>2. CASE ~ok
  <2>1. sock' = "none"
    BY <1>2 DEF NewConnection
  <2> QED BY <2>1 DEF Script, Healthy
<1> QED BY <1>1, <1>2

(* What one more line at the end of a sequence leaves.                     *)
LEMMA Appended ==
  ASSUME NEW S, NEW lines \in Seq(S), NEW line \in S
  PROVE  LET longer == Append(lines, line)
         IN /\ longer \in Seq(S) /\ longer # <<>> /\ Len(longer) = Len(lines) + 1
            /\ longer[Len(lines) + 1] = line /\ \A i \in 1..Len(lines) : longer[i] = lines[i]
BY AppendProperties

(* What the line at the front leaves when it is taken.                     *)
LEMMA FrontTaken ==
  ASSUME NEW S, NEW lines \in Seq(S), lines # <<>>
  PROVE  /\ Len(lines) \in Nat /\ Len(lines) >= 1 /\ Head(lines) = lines[1] /\ Head(lines) \in S
         /\ Tail(lines) \in Seq(S) /\ Len(Tail(lines)) = Len(lines) - 1
         /\ \A i \in 1..Len(lines) - 1 : Tail(lines)[i] = lines[i + 1]
         /\ Len(lines) = 1 <=> Tail(lines) = <<>>
<1>1. Len(lines) \in Nat /\ Len(lines) >= 1 /\ Head(lines) = lines[1]
  BY EmptySeq
<1>2. Head(lines) \in S /\ Tail(lines) \in Seq(S) /\ Len(Tail(lines)) = Len(lines) - 1
      /\ \A i \in 1..Len(Tail(lines)) : Tail(lines)[i] = lines[i + 1]
  BY HeadTailProperties
<1>3. Len(Tail(lines)) = 0 <=> Tail(lines) = <<>>
  BY <1>2, EmptySeq
<1> QED BY <1>1, <1>2, <1>3

LEMMA Shapes == Data => sent \in Seq(Cmd) /\ c2s \in Seq(Token) /\ s2c \in Seq(Line) /\ queue \in Seq(Token)
                        /\ Len(sent) \in Nat /\ Len(c2s) \in Nat /\ Len(s2c) \in Nat /\ Len(queue) \in Nat
                        /\ listOks \in Nat /\ taken \in Nat /\ at \in Nat /\ at >= 1
BY LenProperties DEF Data

LEMMA ScriptSendCommand ==
  ASSUME Flags, Data, Conversation, Resting, Script, ~broken, NEW c \in Cmd, SendCommand(c)
  PROVE  Script'
<1>1. /\ sock = "open" /\ commandList = "none" /\ doneProcessing /\ Transmit(c) /\ sock' = sock
      /\ UNCHANGED <<commandList, listOks, s2c, peer, mode, queue, at>>
      /\ Sent => ~doneProcessing' /\ sent' = <<c>> /\ okUnit' = FALSE /\ taken' = 0
  BY DEF SendCommand, Idle, CanExecute, server
<1>2. Healthy /\ ~half /\ c2s = <<>> /\ mode = "idle" /\ s2c = <<>>
  BY <1>1 DEF Conversation, Healthy, Silent
<1>3. CASE ~Sent /\ ~Healthy'
  BY <1>3 DEF Script
<1>4. CASE Sent
  <2>1. Counted' /\ Gathering' /\ Written'
    BY <1>1, <1>2, <1>4 DEF Counted, Gathering, Written
  <2>2. Answered'
    BY <1>1, <1>2, <1>4, EmptySeq DEF Answered, InOrder
  <2>3. c2s' \in {<<>>, <<c>>}
    <3>1. c2s' \in {c2s, Append(c2s, c)}
      BY <1>1, <1>2, Transmitted, <1>4
    <3> QED BY <1>2, <3>1
  <2>4. Requested'
    BY <1>1, <1>2, <1>4, <2>3 DEF Requested, Alone
  <2> QED BY <2>1, <2>2, <2>4 DEF Script
<1> QED BY <1>1, <1>2, <1>3, <1>4, Transmitted

LEMMA ScriptQueueCommand ==
  ASSUME Flags, Data, Conversation, Resting, Script, ~broken, NEW c \in Cmd, QueueCommand(c)
  PROVE  Script'
<1>1. /\ sock = "open" /\ commandList # "none" /\ doneProcessing /\ Transmit(c) /\ sock' = sock
      /\ UNCHANGED <<doneProcessing, commandList, s2c, peer, mode, queue, at, okUnit, taken>>
      /\ Sent => sent' = Append(sent, c) /\ listOks' = IF commandList = "ok" THEN listOks + 1 ELSE listOks
  BY DEF QueueCommand, Idle, server, Conversation
<1>2. Healthy /\ ~half /\ Collecting /\ Counted /\ Gathering
  BY <1>1 DEF Conversation, Healthy, Script
<1>3. CASE ~Sent /\ ~Healthy'
  BY <1>3 DEF Script
<1>4. CASE Sent
  <2>1. /\ Len(sent') = Len(sent) + 1 /\ sent'[Len(sent) + 1] = c /\ \A i \in 1..Len(sent) : sent'[i] = sent[i]
        /\ sent' \in Seq(Cmd) /\ Len(sent) \in Nat
    <3>1. sent \in Seq(Cmd) /\ sent' = Append(sent, c)
      BY <1>1, <1>4 DEF Data
    <3> QED BY <3>1, AppendProperties, LenProperties
  <2>2. Counted'
    <3>1. listOks \in Nat /\ taken \in Nat /\ taken' = taken /\ okUnit' = okUnit
      BY <1>1, Shapes
    <3>2. okUnit => listOks' = listOks + 1 /\ listOks + taken = Len(sent)
      BY <1>1, <1>2, <1>4 DEF Counted, Gathering
    <3> QED BY <2>1, <3>1, <3>2 DEF Counted
  <2>3. Requested' /\ Answered' /\ Written'
    <3>1. peer => mode \notin {"answer", "okAnswer"}
      BY <1>1, <1>2 DEF Gathering, OnItsWay
    <3> QED BY <1>1, <3>1 DEF Requested, Answered, Written
  <2>4. peer => OnItsWay(0)'
    <3>1. SUFFICES ASSUME peer PROVE OnItsWay(0)'
      OBVIOUS
    <3>2. OnItsWay(0) /\ c2s' = Append(c2s, c)
      BY <1>1, <1>2, <1>4, <3>1, Transmitted DEF Gathering
    <3>3. /\ Len(c2s') = Len(c2s) + 1 /\ c2s'[Len(c2s) + 1] = c /\ \A i \in 1..Len(c2s) : c2s'[i] = c2s[i]
          /\ c2s' \in Seq(Token)
      BY <3>2, Shapes, Appended, TokenType
    <3>4. CASE mode = "idle"
      BY <1>1, <2>1, <3>2, <3>3, <3>4, Shapes DEF OnItsWay
    <3>5. CASE mode # "idle"
      <4>1. /\ mode = IF okUnit THEN "okList" ELSE "list"
            /\ Len(queue) + Len(c2s) = Len(sent) /\ Len(queue) <= Len(sent)
            /\ \A i \in 1..Len(queue) : queue[i] = sent[i]
            /\ \A i \in 1..Len(sent) - Len(queue) : c2s[i] = sent[Len(queue) + i]
        BY <3>2, <3>5, Shapes DEF OnItsWay
      <4>0. Len(queue) \in Nat /\ Len(c2s) \in Nat /\ Len(sent) \in Nat
        BY Shapes
      <4>2. \A i \in 1..Len(queue) : queue[i] = sent'[i]
        BY <2>1, <4>0, <4>1
      <4>3. ASSUME NEW i \in 1..Len(sent') - Len(queue) PROVE c2s'[i] = sent'[Len(queue) + i]
        <5>1. CASE i <= Len(c2s)
          <6>1. i \in 1..Len(sent) - Len(queue) /\ i \in 1..Len(c2s) /\ Len(queue) + i \in 1..Len(sent)
            BY <2>1, <4>0, <4>1, <5>1
          <6> QED BY <2>1, <3>3, <4>1, <6>1
        <5>2. CASE i > Len(c2s)
          <6>1. i = Len(c2s) + 1 /\ Len(queue) + i = Len(sent) + 1
            BY <2>1, <4>0, <4>1, <5>2
          <6> QED BY <2>1, <3>3, <6>1
        <5> QED BY <4>0, <5>1, <5>2
      <4> QED BY <1>1, <2>1, <3>3, <4>1, <4>2, <4>3, Shapes DEF OnItsWay
    <3> QED BY <3>4, <3>5
  <2>5. Gathering'
    BY <1>1, <1>2, <2>4 DEF Gathering
  <2> QED BY <2>2, <2>3, <2>5 DEF Script
<1> QED BY <1>1, <1>2, <1>3, <1>4, Transmitted

LEMMA ScriptListBegin ==
  ASSUME Flags, Data, Conversation, Resting, Script, ~broken, doneProcessing, NEW l \in {"list", "ok"},
         CommandListBegin(l)
  PROVE  Script'
<1> DEFINE token == IF l = "ok" THEN OkBegin ELSE Begin
<1>1. /\ sock = "open" /\ commandList = "none" /\ commandList' = l /\ doneProcessing' /\ Transmit(token) /\ sock' = sock
      /\ UNCHANGED <<s2c, peer, mode, queue, at>>
      /\ sent' = <<>> /\ okUnit' = (l = "ok") /\ taken' = 0 /\ (l = "ok" => listOks' = 0)
  BY DEF CommandListBegin, ListOksAtBegin, Idle, server
<1>2. Healthy /\ ~half /\ c2s = <<>> /\ mode = "idle" /\ s2c = <<>> /\ Len(<<>>) = 0
  BY <1>1, EmptySeq DEF Conversation, Healthy, Silent
<1>3. CASE ~Sent /\ ~Healthy'
  BY <1>3 DEF Script
<1>4. CASE Sent
  <2>1. Requested' /\ Answered' /\ Written'
    BY <1>1, <1>2 DEF Requested, Answered, Written
  <2>a. Counted'
    <3>1. okUnit' => listOks' = 0
      BY <1>1
    <3>2. Len(sent') = 0 /\ taken' = 0
      BY <1>1, <1>2
    <3> QED BY <3>1, <3>2 DEF Counted
  <2>2. peer => OnItsWay(0)'
    <3>1. SUFFICES ASSUME peer PROVE OnItsWay(0)'
      OBVIOUS
    <3>2. c2s' = Append(c2s, token)
      BY <1>1, <1>2, <1>4, <3>1, Transmitted
    <3>3. Len(c2s') = 1 /\ c2s'[1] = token
      BY <1>2, <3>2
    <3>4. Len(sent') = 0 /\ 1..Len(sent') = {}
      BY <1>1, <1>2
    <3>5. token = IF okUnit' THEN OkBegin ELSE Begin
      BY <1>1
    <3> QED BY <1>1, <1>2, <3>3, <3>4, <3>5 DEF OnItsWay
  <2>3. Gathering'
    BY <1>1, <2>2 DEF Gathering
  <2> QED BY <2>1, <2>a, <2>3 DEF Script
<1> QED BY <1>1, <1>2, <1>3, <1>4, Transmitted

LEMMA ScriptListEnd ==
  ASSUME Flags, Data, Conversation, Resting, Script, ~broken, CommandListEnd
  PROVE  Script'
<1>1. /\ sock = "open" /\ commandList # "none" /\ commandList' = "none" /\ doneProcessing
      /\ Transmit(End) /\ sock' = sock
      /\ UNCHANGED <<listOks, s2c, peer, mode, queue, at, sent, okUnit, taken>>
  BY DEF CommandListEnd, Idle, server, Conversation
<1>2. Healthy /\ ~half /\ Collecting /\ Counted /\ Gathering /\ s2c = <<>>
  BY <1>1 DEF Conversation, Healthy, Script, Collecting
<1>3. CASE ~Sent /\ ~Healthy'
  BY <1>3 DEF Script
<1>4. CASE Sent
  <2>1. Counted' /\ Gathering'
    BY <1>1, <1>2 DEF Counted, Gathering
  <2>2. Answered'
    BY <1>1, <1>2, EmptySeq DEF Answered, InOrder
  <2>3. Written'
    <3>1. peer => mode \notin {"answer", "okAnswer"}
      BY <1>1, <1>2 DEF Gathering, OnItsWay
    <3> QED BY <1>1, <3>1 DEF Written
  <2>4. peer => taken' = 0 /\ OnItsWay(1)'
    <3>1. SUFFICES ASSUME peer PROVE taken' = 0 /\ OnItsWay(1)'
      OBVIOUS
    <3>2. OnItsWay(0) /\ taken' = 0 /\ c2s' = Append(c2s, End)
      BY <1>1, <1>2, <1>4, <3>1, Transmitted DEF Gathering
    <3>3. Len(c2s') = Len(c2s) + 1 /\ \A i \in 1..Len(c2s) : c2s'[i] = c2s[i]
      BY <3>2, Shapes, Appended, TokenType
    <3>4. CASE mode = "idle"
      BY <1>1, <3>2, <3>3, <3>4, Shapes DEF OnItsWay
    <3>5. CASE mode # "idle"
      <4>0. Len(queue) \in Nat /\ Len(c2s) \in Nat /\ Len(sent) \in Nat
        BY Shapes
      <4>1. /\ mode = IF okUnit THEN "okList" ELSE "list"
            /\ Len(queue) + Len(c2s) = Len(sent) /\ Len(queue) <= Len(sent)
            /\ \A i \in 1..Len(queue) : queue[i] = sent[i]
            /\ \A i \in 1..Len(sent) - Len(queue) : c2s[i] = sent[Len(queue) + i]
        BY <3>2, <3>5, <4>0 DEF OnItsWay
      <4>2. \A i \in 1..Len(sent) - Len(queue) : c2s'[i] = sent[Len(queue) + i]
        BY <3>3, <4>0, <4>1
      <4>3. Len(queue) + Len(c2s') = Len(sent) + 1
        BY <3>3, <4>0, <4>1
      <4>4. UNCHANGED <<mode, queue, sent, okUnit>>
        BY <1>1
      <4> QED BY <3>2, <4>1, <4>2, <4>3, <4>4 DEF OnItsWay
    <3> QED BY <3>2, <3>4, <3>5
  <2>5. Requested'
    BY <1>1, <2>4 DEF Requested
  <2> QED BY <2>1, <2>2, <2>3, <2>5 DEF Script
<1> QED BY <1>1, <1>2, <1>3, <1>4, Transmitted

-----------------------------------------------------------------------------
(* The library takes a line: what it says is what the request is owed.     *)
LEMMA FirstLine ==
  ASSUME Data, Healthy, Conversation, Script, TakeLine
  PROVE  /\ ~doneProcessing /\ commandList = "none" /\ Answers(s2c[1]) /\ InOrder /\ Counted
         /\ peer => c2s = <<>>
         /\ okUnit => s2c[1].at = taken + 1
         /\ Len(s2c) >= 1 /\ s2c' = Tail(s2c) /\ Head(s2c) = s2c[1]
<1>1. Waiting /\ s2c # <<>> /\ s2c' = Tail(s2c)
  BY DEF TakeLine
<1>2. Len(s2c) >= 1 /\ Head(s2c) = s2c[1] /\ 1 \in 1..Len(s2c)
  BY <1>1, Shapes, FrontTaken
<1>3. ~doneProcessing /\ commandList = "none"
  BY <1>1 DEF Conversation
<1>4. Answered /\ Counted /\ Awaiting
  BY <1>3 DEF Script, Conversation
<1>5. peer => c2s = <<>>
  BY <1>1, <1>4 DEF Awaiting, Silent
<1> QED BY <1>1, <1>2, <1>3, <1>4, <1>5 DEF Answered, InOrder

LEMMA ScriptTakeLine ==
  ASSUME Flags, Data, Conversation, Conversation', Script, TakeLine
  PROVE  Script'
<1> DEFINE line == s2c[1]
           k == line.kind
<1> SUFFICES ASSUME Healthy PROVE Script'
  <2>1. Healthy' => Healthy
    BY DEF TakeLine, Healthy
  <2> QED BY <2>1 DEF Script
<1>1. /\ ~doneProcessing /\ commandList = "none" /\ Answers(line) /\ InOrder /\ Counted
      /\ peer => c2s = <<>>
      /\ okUnit => line.at = taken + 1
      /\ Len(s2c) >= 1 /\ s2c' = Tail(s2c) /\ Head(s2c) = line
  BY FirstLine
<1>2. /\ UNCHANGED <<sock, commandList, c2s, peer, mode, queue, at, broken, sent, okUnit>>
      /\ doneProcessing' = Completes(k) /\ listOks' = ListOksAfter(k)
      /\ taken' = IF k = "list_OK" /\ listOks > 0 THEN taken + 1 ELSE taken
  BY <1>1 DEF TakeLine, EndRead, server
<1>3. /\ s2c' \in Seq(Line) /\ Len(s2c') = Len(s2c) - 1 /\ \A i \in 1..Len(s2c) - 1 : s2c'[i] = s2c[i + 1]
      /\ Len(s2c) = 1 <=> s2c' = <<>>
      /\ line \in Line /\ s2c # <<>>
  <2>1. s2c \in Seq(Line) /\ s2c # <<>>
    BY DEF TakeLine, Data
  <2> QED BY <1>1, <2>1, FrontTaken
<1>4. listOks \in Nat /\ taken \in Nat /\ Len(sent) \in Nat /\ Len(s2c) \in Nat /\ line.at \in Nat
  BY <1>3, Shapes DEF Line
<1>5. okUnit => listOks + taken = Len(sent)
  BY <1>1 DEF Counted
<1>6. k = "list_OK" => okUnit /\ listOks > 0
  <2>1. k = "list_OK" => line.at \in 1..Len(sent) /\ okUnit
    BY <1>1 DEF Answers
  <2> QED BY <1>1, <1>4, <1>5, <2>1
<1>7. okUnit => taken' + 1 = NextAt(line)
  BY <1>1, <1>2, <1>4, <1>6 DEF NextAt
<1>8. Counted'
  <2>1. CASE k = "OK"
    <3>1. okUnit => taken = Len(sent)
      BY <1>1, <1>4, <2>1 DEF Answers
    <3> QED BY <1>2, <1>4, <2>1, <3>1 DEF Counted, ListOksAfter
  <2>2. CASE k = "list_OK"
    BY <1>2, <1>4, <1>5, <1>6, <2>2 DEF Counted, ListOksAfter
  <2>3. CASE k \notin {"OK", "list_OK"}
    BY <1>2, <1>5, <2>3 DEF Counted, ListOksAfter
  <2> QED BY <2>1, <2>2, <2>3
<1>9. Gathering' /\ Requested'
  BY <1>1, <1>2 DEF Gathering, Requested
<1>10. Answered'
  <2>1. ASSUME NEW i \in 1..Len(s2c') PROVE Answers(s2c[i])'
    <3>1. i + 1 \in 1..Len(s2c) /\ s2c'[i] = s2c[i + 1]
      BY <1>3, <1>4
    <3>2. Answers(s2c[i + 1])
      BY <1>1, <3>1 DEF Script, Answered
    <3> QED BY <1>2, <3>1, <3>2 DEF Answers
  <2>2. InOrder'
    <3>1. SUFFICES ASSUME okUnit
                   PROVE  /\ s2c' # <<>> => s2c'[1].at = taken' + 1
                          /\ \A i \in 1..Len(s2c') - 1 : s2c'[i + 1].at = NextAt(s2c'[i])
      BY <1>2 DEF InOrder, NextAt
    <3>2. \A i \in 1..Len(s2c) - 1 : s2c[i + 1].at = NextAt(s2c[i])
      BY <1>1, <3>1 DEF InOrder
    <3>3. ASSUME s2c' # <<>> PROVE s2c'[1].at = taken' + 1
      <4>1. 1 \in 1..Len(s2c) - 1
        BY <1>1, <1>3, <1>4, <3>3
      <4>2. s2c'[1] = s2c[1 + 1] /\ s2c[1 + 1].at = NextAt(s2c[1])
        BY <1>3, <3>2, <4>1
      <4> QED BY <1>7, <3>1, <4>2
    <3>4. ASSUME NEW i \in 1..Len(s2c') - 1 PROVE s2c'[i + 1].at = NextAt(s2c'[i])
      <4>1. i \in 1..Len(s2c) - 1 /\ i + 1 \in 1..Len(s2c) - 1
        BY <1>3, <1>4
      <4> QED BY <1>3, <3>2, <4>1
    <3> QED BY <3>3, <3>4
  <2> QED BY <2>1, <2>2 DEF Answered
<1>11. Written'
  <2>1. SUFFICES ASSUME peer, mode \in {"answer", "okAnswer"} PROVE Writing'
    BY <1>2 DEF Written
  <2>2. Writing
    BY <2>1 DEF Script, Written
  <2>3. okUnit => at = IF s2c' = <<>> THEN taken' + 1 ELSE NextAt(s2c'[Len(s2c')])
    <3>1. SUFFICES ASSUME okUnit PROVE at = IF s2c' = <<>> THEN taken' + 1 ELSE NextAt(s2c'[Len(s2c')])
      OBVIOUS
    <3>2. at = NextAt(s2c[Len(s2c)])
      BY <1>3, <2>2, <3>1 DEF Writing
    <3>3. CASE s2c' = <<>>
      BY <1>3, <1>7, <3>1, <3>2, <3>3
    <3>4. CASE s2c' # <<>>
      <4>1. s2c'[Len(s2c')] = s2c[Len(s2c)]
        <5>1. Len(s2c) - 1 \in 1..Len(s2c) - 1 /\ (Len(s2c) - 1) + 1 = Len(s2c)
          BY <1>1, <1>3, <1>4, <3>4
        <5> QED BY <1>3, <5>1
      <4> QED BY <3>2, <3>4, <4>1
    <3> QED BY <3>3, <3>4
  <2> QED BY <1>2, <2>2, <2>3 DEF Writing, NextAt
<1> QED BY <1>8, <1>9, <1>10, <1>11 DEF Script

LEMMA ScriptLost == ASSUME PeerClosed \/ GiveUp PROVE Script'
BY DEF PeerClosed, GiveUp, Lost, Script, Healthy

-----------------------------------------------------------------------------
(* The server reads a line: the commands it has, with those still on their *)
(* way, stay those of the request.                                         *)
LEMMA ReadsOnItsWay ==
  ASSUME Data, Resting, NEW rest \in {0, 1}, OnItsWay(rest), ServerReads,
         mode # "idle" => Head(c2s) # End /\ Len(queue) < Len(sent)
  PROVE  OnItsWay(rest)'
<1>1. /\ c2s # <<>> /\ c2s' = Tail(c2s) /\ UNCHANGED <<sent, okUnit>>
      /\ mode = "idle" /\ Head(c2s) \in {Begin, OkBegin} =>
           mode' = (IF Head(c2s) = OkBegin THEN "okList" ELSE "list") /\ queue' = queue
      /\ mode # "idle" /\ Head(c2s) # End => queue' = Append(queue, Head(c2s)) /\ mode' = mode
  BY DEF ServerReads, ghosts
<1>2. /\ Len(c2s) \in Nat /\ Len(c2s) >= 1 /\ Head(c2s) = c2s[1] /\ Head(c2s) \in Token
      /\ c2s' \in Seq(Token) /\ Len(c2s') = Len(c2s) - 1
      /\ \A i \in 1..Len(c2s) - 1 : c2s'[i] = c2s[i + 1]
  BY <1>1, Shapes, FrontTaken
<1>3. Len(sent) \in Nat /\ Len(queue) \in Nat /\ queue \in Seq(Token)
  BY Shapes
<1>4. CASE mode = "idle"
  <2>1. /\ Len(c2s) = 1 + Len(sent) + rest /\ c2s[1] = IF okUnit THEN OkBegin ELSE Begin
        /\ \A i \in 1..Len(sent) : c2s[i + 1] = sent[i]
    BY <1>4 DEF OnItsWay
  <2>2. mode' = (IF okUnit THEN "okList" ELSE "list") /\ queue' = <<>> /\ Len(<<>>) = 0
    BY <1>1, <1>2, <1>4, <2>1, EmptySeq DEF Begin, OkBegin, Resting
  <2>3. Len(queue') = 0
    BY <2>2
  <2>4. /\ 0 + Len(c2s') = Len(sent) + rest /\ 0 <= Len(sent)
        /\ \A i \in 1..Len(sent) - 0 : c2s'[i] = sent[0 + i]
    <3>1. ASSUME NEW i \in 1..Len(sent) - 0 PROVE c2s'[i] = sent[0 + i]
      <4>1. i \in 1..Len(c2s) - 1 /\ i \in 1..Len(sent) /\ 0 + i = i
        BY <1>2, <1>3, <2>1
      <4> QED BY <1>2, <2>1, <4>1
    <3> QED BY <1>2, <1>3, <2>1, <3>1
  <2> QED BY <1>1, <2>2, <2>3, <2>4 DEF OnItsWay
<1>5. CASE mode # "idle"
  <2>1. /\ mode = IF okUnit THEN "okList" ELSE "list"
        /\ Len(queue) + Len(c2s) = Len(sent) + rest /\ Len(queue) <= Len(sent)
        /\ \A i \in 1..Len(queue) : queue[i] = sent[i]
        /\ \A i \in 1..Len(sent) - Len(queue) : c2s[i] = sent[Len(queue) + i]
    BY <1>5 DEF OnItsWay
  <2>2. queue' = Append(queue, c2s[1]) /\ mode' = mode /\ Len(queue) < Len(sent)
    BY <1>1, <1>2, <1>5
  <2>3. Len(queue') = Len(queue) + 1 /\ queue'[Len(queue) + 1] = c2s[1] /\ \A i \in 1..Len(queue) : queue'[i] = queue[i]
    BY <1>2, <1>3, <2>2, AppendProperties
  <2>4. c2s[1] = sent[Len(queue) + 1]
    BY <1>3, <2>1, <2>2
  <2>5. \A i \in 1..Len(queue') : queue'[i] = sent[i]
    <3>1. ASSUME NEW i \in 1..Len(queue') PROVE queue'[i] = sent[i]
      <4>1. i \in 1..Len(queue) \/ i = Len(queue) + 1
        BY <1>3, <2>3
      <4> QED BY <2>1, <2>3, <2>4, <4>1
    <3> QED BY <3>1
  <2>6. ASSUME NEW i \in 1..Len(sent) - Len(queue') PROVE c2s'[i] = sent[Len(queue') + i]
    <3>1. i \in 1..Len(c2s) - 1 /\ i + 1 \in 1..Len(sent) - Len(queue) /\ Len(queue) + (i + 1) = Len(queue') + i
      BY <1>2, <1>3, <2>1, <2>3
    <3> QED BY <1>2, <2>1, <3>1
  <2>7. Len(queue') + Len(c2s') = Len(sent) + rest /\ Len(queue') <= Len(sent)
    <3>1. rest \in Int /\ Len(c2s) \in Int /\ Len(queue) \in Int /\ Len(sent) \in Int
      BY <1>2, <1>3
    <3>2. Len(c2s') = Len(c2s) - 1 /\ Len(queue') = Len(queue) + 1 /\ Len(queue) < Len(sent)
      BY <1>2, <2>2, <2>3
    <3>3. Len(queue) + Len(c2s) = Len(sent) + rest
      BY <2>1
    <3> QED BY <3>1, <3>2, <3>3
  <2> QED BY <1>1, <2>1, <2>2, <2>5, <2>6, <2>7 DEF OnItsWay
<1> QED BY <1>4, <1>5

LEMMA ScriptServerReads ==
  ASSUME Flags, Data, Conversation, Conversation', Resting, Script, ServerReads
  PROVE  Script'
<1> SUFFICES ASSUME Healthy PROVE Script'
  <2>1. Healthy' => Healthy
    BY DEF ServerReads, Healthy, client, ghosts
  <2> QED BY <2>1 DEF Script
<1>0. \A n \in Nat : n >= 1 => n = 1 \/ n > 1
  OBVIOUS
<1>1. /\ peer /\ mode \in {"idle", "list", "okList"} /\ c2s # <<>> /\ c2s' = Tail(c2s)
      /\ UNCHANGED <<sock, broken, doneProcessing, commandList, listOks, s2c, peer, at, sent, okUnit, taken>>
  BY DEF ServerReads, client, ghosts
<1>2. /\ Len(c2s) \in Nat /\ Len(c2s) >= 1 /\ Head(c2s) = c2s[1] /\ Head(c2s) \in Token
      /\ Len(c2s) = 1 <=> c2s' = <<>>
  BY <1>1, Shapes, FrontTaken
<1>3. Len(sent) \in Nat /\ Len(queue) \in Nat /\ queue \in Seq(Token) /\ sent \in Seq(Token) /\ at = 1
  <2>1. sent \in Seq(Token)
    BY TokenType, Shapes, SeqMonotonic
  <2> QED BY <1>1, <2>1, Shapes DEF Resting
<1>4. Counted'
  BY <1>1 DEF Script, Counted
<1>5. Answered'
  BY <1>1 DEF Script, Answered, InOrder, Answers, NextAt
<1>6. End \notin Cmd /\ Begin \notin Cmd /\ OkBegin \notin Cmd
  BY CmdAssumption DEF Control
<1>7. CASE commandList # "none"
  <2>1. /\ doneProcessing /\ ListOpened /\ OnItsWay(0) /\ okUnit = (commandList = "ok") /\ taken = 0
    BY <1>1, <1>7 DEF Conversation, Collecting, Script, Gathering
  <2>2. mode # "idle" => Head(c2s) # End /\ Len(queue) < Len(sent)
    <3>1. SUFFICES ASSUME mode # "idle" PROVE Head(c2s) # End /\ Len(queue) < Len(sent)
      OBVIOUS
    <3>2. c2s[1] \in Cmd
      BY <1>2, <2>1, <3>1 DEF ListOpened
    <3>3. Len(queue) + Len(c2s) = Len(sent) + 0
      BY <2>1, <3>1 DEF OnItsWay
    <3> QED BY <1>2, <1>3, <1>6, <3>2, <3>3
  <2>3. OnItsWay(0)'
    BY <2>1, <2>2, ReadsOnItsWay
  <2>4. mode' \notin {"answer", "okAnswer"}
    BY <2>3 DEF OnItsWay
  <2>5. Gathering' /\ Requested' /\ Written'
    BY <1>1, <2>1, <2>3, <2>4 DEF Gathering, Requested, Written
  <2> QED BY <1>4, <1>5, <2>5 DEF Script
<1>8. CASE commandList = "none"
  <2>1. ~doneProcessing /\ s2c = <<>> /\ RequestComing
    BY <1>1, <1>8 DEF Conversation, Silent, Awaiting
  <2>2. taken = 0 /\ (Alone \/ OnItsWay(1))
    BY <1>1, <2>1 DEF Script, Requested
  <2>3. Gathering'
    BY <1>1, <1>8 DEF Gathering
  <2>4. CASE Alone
    <3>1. mode = "idle" /\ c2s = sent /\ Len(sent) = 1 /\ ~okUnit /\ c2s[1] \in Cmd
      <4>1. mode = "idle" /\ c2s = sent /\ Len(sent) = 1 /\ ~okUnit
        BY <2>4 DEF Alone
      <4>2. sent[1] \in Cmd
        <5>1. sent \in Seq(Cmd) /\ 1 \in 1..Len(sent)
          BY <4>1, Shapes
        <5> QED BY <5>1, ElementOfSeq
      <4> QED BY <4>1, <4>2
    <3>2. mode' = "answer" /\ queue' = <<c2s[1]>>
      BY <1>2, <1>6, <3>1 DEF ServerReads
    <3>3. queue' = sent
      <4>1. <<c2s[1]>> \in Seq(Token) /\ Len(<<c2s[1]>>) = 1 /\ <<c2s[1]>>[1] = sent[1]
        BY <1>2, <3>1
      <4> QED BY <1>3, <3>1, <3>2, <4>1, SeqEqual
    <3>4. Writing'
      BY <1>1, <1>3, <3>1, <3>2, <3>3 DEF Writing
    <3>5. c2s' = <<>>
      BY <1>2, <3>1
    <3> QED BY <1>4, <1>5, <2>3, <3>4, <3>5 DEF Script, Requested, Written
  <2>5. CASE OnItsWay(1) /\ (mode = "idle" \/ Head(c2s) # End)
    <3>1. mode # "idle" => Head(c2s) # End /\ Len(queue) < Len(sent)
      <4>1. SUFFICES ASSUME mode # "idle" PROVE Len(queue) < Len(sent)
        BY <2>5
      <4>2. c2s[Len(c2s)] = End /\ Len(queue) + Len(c2s) = Len(sent) + 1
        BY <1>1, <2>1, <2>5, <4>1 DEF RequestComing, OnItsWay
      <4>3. Len(c2s) # 1
        BY <1>2, <2>5, <4>1, <4>2
      <4>4. Len(c2s) \in Nat /\ Len(c2s) >= 1 /\ Len(sent) \in Nat /\ Len(queue) \in Nat
        BY <1>2, <1>3
      <4>5. Len(queue) + Len(c2s) = Len(sent) + 1
        BY <4>2
      <4>6. Len(c2s) > 1
        BY <1>0, <4>3, <4>4
      <4> QED BY <4>4, <4>5, <4>6
    <3>2. OnItsWay(1)'
      BY <2>5, <3>1, ReadsOnItsWay
    <3>3. mode' \notin {"answer", "okAnswer"}
      BY <3>2 DEF OnItsWay
    <3> QED BY <1>1, <1>4, <1>5, <2>2, <2>3, <3>2, <3>3 DEF Script, Requested, Written
  <2>6. CASE OnItsWay(1) /\ mode # "idle" /\ Head(c2s) = End
    <3>1. /\ mode = IF okUnit THEN "okList" ELSE "list"
          /\ Len(queue) + Len(c2s) = Len(sent) + 1 /\ \A i \in 1..Len(queue) : queue[i] = sent[i]
      BY <2>6 DEF OnItsWay
    <3>2. Len(c2s) = 1
      <4>1. \A i \in 1..Len(c2s) - 1 : c2s[i] \in Cmd
        BY <1>1, <2>1, <2>6 DEF RequestComing
      <4>2. Len(c2s) > 1 => c2s[1] \in Cmd
        BY <1>2, <4>1
      <4>3. Len(c2s) \in Nat /\ Len(c2s) >= 1
        BY <1>2
      <4>4. c2s[1] = End
        BY <1>2, <2>6
      <4>5. ~(Len(c2s) > 1)
        BY <1>6, <4>2, <4>4
      <4> QED BY <1>0, <4>3, <4>5
    <3>3. queue = sent
      <4>1. Len(queue) = Len(sent)
        BY <1>3, <3>1, <3>2
      <4> QED BY <1>3, <3>1, <4>1, SeqEqual
    <3>4. queue' = queue /\ mode' = IF okUnit THEN "okAnswer" ELSE "answer"
      <4>1. queue' = queue /\ mode' = IF mode = "okList" THEN "okAnswer" ELSE "answer"
        BY <2>6 DEF ServerReads
      <4> QED BY <3>1, <4>1
    <3>5. Writing'
      BY <1>1, <1>3, <2>1, <2>2, <3>3, <3>4 DEF Writing
    <3>6. c2s' = <<>>
      BY <1>2, <3>2
    <3> QED BY <1>4, <1>5, <2>3, <3>5, <3>6 DEF Script, Requested, Written
  <2> QED BY <2>2, <2>4, <2>5, <2>6
<1> QED BY <1>7, <1>8

-----------------------------------------------------------------------------
(* The server writes a line: it is the next one of the request.            *)
LEMMA ServerAnswers ==
  ASSUME Data, Conversation, Script, Healthy, peer, mode \in {"answer", "okAnswer"}
  PROVE  /\ commandList = "none" /\ ~doneProcessing /\ c2s = <<>>
         /\ Counted /\ Writing /\ InOrder /\ \A i \in 1..Len(s2c) : Answers(s2c[i])
BY AnsweringAwaited DEF Script, Answered, Written

LEMMA OrderedReply ==
  ASSUME Data, InOrder, \A i \in 1..Len(s2c) : Answers(s2c[i]), NEW line \in Line, Answers(line),
         s2c' = Append(s2c, line), UNCHANGED <<okUnit, taken, sent>>,
         okUnit => line.at = IF s2c = <<>> THEN taken + 1 ELSE NextAt(s2c[Len(s2c)])
  PROVE  /\ InOrder' /\ \A i \in 1..Len(s2c') : Answers(s2c'[i])
         /\ s2c' # <<>> /\ s2c'[Len(s2c')] = line
<1>1. /\ s2c \in Seq(Line) /\ Len(s2c) \in Nat
      /\ s2c' # <<>> /\ Len(s2c') = Len(s2c) + 1
      /\ s2c'[Len(s2c) + 1] = line /\ \A i \in 1..Len(s2c) : s2c'[i] = s2c[i]
  BY Shapes, Appended
<1>2. ASSUME NEW i \in 1..Len(s2c') PROVE Answers(s2c'[i])
  <2>1. i \in 1..Len(s2c) \/ i = Len(s2c) + 1
    BY <1>1
  <2> QED BY <1>1, <2>1
<1>3. InOrder'
  <2>1. SUFFICES ASSUME okUnit
                 PROVE  /\ s2c'[1].at = taken + 1
                        /\ \A i \in 1..Len(s2c') - 1 : s2c'[i + 1].at = NextAt(s2c'[i])
    BY DEF InOrder, NextAt
  <2>2. /\ s2c # <<>> => s2c[1].at = taken + 1
        /\ \A i \in 1..Len(s2c) - 1 : s2c[i + 1].at = NextAt(s2c[i])
        /\ line.at = IF s2c = <<>> THEN taken + 1 ELSE NextAt(s2c[Len(s2c)])
    BY <2>1 DEF InOrder
  <2>3. CASE s2c = <<>>
    <3>1. Len(s2c) = 0 /\ Len(s2c') = 1
      BY <1>1, <2>3, EmptySeq
    <3> QED BY <1>1, <2>2, <2>3, <3>1
  <2>4. CASE s2c # <<>>
    <3>1. Len(s2c) >= 1
      BY <1>1, <2>4, EmptySeq
    <3>2. s2c'[1].at = taken + 1
      BY <1>1, <2>2, <2>4, <3>1
    <3>3. ASSUME NEW i \in 1..Len(s2c') - 1 PROVE s2c'[i + 1].at = NextAt(s2c'[i])
      <4>1. i \in 1..Len(s2c) - 1 \/ i = Len(s2c)
        BY <1>1
      <4>2. CASE i \in 1..Len(s2c) - 1
        <5>1. i \in 1..Len(s2c) /\ i + 1 \in 1..Len(s2c)
          BY <1>1, <4>2
        <5> QED BY <1>1, <2>2, <4>2, <5>1
      <4>3. CASE i = Len(s2c)
        BY <1>1, <2>2, <2>4, <3>1, <4>3
      <4> QED BY <4>1, <4>2, <4>3
    <3> QED BY <3>2, <3>3
  <2> QED BY <2>3, <2>4
<1> QED BY <1>1, <1>2, <1>3

LEMMA ScriptServerWrites ==
  ASSUME Flags, Data, Conversation, Script, ServerBody \/ ServerNext
  PROVE  Script'
<1> SUFFICES ASSUME Healthy PROVE Script'
  <2>1. Healthy' => Healthy
    BY DEF ServerBody, ServerNext, Healthy, client, ghosts
  <2> QED BY <2>1 DEF Script
<1>1. /\ peer /\ mode \in {"answer", "okAnswer"} /\ at <= Len(queue) /\ queue[at] \in Cmd
      /\ UNCHANGED <<sock, broken, doneProcessing, commandList, listOks, c2s, peer, mode, queue, sent, okUnit, taken>>
  BY DEF ServerBody, ServerNext, Answering, client, server, ghosts
<1>2. /\ commandList = "none" /\ ~doneProcessing /\ c2s = <<>>
      /\ Counted /\ Writing /\ InOrder /\ \A i \in 1..Len(s2c) : Answers(s2c[i])
  BY <1>1, ServerAnswers
<1>3. Counted' /\ Gathering' /\ Requested'
  BY <1>1, <1>2 DEF Counted, Gathering, Requested
<1>4. at \in Nat /\ at >= 1 /\ Len(sent) \in Nat /\ queue = sent /\ at \in 1..Len(sent)
  BY <1>1, <1>2, Shapes DEF Writing
<1>5. okUnit => at = IF s2c = <<>> THEN taken + 1 ELSE NextAt(s2c[Len(s2c)])
  BY <1>2 DEF Writing
<1>6. \A line : Answers(line)' <=> Answers(line)
  BY <1>1 DEF Answers
<1>7. CASE ServerBody
  <2>1. PICK kind \in BodyKinds : s2c' = Append(s2c, [kind |-> kind, of |-> queue[at], at |-> at])
    BY <1>7 DEF ServerBody, Reply
  <2> DEFINE line == [kind |-> kind, of |-> queue[at], at |-> at]
  <2>2. line \in Line /\ line.at = at /\ line.of = sent[at] /\ line.kind \notin {"OK", "ACK", "list_OK"}
    BY <1>1, <1>4, BodyAssumption, TokenType DEF Line
  <2> HIDE DEF line
  <2>3. Answers(line)
    BY <1>4, <2>2 DEF Answers
  <2>4. InOrder' /\ (\A i \in 1..Len(s2c') : Answers(s2c'[i])) /\ s2c' # <<>> /\ s2c'[Len(s2c')] = line
    BY <1>1, <1>2, <1>5, <2>1, <2>2, <2>3, OrderedReply DEF line
  <2>5. Answered'
    BY <1>6, <2>4 DEF Answered
  <2>6. Writing'
    <3>1. at' = at /\ NextAt(line) = at
      BY <1>7, <2>2 DEF ServerBody, server, NextAt
    <3> QED BY <1>1, <1>2, <2>4, <3>1 DEF Writing
  <2> QED BY <1>3, <2>5, <2>6 DEF Script, Written
<1>8. CASE ServerNext
  <2>0. at' = at + 1 /\ at' <= Len(sent) + 1
    BY <1>4, <1>8 DEF ServerNext
  <2>1. CASE mode = "okAnswer"
    <3> DEFINE line == [kind |-> "list_OK", of |-> queue[at], at |-> at]
    <3>1. s2c' = Append(s2c, line) /\ okUnit
      BY <1>2, <1>8, <2>1 DEF ServerNext, Reply, Writing
    <3>2. line \in Line /\ line.at = at /\ line.of = sent[at] /\ line.kind = "list_OK"
      BY <1>1, <1>4, TokenType DEF Line
    <3> HIDE DEF line
    <3>3. Answers(line)
      BY <1>4, <3>1, <3>2 DEF Answers
    <3>4. InOrder' /\ (\A i \in 1..Len(s2c') : Answers(s2c'[i])) /\ s2c' # <<>> /\ s2c'[Len(s2c')] = line
      BY <1>1, <1>2, <1>5, <3>1, <3>2, <3>3, OrderedReply
    <3>5. Answered'
      BY <1>6, <3>4 DEF Answered
    <3>6. Writing'
      <4>1. NextAt(line) = at'
        BY <2>0, <3>2 DEF NextAt
      <4> QED BY <1>1, <1>2, <2>0, <3>4, <4>1 DEF Writing
    <3> QED BY <1>3, <3>5, <3>6 DEF Script, Written
  <2>2. CASE mode # "okAnswer"
    <3>1. s2c' = s2c /\ ~okUnit
      BY <1>2, <1>8, <2>2 DEF ServerNext, Writing
    <3>2. Writing'
      BY <1>1, <1>2, <2>0, <3>1 DEF Writing
    <3>3. Answered'
      BY <1>1, <1>2, <1>6, <3>1 DEF Answered, InOrder
    <3> QED BY <1>3, <3>2, <3>3 DEF Script, Written
  <2> QED BY <2>1, <2>2
<1> QED BY <1>7, <1>8

LEMMA ScriptServerEnds ==
  ASSUME Flags, Data, Conversation, Script, ServerRefuses \/ ServerFinishes
  PROVE  Script'
<1> SUFFICES ASSUME Healthy PROVE Script'
  <2>1. Healthy' => Healthy
    BY DEF ServerRefuses, ServerFinishes, Healthy, client, ghosts
  <2> QED BY <2>1 DEF Script
<1>1. /\ peer /\ mode \in {"answer", "okAnswer"} /\ mode' = "idle"
      /\ UNCHANGED <<sock, broken, doneProcessing, commandList, listOks, c2s, peer, sent, okUnit, taken>>
  BY DEF ServerRefuses, ServerFinishes, Answering, BackToIdle, client, ghosts
<1>2. /\ commandList = "none" /\ ~doneProcessing /\ c2s = <<>>
      /\ Counted /\ Writing /\ InOrder /\ \A i \in 1..Len(s2c) : Answers(s2c[i])
  BY <1>1, ServerAnswers
<1>3. Counted' /\ Gathering' /\ Requested' /\ Written'
  BY <1>1, <1>2 DEF Counted, Gathering, Requested, Written
<1>4. at \in Nat /\ at >= 1 /\ Len(sent) \in Nat /\ queue = sent /\ at <= Len(sent) + 1
  BY <1>2, Shapes DEF Writing
<1>5. PICK line \in Line :
        /\ s2c' = Append(s2c, line) /\ line.at = at
        /\ line.kind \in {"OK", "ACK"} /\ (line.kind = "OK" => at > Len(queue))
  <2>1. CASE ServerRefuses
    <3>1. queue[at] \in Token
      <4>1. queue \in Seq(Token) /\ at \in 1..Len(queue)
        BY <1>4, <2>1 DEF ServerRefuses, Data
      <4> QED BY <4>1, ElementOfSeq
    <3>2. [kind |-> "ACK", of |-> queue[at], at |-> at] \in Line
      BY <1>4, <3>1 DEF Line
    <3> QED BY <2>1, <3>2 DEF ServerRefuses, Reply
  <2>2. CASE ServerFinishes
    <3>1. [kind |-> "OK", of |-> Garbled, at |-> at] \in Line
      BY <1>4, TokenType DEF Line
    <3> QED BY <2>2, <3>1 DEF ServerFinishes, Reply
  <2> QED BY <2>1, <2>2
<1>6. Answers(line)
  BY <1>4, <1>5 DEF Answers
<1>7. okUnit => line.at = IF s2c = <<>> THEN taken + 1 ELSE NextAt(s2c[Len(s2c)])
  BY <1>2, <1>5 DEF Writing
<1>8. InOrder' /\ \A i \in 1..Len(s2c') : Answers(s2c'[i])
  BY <1>1, <1>2, <1>5, <1>6, <1>7, OrderedReply
<1>9. Answered'
  BY <1>1, <1>8 DEF Answered, Answers
<1> QED BY <1>3, <1>9 DEF Script

LEMMA ScriptServerCloses == ASSUME Script, ServerCloses PROVE Script'
<1>1. /\ UNCHANGED <<sock, broken, doneProcessing, commandList, listOks, s2c, sent, okUnit, taken>>
      /\ ~peer'
  BY DEF ServerCloses, client, ghosts
<1> QED
  BY <1>1 DEF Script, Healthy, Counted, Gathering, Requested, Answered, Written, InOrder, Answers, NextAt

-----------------------------------------------------------------------------
(* What the application holds.                                             *)
holding == <<sock, broken, doneProcessing, listOks, doneListOk, ret, call, sent, okUnit, taken>>

LEMMA HoldingFrame == ASSUME Holding, UNCHANGED holding PROVE Holding'
BY DEF holding, Holding, Waiting, Healthy

LEMMA HoldingSends ==
  ASSUME Flags, Data, Conversation, Holding, Sends
  PROVE  Holding'
<1>1. doneProcessing /\ call = "none" /\ UNCHANGED <<ret, call, doneListOk>>
  BY DEF Sends, SendCommand, QueueCommand, CommandListBegin, CommandListEnd, Idle, CanExecute, Conversation
<1>2. ret' = NoLine
  BY <1>1 DEF Holding
<1> QED BY <1>1, <1>2 DEF Holding

LEMMA HoldingReads ==
  ASSUME Flags, Data, Conversation, Holding, GetNext \/ FinishCommand \/ NextListOkCommand
  PROVE  Holding'
<1>1. /\ call = "none"
      /\ UNCHANGED <<sock, broken, doneProcessing, listOks, sent, okUnit, taken>>
  BY DEF GetNext, FinishCommand, NextListOkCommand, Enter, Idle, ghosts
<1>2. Healthy' <=> Healthy
  BY <1>1 DEF Healthy
<1>3. CASE GetNext
  <2>1. ret' = NoLine /\ doneListOk' = doneListOk /\ call' \in {"none", "getNext"}
        /\ (call' # "none" => ~PartComplete)
    BY <1>3 DEF GetNext
  <2> QED BY <1>1, <2>1 DEF Holding, PartComplete
<1>4. CASE FinishCommand \/ NextListOkCommand
  <2>1. \/ ret' = NoLine /\ doneListOk' = FALSE
        \/ ret' = ret /\ doneListOk' = (doneListOk /\ doneProcessing) /\ call' = "none"
    BY <1>1, <1>4 DEF FinishCommand, NextListOkCommand, Enter
  <2> QED BY <1>1, <1>2, <2>1 DEF Holding
<1> QED BY <1>3, <1>4

LEMMA HoldingTakes ==
  ASSUME Flags, Data, Conversation, Script, Holding, TakeLine
  PROVE  Holding'
<1> DEFINE line == s2c[1]
           k == line.kind
<1>1. /\ Head(s2c) = line /\ call # "none"
      /\ UNCHANGED <<sock, broken, sent, okUnit>>
      /\ ret' = IF k = "element" THEN line ELSE NoLine
      /\ EndRead(Completes(k), ListOksAfter(k), DoneListOkAfter(k), ErrorAfter(k))
      /\ taken' = IF k = "list_OK" /\ listOks > 0 THEN taken + 1 ELSE taken
  <2>1. s2c # <<>> /\ s2c \in Seq(Line)
    BY DEF TakeLine, Data
  <2>2. Head(s2c) = line
    BY <2>1, FrontTaken
  <2> QED BY <2>2 DEF TakeLine, Waiting
<1>2. (call' # "none" => ~doneListOk') /\ doneProcessing' = Completes(k) /\ (doneListOk' => DoneListOkAfter(k))
  BY <1>1 DEF EndRead
<1>3. doneProcessing' => ret' = NoLine
  BY <1>1, <1>2 DEF Completes
<1>4. ASSUME Healthy', ret' # NoLine
      PROVE  /\ ret'.at \in 1..Len(sent') /\ ret'.of = sent'[ret'.at]
             /\ okUnit' => ret'.at = taken' + 1 /\ ~doneListOk'
  <2>1. Healthy /\ ret' = line /\ k = "element" /\ taken' = taken
    BY <1>1, <1>4 DEF Healthy
  <2>2. Answers(line) /\ Counted /\ (okUnit => line.at = taken + 1)
    BY <2>1, FirstLine
  <2>3. line.at \in 1..Len(sent) /\ line.of = sent[line.at]
    BY <2>1, <2>2 DEF Answers
  <2>4. ASSUME okUnit PROVE ~doneListOk'
    <3>1. listOks > 0
      <4>1. listOks \in Nat /\ taken \in Nat /\ Len(sent) \in Nat
        BY Shapes
      <4>2. listOks + taken = Len(sent) /\ taken + 1 <= Len(sent)
        BY <2>2, <2>3, <2>4, <4>1 DEF Counted
      <4> QED BY <4>1, <4>2
    <3>2. ~doneListOk
      BY <1>1, <3>1 DEF Holding
    <3> QED BY <1>2, <2>1, <3>2 DEF DoneListOkAfter
  <2> QED BY <1>1, <2>1, <2>2, <2>3, <2>4
<1> QED BY <1>2, <1>3, <1>4 DEF Holding

LEMMA HoldingKept ==
  ASSUME Flags, Data, Conversation, Script, Holding, [Next]_vars
  PROVE  Holding'
<1>1. CASE \E ok \in BOOLEAN : NewConnection(ok)
  BY <1>1 DEF NewConnection, Holding
<1>2. CASE ClearError \/ Refuse \/ TimeRunsOut \/ Signal \/ Server \/ UNCHANGED vars
  <2>1. UNCHANGED holding
    BY <1>2 DEF ClearError, Refuse, TimeRunsOut, Signal, Wakes, Server, ServerReads, ServerBody, ServerNext,
                ServerRefuses, ServerFinishes, ServerCloses, vars, client, ghosts, holding
  <2> QED BY <2>1, HoldingFrame
<1>3. CASE PeerClosed \/ GiveUp
  <2>1. ret' = NoLine /\ call' = "none"
    BY <1>3 DEF PeerClosed, GiveUp, Lost, EndRead, ReadMore
  <2> QED BY <2>1 DEF Holding
<1> QED
  BY <1>1, <1>2, <1>3, HoldingSends, HoldingReads, HoldingTakes DEF Next, ClientCalls, ClientReads

-----------------------------------------------------------------------------
(* All the invariants together.                                            *)
Talk == Flags /\ Data /\ Conversation /\ Resting /\ Script /\ Holding

LEMMA TalkBegins == Init => Talk
<1>0. Init => Flags
  BY DEF Init, Flags
<1>1. Init => Data
  BY DEF Init, Data, Errors
<1>2. Init => Conversation
  BY DEF Init, Conversation, Waiting, Healthy
<1>3. Init => Resting /\ Script /\ Holding
  BY DEF Init, Resting, Script, Holding, Healthy
<1> QED BY <1>0, <1>1, <1>2, <1>3 DEF Talk

(* The inductive invariant: what is on its way in both directions belongs  *)
(* to the request made last, and the application holds an element of the   *)
(* part of it that is being read.                                          *)
THEOREM TalksOfRequest == Spec => []Talk
<1>1. Talk /\ Conversation' /\ [Next]_vars => Talk'
  <2> SUFFICES ASSUME Flags, Data, Conversation, Conversation', Resting, Script, Holding, [Next]_vars
               PROVE  Talk'
    BY DEF Talk
  <2>1. Flags' /\ Data' /\ Resting' /\ Holding'
    BY FlagsKept, DataKept, RestingKept, HoldingKept
  <2>2. CASE UNCHANGED vars
    <3>1. UNCHANGED script
      BY <2>2 DEF vars, client, server, ghosts, script
    <3> QED BY <2>1, <3>1, ScriptFrame DEF Talk
  <2>3. CASE Next
    <3>1. Script'
      BY <2>3, ScriptCalls, ScriptConnect, ScriptSendCommand, ScriptQueueCommand, ScriptListBegin, ScriptListEnd,
         ScriptTakeLine, ScriptLost, ScriptServerReads, ScriptServerWrites, ScriptServerEnds, ScriptServerCloses
      DEF Next, ClientCalls, Sends, ClientReads, Server
    <3> QED BY <2>1, <3>1 DEF Talk
  <2> QED BY <2>2, <2>3
<1> QED BY <1>1, TalkBegins, Conversing, PTL DEF Spec

(* An element that mpd_getNextReturnElement returns answers a command of   *)
(* the request made last, in a list_OK list the very one whose part is     *)
(* being read, and listOks is the number of list_OKs not yet read.         *)
THEOREM RepliesMatch == Spec => []ReplyMatchesRequest
<1>1. Talk => ReplyMatchesRequest
  BY DEF Talk, Script, Counted, Holding, ReplyMatchesRequest
<1> QED BY <1>1, TalksOfRequest, PTL

-----------------------------------------------------------------------------
(* The refinement.                                                         *)
LEMMA Phases ==
  ASSUME Flags, Data
  PROVE  /\ sock = "none" => Phase = "down"
         /\ sock = "open" /\ broken => Phase = "broken"
         /\ Healthy /\ commandList # "none" => Phase = "collecting"
         /\ Healthy /\ commandList = "none" /\ doneProcessing => Phase = "idle"
         /\ Healthy /\ commandList = "none" /\ ~doneProcessing => Phase = "awaiting"
BY DEF Flags, Data, Phase, Healthy

LEMMA RetAt == Data => ret.at \in Nat /\ (ret = NoLine => ret.at = 0)
BY DEF Data, Line, NoLine

(* A failure, and whatever follows it until the next connect.              *)
LEMMA BrokenFails ==
  ASSUME Flags, Data, Flags', Data', sock = "open", sock' = "open", broken'
  PROVE  Session!Fail
<1>1. Phase # "down"
  <2>1. broken => Phase = "broken"
    BY Phases
  <2>2. ~broken => Phase \in {"collecting", "idle", "awaiting"}
    BY Phases DEF Healthy
  <2> QED BY <2>1, <2>2 DEF Flags
<1>2. Phase' = "broken"
  BY DEF Flags, Data, Phase, Healthy
<1>3. sent' \in Seq(Cmd) /\ okUnit' \in BOOLEAN /\ taken' \in Nat
  BY DEF Flags, Data
<1>4. ret'.at \in Nat
  BY DEF Data, Line, NoLine
<1> QED BY <1>1, <1>2, <1>3, <1>4 DEF Session!Fail

(* What has to be shown of a step over a connection that stays whole.      *)
LEMMA PhasesAfter ==
  ASSUME Flags', Data'
  PROVE  /\ sock' = "none" => Phase' = "down"
         /\ Healthy' /\ commandList' # "none" => Phase' = "collecting"
         /\ Healthy' /\ commandList' = "none" /\ doneProcessing' => Phase' = "idle"
         /\ Healthy' /\ commandList' = "none" /\ ~doneProcessing' => Phase' = "awaiting"
BY DEF Flags, Data, Phase, Healthy

LEMMA SessionConnects ==
  ASSUME Flags', Data', NEW ok \in BOOLEAN, NewConnection(ok)
  PROVE  Session!Connect
<1>1. /\ sent' = <<>> /\ okUnit' = FALSE /\ taken' = 0 /\ ret' = NoLine /\ ~broken'
      /\ commandList' = "none" /\ doneProcessing' = ok /\ sock' = IF ok THEN "open" ELSE "none"
  BY DEF NewConnection
<1>2. ret'.at = 0
  BY <1>1 DEF NoLine
<1>3. Phase' = IF ok THEN "idle" ELSE "down"
  BY <1>1, PhasesAfter DEF Healthy
<1> QED BY <1>1, <1>2, <1>3 DEF Session!Connect, Session!Fresh

LEMMA SessionSends ==
  ASSUME Talk, Flags', Data', ~broken, Sends
  PROVE  Session!Next
<1>1. /\ sock = "open" /\ sock' = "open" /\ Healthy /\ doneProcessing /\ ret' = ret
  BY DEF Talk, Sends, SendCommand, QueueCommand, CommandListBegin, CommandListEnd, Idle, CanExecute, Conversation,
         Healthy
<1>2. CASE broken'
  BY <1>1, <1>2, BrokenFails DEF Session!Next, Talk
<1>3. CASE ~broken'
  <2>0. Healthy' /\ UNCHANGED ret.at
    BY <1>1, <1>3 DEF Healthy
  <2>1. \A token : Transmit(token) => Sent
    BY <1>3 DEF Transmit, Sent
  <2>2. ASSUME NEW c \in Cmd, SendCommand(c) PROVE Session!Ask(c)
    <3>1. /\ commandList = "none" /\ commandList' = "none" /\ ~doneProcessing'
          /\ sent' = <<c>> /\ okUnit' = FALSE /\ taken' = 0
      BY <2>1, <2>2 DEF SendCommand
    <3>2. Phase = "idle" /\ Phase' = "awaiting"
      BY <1>1, <2>0, <3>1, Phases, PhasesAfter DEF Talk
    <3> QED BY <2>0, <3>1, <3>2 DEF Session!Ask
  <2>3. ASSUME NEW c \in Cmd, QueueCommand(c) PROVE Session!Collect(c)
    <3>1. commandList # "none" /\ commandList' = commandList /\ sent' = Append(sent, c) /\ UNCHANGED <<okUnit, taken>>
      BY <2>1, <2>3 DEF QueueCommand
    <3>2. Phase = "collecting" /\ Phase' = "collecting"
      BY <1>1, <2>0, <3>1, Phases, PhasesAfter DEF Talk
    <3> QED BY <2>0, <3>1, <3>2 DEF Session!Collect
  <2>4. ASSUME NEW l \in {"list", "ok"}, CommandListBegin(l) PROVE Session!BeginList(l = "ok")
    <3>1. /\ commandList = "none" /\ commandList' # "none" /\ sent' = <<>> /\ okUnit' = (l = "ok") /\ taken' = 0
      BY <2>4 DEF CommandListBegin
    <3>2. Phase = "idle" /\ Phase' = "collecting"
      BY <1>1, <2>0, <3>1, Phases, PhasesAfter DEF Talk
    <3> QED BY <2>0, <3>1, <3>2 DEF Session!BeginList
  <2>5. ASSUME CommandListEnd PROVE Session!EndList
    <3>1. commandList # "none" /\ commandList' = "none" /\ ~doneProcessing' /\ UNCHANGED <<sent, okUnit, taken>>
      BY <2>1, <2>5 DEF CommandListEnd
    <3>2. Phase = "collecting" /\ Phase' = "awaiting"
      BY <1>1, <2>0, <3>1, Phases, PhasesAfter DEF Talk
    <3> QED BY <2>0, <3>1, <3>2 DEF Session!EndList
  <2>6. \A l : (l = "ok") \in BOOLEAN
    OBVIOUS
  <2> QED BY <2>2, <2>3, <2>4, <2>5, <2>6 DEF Sends, Session!Next
<1> QED BY <1>2, <1>3

(* A call of the library drops what the application holds, or changes      *)
(* nothing it may see.                                                     *)
LEMMA SessionDrops ==
  ASSUME Talk, Flags', Data', Healthy, ret' \in {ret, NoLine},
         UNCHANGED <<sock, broken, doneProcessing, commandList, sent, okUnit, taken>>
  PROVE  [Session!Next]_(Session!vars)
<1>1. Phase' = Phase
  BY DEF Phase, Healthy
<1>2. CASE ret' = ret
  BY <1>1, <1>2 DEF Session!vars
<1>3. CASE ret' = NoLine /\ ret # NoLine
  <2>1. ~doneProcessing
    BY <1>3 DEF Talk, Holding
  <2>2. commandList = "none"
    BY <2>1 DEF Talk, Conversation
  <2>3. Phase = "awaiting"
    BY <2>1, <2>2, Phases DEF Talk
  <2>4. ret'.at = 0
    BY <1>3 DEF NoLine
  <2> QED BY <1>1, <2>3, <2>4 DEF Session!Drop, Session!Next
<1> QED BY <1>2, <1>3

LEMMA SessionTakes ==
  ASSUME Talk, Flags', Data', Conversation', Healthy, TakeLine
  PROVE  Session!Next
<1> DEFINE line == s2c[1]
           k == line.kind
<1>1. /\ ~doneProcessing /\ commandList = "none" /\ Answers(line) /\ Counted /\ (okUnit => line.at = taken + 1)
      /\ Head(s2c) = line
  BY FirstLine DEF Talk
<1>2. /\ UNCHANGED <<sock, broken, commandList, sent, okUnit>> /\ doneProcessing' = Completes(k)
      /\ ret' = IF k = "element" THEN line ELSE NoLine
      /\ taken' = IF k = "list_OK" /\ listOks > 0 THEN taken + 1 ELSE taken
  BY <1>1 DEF TakeLine, EndRead
<1>3. Phase = "awaiting" /\ Phase' = IF Completes(k) THEN "idle" ELSE "awaiting"
  <2>1. Phase = "awaiting"
    BY <1>1, Phases DEF Talk
  <2>2. Healthy' /\ commandList' = "none"
    BY <1>1, <1>2 DEF Healthy
  <2>3. doneProcessing' <=> Completes(k)
    BY <1>2 DEF Completes
  <2> QED BY <2>1, <2>2, <2>3, PhasesAfter
<1>4. k # "element" => ret'.at = 0
  BY <1>2 DEF NoLine
<1>5. listOks \in Nat /\ taken \in Nat /\ Len(sent) \in Nat
  BY Shapes DEF Talk
<1>6. CASE k = "element"
  <2>1. line.at \in 1..Len(sent) /\ ret'.at = line.at /\ taken' = taken /\ ~Completes(k)
    BY <1>1, <1>2, <1>6 DEF Answers, Completes
  <2>2. Session!Deliver(line.at)
    BY <1>1, <1>2, <1>3, <2>1 DEF Session!Deliver
  <2> QED BY <2>1, <2>2 DEF Session!Next
<1>7. CASE k = "list_OK"
  <2>1. okUnit /\ line.at \in 1..Len(sent)
    BY <1>1, <1>7 DEF Answers
  <2>2. taken < Len(sent) /\ listOks > 0
    BY <1>1, <1>5, <2>1 DEF Counted
  <2>3. taken' = taken + 1 /\ ~Completes(k)
    BY <1>2, <1>7, <2>2 DEF Completes
  <2>4. Session!EndPart
    BY <1>2, <1>3, <1>4, <1>7, <2>1, <2>2, <2>3 DEF Session!EndPart
  <2> QED BY <2>4 DEF Session!Next
<1>8. CASE k = "OK"
  <2>1. okUnit => taken = Len(sent)
    BY <1>1, <1>5, <1>8 DEF Answers
  <2>2. Session!Complete
    BY <1>2, <1>3, <1>4, <1>8, <2>1 DEF Session!Complete, Completes
  <2> QED BY <2>2 DEF Session!Next
<1>9. CASE k = "ACK"
  <2>1. Session!Refused
    BY <1>2, <1>3, <1>4, <1>9 DEF Session!Refused, Completes
  <2> QED BY <2>1 DEF Session!Next
<1>10. CASE k \notin {"element", "list_OK", "OK", "ACK"}
  <2>1. Session!Drop
    BY <1>2, <1>3, <1>4, <1>10 DEF Session!Drop, Completes
  <2> QED BY <2>1 DEF Session!Next
<1> QED BY <1>6, <1>7, <1>8, <1>9, <1>10

LEMMA SessionSteps ==
  ASSUME Talk, Talk', [Next]_vars
  PROVE  [Session!Next]_(Session!vars)
<1>0. Flags /\ Data /\ Flags' /\ Data' /\ Conversation' /\ (call # "none" => sock = "open")
  BY DEF Talk, Resting
<1>1. CASE \E ok \in BOOLEAN : NewConnection(ok)
  BY <1>0, <1>1, SessionConnects DEF Session!Next
<1>2. CASE ~broken /\ Sends
  BY <1>0, <1>2, SessionSends
<1>3. CASE UNCHANGED <<sock, broken, doneProcessing, commandList, sent, okUnit, taken, ret>>
  <2>1. Phase' = Phase
    BY <1>3 DEF Phase, Healthy
  <2> QED BY <1>3, <2>1 DEF Session!vars
<1>4. CASE GetNext \/ FinishCommand \/ NextListOkCommand
  <2>1. /\ ret' \in {ret, NoLine} /\ sock = "open"
        /\ UNCHANGED <<sock, broken, doneProcessing, commandList, sent, okUnit, taken>>
    BY <1>4 DEF GetNext, FinishCommand, NextListOkCommand, Enter, Idle, ghosts
  <2>2. CASE broken
    BY <1>0, <2>1, <2>2, BrokenFails DEF Session!Next
  <2>3. CASE ~broken
    BY <1>0, <2>1, <2>3, SessionDrops DEF Healthy
  <2> QED BY <2>2, <2>3
<1>5. CASE TakeLine
  <2>1. sock = "open" /\ sock' = sock /\ broken' = broken
    BY <1>0, <1>5 DEF TakeLine, Waiting
  <2>2. CASE broken
    BY <1>0, <2>1, <2>2, BrokenFails DEF Session!Next
  <2>3. CASE ~broken
    BY <1>0, <1>5, <2>1, <2>3, SessionTakes DEF Healthy
  <2> QED BY <2>2, <2>3
<1>6. CASE PeerClosed \/ GiveUp
  <2>1. sock = "open" /\ sock' = sock /\ broken'
    BY <1>0, <1>6 DEF PeerClosed, GiveUp, Lost, Waiting
  <2> QED BY <1>0, <2>1, BrokenFails DEF Session!Next
<1>7. ClearError \/ Refuse \/ TimeRunsOut \/ Signal \/ Server \/ UNCHANGED vars =>
        UNCHANGED <<sock, broken, doneProcessing, commandList, sent, okUnit, taken, ret>>
  BY DEF ClearError, Refuse, CanExecute, Talk, Conversation, TimeRunsOut, Signal, Wakes, Server, ServerReads, ServerBody,
         ServerNext, ServerRefuses, ServerFinishes, ServerCloses, vars, client, ghosts
<1> QED
  BY <1>1, <1>2, <1>3, <1>4, <1>5, <1>6, <1>7 DEF Next, ClientCalls, ClientReads

(* The connection implements MpdSession: whatever the server, the stream   *)
(* and select() do, the programs see requests made one after the other,    *)
(* each answered by its own elements and completed or refused once, until  *)
(* a failure.                                                              *)
THEOREM IsSession == Spec => ImplementsSession
<1>1. Init => Session!Init
  <2>1. Init => Phase = "down" /\ ret.at = 0
    BY TalkBegins, Phases DEF Init, Talk, NoLine
  <2> QED BY <2>1 DEF Init, Session!Init
<1>2. Talk /\ Talk' /\ [Next]_vars => [Session!Next]_(Session!vars)
  BY SessionSteps
<1> QED BY <1>1, <1>2, TalksOfRequest, PTL DEF Spec, ImplementsSession, Session!Spec
=============================================================================
