----------------------------- MODULE MpdSearch ------------------------------
(***************************************************************************)
(* libmpdclient.c: the request lines.  Commands with arguments, and the    *)
(* search that is built up in connection->request by several calls, among  *)
(* which other commands may be sent.  Every line is printed with snprintf  *)
(* into room that was computed by hand.  A line is a sequence of           *)
(* characters, of which a command or a tag is one, as is a digit; MPD,     *)
(* which takes a line to pieces, is external.                              *)
(***************************************************************************)
EXTENDS Integers, SequencesExt

CONSTANTS
  Names,          \* arguments: sequences of characters, with no line end in them
  Numbers,        \* numbers as they are printed
  IntLen,         \* INTLEN: characters that are enough for a number
  MaxConstraints  \* bound: constraints of one search

VARIABLES
  request,         \* connection->request, or Null
  doneProcessing,  \* connection->doneProcessing
  sent,            \* the line on its way, and the words the application meant
  asked            \* application: the words of the search it builds

vars == <<request, doneProcessing, sent, asked>>

Null == <<>>  \* no request is empty
Nothing == [line |-> <<>>, words |-> <<>>]
Quote == "\""
Backslash == "\\"
Space == " "
LF == "\n"
Tags == {"artist"}

Init == request = Null /\ doneProcessing = TRUE /\ sent = Nothing /\ asked = <<>>

-----------------------------------------------------------------------------
(* mpd_sanitizeArg *)
Special == {Quote, Backslash}
Sanitize(name) ==
  FlattenSeq([i \in DOMAIN name |->
                IF name[i] \in Special THEN <<Backslash, name[i]>> ELSE <<name[i]>>])

Quoted(name) == <<Quote>> \o Sanitize(name) \o <<Quote>>

(* snprintf with room for the characters and a zero behind them.           *)
Printed(room, text) == SubSeq(text, 1, Min({room - 1, Len(text)}))

(* mpd_executeCommand refuses while a reply is not read.                   *)
Execute(line, words) ==
  IF doneProcessing THEN sent' = [line |-> line, words |-> words] /\ doneProcessing' = FALSE
  ELSE UNCHANGED <<sent, doneProcessing>>

NumberCommands   == {"playlistinfo", "setvol"}      \* and delete, repeat, plchanges, ...
MoveCommands     == {"move", "swap", "seek"}        \* with and without id
BrowseCommands   == {"lsinfo", "save", "load"}      \* and listall, rm, listplaylist, ...
PlaylistCommands == {"rename", "playlistadd"}

Line(command, args) ==
  <<command>> \o FlattenSeq([i \in DOMAIN args |-> <<Space>> \o Quoted(args[i])]) \o <<LF>>
Room(command, size) == Len(<<command>>) + 2 + size

SendCommand(command, args, size) ==
  /\ Execute(Printed(Room(command, size), Line(command, args)), <<<<command>>>> \o args)
  /\ UNCHANGED <<request, asked>>

(* What is added for an argument, with a blank and the quotes.             *)
NumberSize     == IntLen + 3
NameSize(name) == Len(Sanitize(name)) + 3

SendNumbers ==
  \/ \E c \in NumberCommands, n \in Numbers : SendCommand(c, <<n>>, NumberSize)
  \/ \E c \in MoveCommands, m, n \in Numbers : SendCommand(c, <<m, n>>, NumberSize + NumberSize)

SendNames ==
  \/ \E c \in BrowseCommands, name \in Names : SendCommand(c, <<name>>, NameSize(name))
  \/ \E c \in PlaylistCommands, from, to \in Names :
       SendCommand(c, <<from, to>>, NameSize(from) + NameSize(to))
  \/ \E name \in Names, n \in Numbers :
       SendCommand("playlistdelete", <<name, n>>, NameSize(name) + NumberSize)
  \/ \E name \in Names, from, to \in Numbers :
       SendCommand("playlistmove", <<name, from, to>>, NameSize(name) + NumberSize + NumberSize)

(* mpd_sendListCommand                                                     *)
Listing(tag) == <<"list", Space, tag>>

SendList ==
  /\ \E tag \in Tags :
       \/ Execute(Printed(Len(<<"list">>) + 1 + Len(<<tag>>) + 2, Listing(tag) \o <<LF>>),
                  <<<<"list">>, <<tag>>>>)
       \/ \E name \in Names :
            Execute(Printed(Len(<<"list">>) + 1 + Len(Sanitize(name)) + 2 + Len(<<tag>>) + 3,
                            Listing(tag) \o <<Space>> \o Quoted(name) \o <<LF>>),
                    <<<<"list">>, <<tag>>, name>>)
  /\ UNCHANGED <<request, asked>>

-----------------------------------------------------------------------------
(* mpd_startSearch, mpd_startPlaylistSearch and mpd_startStatsSearch; with *)
(* the field of mpd_startFieldSearch.  A second start is refused.          *)
Begun(line, words) ==
  /\ request = Null
  /\ request' = line /\ asked' = words
  /\ UNCHANGED <<doneProcessing, sent>>

StartSearch ==
  \E c \in {"find", "search", "playlistfind", "playlistsearch", "count"} : Begun(<<c>>, <<<<c>>>>)
StartFieldSearch ==
  \E tag \in Tags : Begun(Listing(tag), <<<<"list">>, <<tag>>>>)

(* mpd_addConstraintSearch *)
ConstraintRoom_Unescaped(tag, name) ==  \* mutant: the name is measured as it was given
  Len(request) + 1 + Len(<<tag>>) + 2 + Len(name) + 2
ConstraintRoom(tag, name) == Len(request) + 1 + Len(<<tag>>) + 2 + Len(Sanitize(name)) + 2

AddConstraintSearch(tag, name) ==
  /\ request # Null /\ Len(asked) \div 2 < MaxConstraints
  /\ request' = Printed(ConstraintRoom(tag, name),
                         request \o <<Space, tag>> \o <<Space>> \o Quoted(name))
  /\ asked' = asked \o <<<<tag>>, name>>
  /\ UNCHANGED <<doneProcessing, sent>>

(* mpd_commitSearch frees the request when it has not been sent, too.      *)
CommitSearch ==
  /\ request # Null
  /\ Execute(Append(request, LF), asked)
  /\ request' = Null /\ asked' = <<>>

(* The reply of MPD is read to its end.                                    *)
FinishCommand ==
  /\ ~doneProcessing /\ doneProcessing' = TRUE
  /\ sent' = Nothing /\ UNCHANGED <<request, asked>>

Next ==
  \/ SendNumbers \/ SendNames \/ SendList
  \/ StartSearch \/ StartFieldSearch \/ CommitSearch \/ FinishCommand
  \/ \E tag \in Tags, name \in Names : AddConstraintSearch(tag, name)

Spec == Init /\ [][Next]_vars

-----------------------------------------------------------------------------
(* MPD: words are separated by blanks; one that begins with a quote ends   *)
(* at the next quote, and a backslash in it takes the next character as    *)
(* it is.  Only a line that ends is looked at.                             *)
Reading(words, word, mode) == [words |-> words, word |-> word, mode |-> mode]

MpdReads(state, ch) ==
  LET inMode(mode) == Reading(state.words, state.word, mode)
      plain(mode)  == Reading(state.words, Append(state.word, ch), mode)
      ended(mode)  == Reading(Append(state.words, state.word), <<>>, mode)
      outside(inLine) == IF ch = LF THEN ended("over") ELSE inLine
  IN CASE state.mode = "escaped" -> plain("quoted")
       [] state.mode = "quoted" ->
            IF ch = Backslash THEN inMode("escaped")
            ELSE IF ch = Quote THEN inMode("word") ELSE plain("quoted")
       [] state.mode = "word" -> outside(IF ch = Space THEN ended("blank") ELSE plain("word"))
       [] OTHER -> outside(IF ch = Quote THEN inMode("quoted") ELSE plain("word"))

MpdRead(line) ==
  LET read[n \in 0..Len(line)] ==
        IF n = 0 THEN Reading(<<>>, <<>>, "blank")
        ELSE MpdReads(read[n - 1], line[n])
  IN read[Len(line)]

MpdWords(line) ==
  LET end == MpdRead(line) IN IF end.mode = "over" THEN end.words ELSE <<>>

(* MPD reads the words the application asked for, whatever characters are  *)
(* in them and however many calls and replies it took: no quote in a name  *)
(* ends it, the room is enough for the end of the line, and nothing of a   *)
(* search that was refused comes with the next.                            *)
WordsArrive == MpdWords(sent.line) = sent.words
=============================================================================
