---------------------------- MODULE MpdEntities -----------------------------
(***************************************************************************)
(* libmpdclient.c: the functions that make structures out of a reply:      *)
(* mpd_getStatus, mpd_getStats, mpd_getNextInfoEntity, mpd_getNextTag,     *)
(* mpd_getNextOutput.  A reply is a sequence of lines; the end of an       *)
(* entity is only seen at the first line of the next one, which stays in   *)
(* returnElement until the next call.  Of the connection, this module has  *)
(* what those functions look at; MpdConnection has how lines arrive.       *)
(***************************************************************************)
EXTENDS Integers, SequencesExt

CONSTANT Requests  \* what may be asked for at once: sequences of [api, things]

VARIABLES
  request,     \* the things of each part of the reply, as MPD has them
  inList,      \* asked for in a command list with list_OKs
  reply, read, \* the lines of the reply, and how many of them were read
  returnElement,  \* the line kept: its place in reply, or 0
  doneProcessing, listOks, doneListOk, error,  \* fields of mpd_Connection
  part, got, ended  \* application: the part it reads, what it got, it is done

fields == <<read, returnElement, doneProcessing, listOks, doneListOk, error>>
vars   == <<request, inList, reply, fields, part, got, ended>>

Line(name, value) == [name |-> name, value |-> value]
Ends == {"OK", "list_OK", "ACK", "lost"}
Element(i) == reply[i].name \notin Ends

-----------------------------------------------------------------------------
(* What MPD has, and how it writes it.  A thing is an entity with its      *)
(* first line and its further ones, or a line of another reply.            *)
Written(thing) == <<thing.first>> \o thing.more
Body(p) == FlattenSeq([i \in DOMAIN p.things |-> Written(p.things[i])])

Lines(parts, list) ==
  FlattenSeq([i \in DOMAIN parts |->
                Body(parts[i]) \o IF list THEN <<Line("list_OK", "")>> ELSE <<>>])
    \o <<Line("OK", "")>>

(* The reply is whole, or ends early with an error or with the connection. *)
Replies(parts, list) ==
  LET all == Lines(parts, list)
  IN {all} \cup {SubSeq(all, 1, n) \o <<Line(end, "")>> : n \in 0..Len(all) - 1, end \in {"ACK", "lost"}}

Init ==
  /\ request \in Requests
  /\ inList \in IF Len(request) > 1 THEN {TRUE} ELSE BOOLEAN
  /\ reply \in Replies(request, inList)
  /\ read = 0 /\ returnElement = 0 /\ doneProcessing = FALSE
  /\ listOks = IF inList THEN Len(request) ELSE 0
  /\ doneListOk = FALSE /\ error = "none"
  /\ part = 1 /\ got = <<>> /\ ended = FALSE

-----------------------------------------------------------------------------
(* mpd_getNextReturnElement, called until line i is the last one read.     *)
PartComplete == doneProcessing \/ (listOks > 0 /\ doneListOk)

ErrorAt(i) ==
  CASE reply[i].name = "ACK" -> "ack"
    [] reply[i].name = "lost" -> "closed"
    [] OTHER -> error

Reads(i, err) ==
  /\ read' = i
  /\ returnElement' = IF Element(i) THEN i ELSE 0
  /\ doneProcessing' = (reply[i].name \in {"OK", "ACK", "lost"})
  /\ listOks' = IF reply[i].name = "list_OK" THEN listOks - 1 ELSE listOks
  /\ error' = err

DoneListOk(i) == doneListOk' = (reply[i].name = "list_OK" \/ (doneListOk /\ Element(i)))
ReadTo(i) == Reads(i, ErrorAt(i)) /\ DoneListOk(i)

(* The line a parser begins with: the one kept, or else the next one.      *)
First_Next == read + 1  \* mutant: the line kept is overlooked
First == IF returnElement # 0 THEN returnElement ELSE read + 1

(* The line its loop ends at: the first from i on that it does not take,   *)
(* as the reply ends there or a thing of one of these names begins.        *)
LoopEnd(i, heads) == Min({j \in i..Len(reply) : ~Element(j) \/ reply[j].name \in heads})

(* The value of the last of some lines that has the name.                  *)
LastValue(name, among, default) ==
  LET at == {j \in among : reply[j].name = name}
  IN IF at = {} THEN default ELSE reply[Max(at)].value

Calls(api)  == ~ended /\ request[part].api = api /\ UNCHANGED <<request, inList, reply, part>>
Returns(value) == got' = Append(got, value) /\ UNCHANGED ended
ReturnsNull == ended' = TRUE /\ UNCHANGED got

(* Every parser returns NULL at once when the part has been read.          *)
NothingLeft ==
  /\ PartComplete
  /\ \E api \in {"info", "tags", "outputs", "status", "stats"} : Calls(api)
  /\ ReturnsNull /\ UNCHANGED fields

-----------------------------------------------------------------------------
(* mpd_getNextInfoEntity.  Attributes are taken for songs only, the first  *)
(* of a name that is not empty.                                            *)
Heads == {"file", "directory", "playlist", "cpos"}
Attributes == {"Artist", "Title", "Pos"}

SongAttribute(i, more, a) ==
  IF a = "Pos" /\ reply[i].name = "cpos" THEN reply[i].value
  ELSE LET at == {j \in more : reply[j].name = a /\ reply[j].value # ""}
       IN IF at = {} THEN "" ELSE reply[Min(at)].value

Entity(i, more) ==
  LET cpos == reply[i].name = "cpos"
      song == cpos \/ reply[i].name = "file"
  IN [type |-> IF song THEN "file" ELSE reply[i].name,
      path |-> IF cpos THEN "" ELSE reply[i].value,
      tags |-> [a \in Attributes |-> IF song THEN SongAttribute(i, more, a) ELSE ""]]

GetNextInfoEntity ==
  /\ Calls("info") /\ ~PartComplete
  /\ \/ /\ Element(First) /\ reply[First].name \in Heads
        /\ LET end == LoopEnd(First + 1, Heads)
           IN ReadTo(end) /\ Returns(Entity(First, First + 1..end - 1))
     \/ /\ Element(First) /\ reply[First].name \notin Heads  \* "problem parsing song info"
        /\ read' = First /\ returnElement' = First /\ error' = "api"
        /\ UNCHANGED <<doneProcessing, listOks, doneListOk>>
        /\ ReturnsNull
     \/ ~Element(First) /\ ReadTo(First) /\ ReturnsNull

(* mpd_getNextReturnElementNamed, for mpd_getNextTag, mpd_getNextCommand   *)
(* and their like: the line kept is dropped, not looked at again.          *)
GetNextNamed ==
  /\ Calls("tags") /\ ~PartComplete
  /\ LET end == LoopEnd(read + 1, {"Artist"})
     IN /\ ReadTo(end)
        /\ IF Element(end) THEN Returns(reply[end].value) ELSE ReturnsNull

(* mpd_getNextOutput.  An error of the first line it reads is not looked   *)
(* at, and when no line is left it returns an output without an id.        *)
NoId == "-10"
OutputEnd(i) ==
  LET id == LoopEnd(i, {"outputid"})
  IN IF Element(id) THEN LoopEnd(id + 1, {"outputid"}) ELSE id

GetNextOutput ==
  /\ Calls("outputs") /\ ~PartComplete
  /\ LET end == OutputEnd(First)
         lines == First..end - 1
     IN IF error # "none" THEN ReturnsNull /\ UNCHANGED fields
        ELSE /\ ReadTo(end)
             /\ IF end > First /\ ErrorAt(end) # "none" THEN ReturnsNull
                ELSE Returns([id |-> LastValue("outputid", lines, NoId),
                              enabled |-> LastValue("outputenabled", lines, "0")])

(* mpd_getStatus, which must find a state; mpd_getStats and                *)
(* mpd_getSearchStats, which must not.  The last line of a name counts.    *)
StatusFails(end) == ErrorAt(end) # "none"

GetStatus(api) ==
  /\ Calls(api) /\ ~PartComplete
  /\ LET end == IF error # "none" THEN First ELSE LoopEnd(First, {})
         values == [n \in {"volume", "state", "songs"} |-> LastValue(n, First..end - 1, "-1")]
         stateless == api = "status" /\ values["state"] = "-1"
     IN /\ ended' = TRUE
        /\ IF StatusFails(end) \/ stateless THEN UNCHANGED got ELSE got' = <<values>>
        /\ Reads(end, IF stateless /\ ~StatusFails(end) THEN "api" ELSE ErrorAt(end))
        /\ DoneListOk(end)

-----------------------------------------------------------------------------
(* The application is done with a part: mpd_nextListOkCommand reads what   *)
(* is left of it.  It looks at the error first.                            *)
NextPart ==
  /\ part < Len(request) /\ error = "none"
  /\ LET end == LoopEnd(read + 1, {})
     IN IF PartComplete THEN UNCHANGED <<read, returnElement, doneProcessing, listOks, error>>
        ELSE Reads(end, ErrorAt(end))
  /\ doneListOk' = FALSE
  /\ IF doneProcessing' THEN UNCHANGED <<part, got, ended>>
     ELSE part' = part + 1 /\ got' = <<>> /\ ended' = FALSE
  /\ UNCHANGED <<request, inList, reply>>

Next ==
  \/ NothingLeft \/ GetNextInfoEntity \/ GetNextNamed \/ GetNextOutput
  \/ GetStatus("status") \/ GetStatus("stats")
  \/ NextPart

Spec == Init /\ [][Next]_vars

-----------------------------------------------------------------------------
(* What the application should get for a thing MPD has.                    *)
FirstOf(lines, name, default) ==
  LET named == SelectSeq(lines, LAMBDA l : l.name = name /\ l.value # "")
  IN IF named = <<>> THEN default ELSE named[1].value

Wanted(api, things) ==
  CASE api = "info" ->
         [i \in DOMAIN things |->
            LET t == things[i] song == t.first.name \in {"file", "cpos"}
            IN [type |-> IF song THEN "file" ELSE t.first.name,
                path |-> IF t.first.name = "cpos" THEN "" ELSE t.first.value,
                tags |-> [a \in Attributes |-> IF ~song THEN ""
                            ELSE FirstOf(IF a = "Pos" /\ t.first.name = "cpos"
                                         THEN <<Line("Pos", t.first.value)>> ELSE t.more, a, "")]]]
    [] api = "tags" -> [i \in DOMAIN things |-> things[i].first.value]
    [] api = "outputs" ->
         [i \in DOMAIN things |-> [id |-> things[i].first.value,
                                  enabled |-> FirstOf(things[i].more, "outputenabled", "0")]]
    [] OTHER -> <<[n \in {"volume", "state", "songs"} |->
                    FirstOf([i \in DOMAIN things |-> things[i].first], n, "-1")]>>

(* The application gets, in order and unmixed, what MPD has: all of it     *)
(* when a parser has returned NULL and there is no error, and at any time  *)
(* a beginning of it, of which an error may have cut off the last.  An     *)
(* output without an id is for the application to skip.                    *)
PartAsSent ==
  LET p == request[part]
      wanted == Wanted(p.api, p.things)
      seen == IF p.api = "outputs" THEN SelectSeq(got, LAMBDA o : o.id # NoId) ELSE got
  IN /\ Len(seen) <= Len(wanted)
     /\ \A i \in DOMAIN seen : seen[i] = wanted[i] \/ (i = Len(seen) /\ error # "none")
     /\ ended /\ error = "none" => Len(seen) = Len(wanted)
=============================================================================
