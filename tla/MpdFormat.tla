----------------------------- MODULE MpdFormat ------------------------------
(***************************************************************************)
(* mpd-show.c: doFormat, which turns a format like mpc's and a song's tags *)
(* into the line to show.  A format is a sequence of tokens: "[", "]",     *)
(* "|", "&", "#", names of tags, the pseudo tag "Y" and pieces of text.    *)
(* What doFormat has appended since offset is line behind offset, so the   *)
(* length of line is its off.                                              *)
(***************************************************************************)
EXTENDS Naturals, Sequences, SequencesExt

CONSTANT Tag  \* the tags in use

At(f, p) == IF p <= Len(f) THEN f[p] ELSE "NUL"

-----------------------------------------------------------------------------
(* skipBraces, called with p at a "[", counts that one twice: no "]" takes *)
(* its counter to zero, and its test (!stack == 0) stops at the first one.  *)
RECURSIVE SkipBraces(_, _)
SkipBraces(f, p) == IF At(f, p) \in {"NUL", "]"} THEN p ELSE SkipBraces(f, p + 1)

(* skipFormatting goes on to the next operator, or behind the "]".         *)
RECURSIVE SkipFormatting(_, _)
SkipFormatting(f, p) ==
  CASE At(f, p) \in {"NUL", "|", "&"} -> p
    [] At(f, p) = "]" -> p + 1
    [] At(f, p) = "#" /\ p < Len(f) -> SkipFormatting(f, p + 2)
    [] At(f, p) = "[" -> LET q == SkipBraces(f, p)
                         IN IF At(f, q) = "NUL" THEN q ELSE SkipFormatting(f, q + 1)
    [] OTHER -> SkipFormatting(f, p + 1)

(* doFormat from p on: the line it leaves and where the caller goes on.  A *)
(* "#" at the end of a format, which the default one has not, makes the    *)
(* code read on behind the NUL (:784); here the format ends with it.       *)
Cut(line, offset) == SubSeq(line, 1, offset)

Closed_Keeps(line, offset, found) == line  \* mutant: a group without a tag keeps its text
Closed(line, offset, found) == IF found THEN line ELSE Cut(line, offset)

RECURSIVE DoFormat(_, _, _, _, _, _)
DoFormat(f, song, p, line, offset, found) ==
  LET t == At(f, p)
  IN CASE t = "NUL" -> [line |-> line, last |-> p]
       [] t = "]" -> [line |-> Closed(line, offset, found), last |-> p + 1]
       [] t = "#" -> IF p = Len(f) THEN DoFormat(f, song, p + 1, line, offset, found)
                                   ELSE DoFormat(f, song, p + 2, Append(line, f[p + 1]), offset, found)
       [] t = "|" -> IF found THEN DoFormat(f, song, SkipFormatting(f, p + 1), line, offset, found)
                              ELSE DoFormat(f, song, p + 1, Cut(line, offset), offset, found)
       [] t = "&" -> IF found THEN DoFormat(f, song, p + 1, line, offset, FALSE)
                              ELSE DoFormat(f, song, SkipFormatting(f, p + 1), line, offset, found)
       [] t = "[" -> LET group == DoFormat(f, song, p + 1, line, Len(line), FALSE)
                     IN DoFormat(f, song, group.last, group.line, offset, found \/ group.line # line)
       [] t \in Tag -> DoFormat(f, song, p + 1, IF t \in song THEN Append(line, t) ELSE line, offset,
                                found \/ t \in song)
       [] t = "Y" -> DoFormat(f, song, p + 1, line, offset, TRUE)
       [] OTHER -> DoFormat(f, song, p + 1, Append(line, t), offset, found)

Line(f, song) == DoFormat(f, song, 1, <<>>, 0, FALSE).line

-----------------------------------------------------------------------------
(* What a format means, by mpc(1), as a tree: a group is a sequence of     *)
(* parts, each a sequence of items behind an operator, which is "|" or "&" *)
(* or, for the first part, nothing.                                        *)
Item(kind, is) == [kind |-> kind, is |-> is]
Part(op, items) == [op |-> op, items |-> items]
Join(v, w) == [text |-> v.text \o w.text, found |-> v.found \/ w.found]
Nothing == [text |-> <<>>, found |-> FALSE]

RECURSIVE Value(_, _)
PartValue(items, song) == FoldLeft(LAMBDA v, item : Join(v, Value(item, song)), Nothing, items)
AddPart(v, part, song) ==
  LET w == PartValue(part.items, song)
  IN CASE part.op = "|" -> IF v.found THEN v ELSE w
       [] part.op = "&" -> IF v.found THEN [w EXCEPT !.text = v.text \o w.text] ELSE v
       [] OTHER -> w
GroupValue(parts, song) == FoldLeft(LAMBDA v, part : AddPart(v, part, song), Nothing, parts)
Value(item, song) ==
  CASE item.kind = "text" -> [text |-> <<item.is>>, found |-> FALSE]
    [] item.kind = "tag"  -> IF item.is \in song THEN [text |-> <<item.is>>, found |-> TRUE] ELSE Nothing
    [] item.kind = "group" -> LET v == GroupValue(item.is, song) IN IF v.found THEN v ELSE Nothing

(* The format's text.                                                      *)
RECURSIVE Tokens(_)
PartTokens(part) == (IF part.op = "" THEN <<>> ELSE <<part.op>>) \o FlattenSeq([i \in DOMAIN part.items |-> Tokens(part.items[i])])
GroupTokens(parts) == FlattenSeq([i \in DOMAIN parts |-> PartTokens(parts[i])])
Tokens(item) == IF item.kind = "group" THEN <<"[">> \o GroupTokens(item.is) \o <<"]">> ELSE <<item.is>>
=============================================================================
