----------------------------- MODULE MpdDisplay -----------------------------
(***************************************************************************)
(* mpd-show.c: display and what it calls.  Every second the line is made   *)
(* anew if it has to be and the terminal's row drawn again if anything on  *)
(* it has changed.  A line that is too long scrolls, and the row's         *)
(* background shows how much of the song has been played.  A token of the  *)
(* format takes one column here.                                           *)
(***************************************************************************)
EXTENDS Integers, Sequences

CONSTANTS
  Songs,     \* bound: sets of tags the songs have; none has {}, which is no song
  Lines,     \* what formatLine makes of each under D.format: MpdFormat says what
  Widths,    \* bound: widths of the terminal
  Lengths,   \* bound: lengths of songs, in seconds
  Unsigned   \* bound: stands for 2^32, where an unsigned wraps around

VARIABLES
  cur, old,    \* D.cur and D.old
  connError,   \* D.conn->error, as a truth value
  width,       \* D.width, set by the handler of SIGWINCH
  line,        \* D.line, D.line_len long
  first,       \* first_time
  background,  \* D.background
  row,         \* the terminal's row: characters, lit or not
  strays,      \* rows of this line with something from behind an array
  pc           \* main asks for the status, or is in display

vars == <<cur, old, connError, width, line, first, background, row, strays, pc>>

(* L" * * * ", and a cell that was read from behind an array.              *)
Separator == << " ", "*", " ", "*", " ", "*", " " >>
Beyond == "beyond"
Wrap(n) == n % Unsigned
Least(a, b) == IF a < b THEN a ELSE b

(* Twice the columns of a terminal do not wrap around; only -c and COLUMNS *)
(* would take a width that does.                                           *)
ASSUME DisplayAssumption ==
  /\ Lines \in [Songs -> Seq(STRING \ {Beyond})]
  /\ Widths \subseteq Nat \ {0} /\ Lengths \subseteq Nat
  /\ Unsigned \in Nat /\ \A columns \in Widths : 2 * columns <= Unsigned

(* What outs is given: n characters of str from its p'th on.               *)
Piece(str, p, n) == [i \in 1..n |-> IF p + i <= Len(str) THEN str[p + i] ELSE Beyond]

-----------------------------------------------------------------------------
(* formatLine and calculateHilightPos.                                     *)
LineOf(error, song) ==
  IF error THEN <<"[", "error", "]">> ELSE IF song = {} THEN <<"[no song]">> ELSE Lines[song]

HilightPos(c) ==
  IF c.error THEN c.hilight ELSE IF c.len = 0 THEN 0 ELSE Wrap(c.pos * c.columns) \div c.len

-----------------------------------------------------------------------------
(* outs prints str; after hilightLeft columns it turns the colour off.     *)
(* What is drawn so far: the cells, the colour, and hilightLeft, which     *)
(* wraps around when it was zero.                                          *)
Cells(str, lit) == [i \in DOMAIN str |-> [ch |-> str[i], lit |-> lit]]

Outs(t, str) ==
  LET ends == t.left # 0 /\ Len(str) >= t.left
      n == IF ends THEN t.left ELSE 0
      rest == SubSeq(str, n + 1, Len(str))
      lit == t.lit /\ ~ends
  IN [cells |-> t.cells \o Cells(SubSeq(str, 1, n), t.lit) \o Cells(rest, lit),
      lit |-> lit, left |-> Wrap((IF ends THEN 0 ELSE t.left) - Len(rest))]

(* outputScrolled: what fits of the line from scroll on, the separator,    *)
(* and of the line again.  cols - 1 columns are used.                      *)
OutScrolled(t, text, scroll, cols) ==
  LET len   == Len(text)
      n1    == IF scroll < len THEN Least(len - scroll, cols - 1) ELSE 0
      t1    == Outs(t, Piece(text, scroll, n1))
      skip  == IF scroll > len THEN scroll - len ELSE 0
      n2    == Least(Wrap(Len(Separator) - skip), cols - n1 - 1)
      t2    == IF cols - n1 = 1 THEN t1 ELSE Outs(t1, Piece(Separator, skip, n2))
      n3    == cols - n1 - n2 - 1
  IN IF cols - n1 = 1 \/ n3 = 0 THEN t2 ELSE Outs(t2, Piece(text, 0, n3))

ScrollAfter_Endless(scroll, len) == scroll + 1  \* mutant: never goes back
ScrollAfter_NoSeparator(scroll, len) == (scroll + 1) % len  \* mutant: wraps at the line's end
ScrollAfter(scroll, len) == (scroll + 1) % (len + Len(Separator))

(* output: the state, a blank, the line, and the rest of the highlight.    *)
Symbol(c) == IF c.error THEN "!" ELSE c.state
Fits(text, cols) == Len(text) < cols

Pad(t, cols) ==
  IF t.left # 0 /\ t.left < cols THEN t.cells \o Cells([i \in 1..t.left |-> " "], t.lit) ELSE t.cells

Output(c, text) ==
  LET left  == IF c.error THEN 0 ELSE c.hilight
      t0    == Outs([cells |-> <<>>, lit |-> left # 0, left |-> left], <<Symbol(c)>>)
      t1    == Outs(t0, <<" ">>)
      cols  == c.columns - 2
  IN CASE c.columns = 1 -> t0.cells
       [] c.columns \in {2, 3} -> t1.cells
       [] OTHER -> Pad(IF Fits(text, cols) THEN Outs(t1, text) ELSE OutScrolled(t1, text, c.scroll, cols), cols)

Stray(cells) == \E i \in DOMAIN cells : cells[i].ch = Beyond
Scrolls(c, text) == c.columns > 3 /\ ~Fits(text, c.columns - 2)

-----------------------------------------------------------------------------
Init ==
  /\ background \in BOOLEAN /\ connError = TRUE /\ width \in Widths
  /\ cur = [error |-> FALSE, song |-> {}, state |-> "stop", pos |-> 0, len |-> 0,
            hilight |-> 0, scroll |-> 0, columns |-> width]
  /\ old = cur /\ line = <<>> /\ first = TRUE /\ row = <<>> /\ strays = 0
  /\ pc = "status"

(* getSong has a new status, or the connection an error.                   *)
Status ==
  /\ pc = "status" /\ pc' = "display"
  /\ \/ /\ connError' = FALSE
        /\ \E song \in Songs, state \in {"play", "pause"}, len \in Lengths : \E pos \in 0..len :
             cur' = [cur EXCEPT !.song = song, !.state = state, !.pos = pos, !.len = len]
     \/ /\ connError' = FALSE
        /\ cur' = [cur EXCEPT !.song = {}, !.state = "stop", !.pos = 0, !.len = 0]
     \/ /\ connError' = TRUE
        /\ cur' = [cur EXCEPT !.song = {}]
  /\ UNCHANGED <<old, width, line, first, background, row, strays>>

HandleResize ==
  /\ width' \in Widths
  /\ UNCHANGED <<cur, old, connError, line, first, background, row, strays, pc>>

(* One round of display's loop.                                            *)
Reformats(c) == first \/ c.error # old.error \/ c.song # old.song

Repositions(c) == Reformats(c) \/ c.columns # old.columns \/ c.pos # old.pos \/ c.len # old.len

Redraws_NotState(c) == Reformats(c) \/ c.columns # old.columns \/ c.hilight # old.hilight \/ c.scroll # old.scroll  \* mutant
Redraws(c) ==
  \/ Reformats(c) \/ c.columns # old.columns \/ c.hilight # old.hilight
  \/ c.state # old.state \/ c.scroll # old.scroll

Round ==
  LET seen  == [cur EXCEPT !.error = connError, !.columns = width]
      text  == IF Reformats(seen) THEN LineOf(seen.error, seen.song) ELSE line
      c     == IF Repositions(seen) THEN [seen EXCEPT !.hilight = HilightPos(seen)] ELSE seen
      draws == Redraws(c) \/ background
  IN /\ pc = "display" /\ pc' \in IF connError THEN {"status", "display"} ELSE {"status"}
     /\ line' = text /\ first' = FALSE /\ old' = c
     /\ row' = IF draws THEN Output(c, text) ELSE row
     /\ strays' = (IF Reformats(seen) THEN 0 ELSE strays) + (IF draws /\ Stray(row') /\ strays < 2 THEN 1 ELSE 0)
     /\ cur' = IF draws /\ Scrolls(c, text) THEN [c EXCEPT !.scroll = ScrollAfter(c.scroll, Len(text))] ELSE c
     /\ UNCHANGED <<connError, width, background>>

Next == Status \/ HandleResize \/ Round
Spec == Init /\ [][Next]_vars

-----------------------------------------------------------------------------
TypeOK ==
  /\ \A c \in {cur, old} :
       /\ c.error \in BOOLEAN /\ c.song \in Songs \cup {{}} /\ c.state \in {"stop", "play", "pause"}
       /\ c.columns \in Widths /\ c.len \in Lengths \cup {0} /\ c.pos \in 0..c.len
       /\ c.hilight \in Nat /\ (~c.error => c.hilight <= c.columns)
       /\ c.scroll \in Nat
  /\ connError \in BOOLEAN /\ width \in Widths /\ first \in BOOLEAN /\ background \in BOOLEAN
  /\ strays \in 0..2 /\ pc \in {"status", "display"}

(* The row as it should be: the first hilight columns lit and nothing      *)
(* else, the line in full or a window on the endless line with its         *)
(* separator, one column left free when it scrolls.                        *)
Endless(text, p) == (text \o Separator)[(p % (Len(text) + Len(Separator))) + 1]

Window(c, text) ==
  IF Fits(text, c.columns - 2) THEN text ELSE [i \in 1..(c.columns - 3) |-> Endless(text, c.scroll + i - 1)]

(* A highlight of the whole row is not drawn behind an empty line.         *)
Unfilled(c, text) == text = <<>> /\ HilightPos(c) = c.columns

Drawn(c, text) ==
  LET lit   == IF c.error THEN 0 ELSE HilightPos(c)
      chars == IF c.columns < 4 THEN SubSeq(<<Symbol(c), " ">>, 1, Least(2, c.columns)) ELSE <<Symbol(c), " ">> \o Window(c, text)
      size  == IF c.columns < 4 \/ lit <= Len(chars) \/ Unfilled(c, text) THEN Len(chars) ELSE lit
  IN [i \in 1..size |-> [ch |-> IF i <= Len(chars) THEN chars[i] ELSE " ", lit |-> i <= lit]]

InRange(c, text) == Scrolls(c, text) => c.scroll < Len(text) + Len(Separator)

(* After every round the row is as it should be for what display last      *)
(* looked at, though it is not drawn every time; a scroll position left    *)
(* from a longer line is excepted.                                         *)
RowIsCurrent ==
  ~first /\ InRange(old, line) => row = Drawn(old, line) /\ line = LineOf(old.error, old.song)

(* Nothing is read from outside the line and the separator, but in one row *)
(* of a line, when the scroll position is left from a longer one.          *)
ReadsInside == strays <= 1

(* As long as the same line is too long for the same terminal its text     *)
(* moves by one column a second, over the separator back to its beginning. *)
MovesByOne ==
  [][ LET scrolling == Scrolls(old, line) /\ InRange(old, line) /\ Scrolls(old', line')
      IN pc = "display" /\ ~first /\ scrolling /\ line' = line /\ old'.columns = old.columns /\ width' = width =>
           \A i \in 3..old.columns - 2 : row'[i].ch = row[i + 1].ch ]_vars
=============================================================================
