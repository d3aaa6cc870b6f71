------------------------------- MODULE CutCom -------------------------------
(***************************************************************************)
(* cutcom.c: copies C source without its comments.  A table says for every *)
(* state and character what is printed and which state is next.  The input *)
(* may end after any character.                                            *)
(***************************************************************************)
EXTENDS Integers, SequencesExt

CONSTANT MaxInput  \* bound: characters of the input

Slash == "/"
Star  == "*"
Char  == {Slash, Star, "\"", "'", "\\", "\n", "a"}

VARIABLES input, state, output
vars == <<input, state, output>>

(* A row: the character, or "any"; whether it is printed; what is printed  *)
(* before it; the new state.                                               *)
Row(ch, print, pre, new) == [ch |-> ch, print |-> print, pre |-> pre, new |-> new]

Rows ==
  [text       |-> <<Row(Slash, FALSE, <<>>, "slash"), Row("\"", TRUE, <<>>, "string"),
                    Row("'", TRUE, <<>>, "char"), Row("any", TRUE, <<>>, "text")>>,
   string     |-> <<Row("\"", TRUE, <<>>, "text"), Row("\\", TRUE, <<>>, "string_bs"),
                    Row("any", TRUE, <<>>, "string")>>,
   string_bs  |-> <<Row("any", TRUE, <<>>, "string")>>,
   char       |-> <<Row("'", TRUE, <<>>, "text"), Row("\\", TRUE, <<>>, "char_bs"),
                    Row("any", TRUE, <<>>, "char")>>,
   char_bs    |-> <<Row("any", TRUE, <<>>, "char")>>,
   slash      |-> <<Row(Slash, FALSE, <<>>, "line_comm"), Row(Star, FALSE, <<>>, "block_comm"),
                    Row("any", TRUE, <<Slash>>, "text")>>,
   line_comm  |-> <<Row("\n", TRUE, <<>>, "text"), Row("any", FALSE, <<>>, "line_comm")>>,
   block_comm |-> <<Row(Star, FALSE, <<>>, "star"), Row("any", FALSE, <<>>, "block_comm")>>,
   star       |-> <<Row(Slash, FALSE, <<>>, "text"), Row("any", FALSE, <<>>, "block_comm")>>]

Init == input = <<>> /\ state = "text" /\ output = <<>>

(* main: the first row that has the character.                             *)
First(rows, ch) == rows[Min({i \in DOMAIN rows : rows[i].ch \in {ch, "any"}})]
Func_NoEscape(s, ch) ==  \* mutant: a backslash does not protect what follows it
  First(Rows[IF s = "string_bs" THEN "string" ELSE s], ch)
Func(s, ch) == First(Rows[s], ch)

Getc(ch) ==
  /\ Len(input) < MaxInput
  /\ input' = Append(input, ch)
  /\ LET func == Func(state, ch)
     IN /\ output' = output \o func.pre \o IF func.print THEN <<ch>> ELSE <<>>
        /\ state' = func.new

Next == \E ch \in Char : Getc(ch)
Spec == Init /\ [][Next]_vars

-----------------------------------------------------------------------------
(* Reference: C without comments.  A literal ends at the first quote of    *)
(* its kind that no backslash is in front of, a comment at its first end;  *)
(* the last character ends what is still open.                             *)
Escaped(text, i, j) ==  \* by an odd number of backslashes, of those after i
  Cardinality({k \in i + 1..j - 1 : \A l \in k..j - 1 : text[l] = "\\"}) % 2 = 1

LiteralEnd(text, i) ==
  Min({j \in i + 1..Len(text) : text[j] = text[i] /\ ~Escaped(text, i, j)} \cup {Len(text)})
LineEnd(text, i)  == Min({j \in i + 2..Len(text) : text[j] = "\n"} \cup {Len(text) + 1})
BlockEnd(text, i) ==
  Min({j \in i + 3..Len(text) : text[j - 1] = Star /\ text[j] = Slash} \cup {Len(text)})

Opens(text, i, second) == text[i] = Slash /\ i < Len(text) /\ text[i + 1] = second

(* What is left of the piece that begins at i, and where the next begins.  *)
Piece(kept, next) == [kept |-> kept, next |-> next]
PieceAt(text, i) ==
  IF text[i] \in {"\"", "'"} THEN Piece(SubSeq(text, i, LiteralEnd(text, i)), LiteralEnd(text, i) + 1)
  ELSE IF Opens(text, i, Slash) THEN Piece(<<>>, LineEnd(text, i))
  ELSE IF Opens(text, i, Star) THEN Piece(<<>>, BlockEnd(text, i) + 1)
  ELSE Piece(<<text[i]>>, i + 1)

Stripped(text) ==  \* what is left of it from a character on
  LET from[i \in 1..Len(text) + 1] ==
        IF i > Len(text) THEN <<>> ELSE PieceAt(text, i).kept \o from[PieceAt(text, i).next]
  IN from
Strip(text) == Stripped(text)[1]

Has(first, second) == \E i \in 1..Len(input) - 1 : input[i] = first /\ input[i + 1] = second

(* Code and literals come out as they are and comments do not, however     *)
(* they contain each other's marks and wherever the input ends.  Left out  *)
(* are two stars in a row (RemovesComments has them), a quote behind a     *)
(* slash, which opens no literal, and a slash at the end, which is lost.   *)
CutsComments ==
  ~Has(Star, Star) /\ ~Has(Slash, "\"") /\ ~Has(Slash, "'") /\ state # "slash" => output = Strip(input)

(* "removes C++ comments" (README:41), also those that end with two stars. *)
RemovesComments == ~Has(Slash, "\"") /\ ~Has(Slash, "'") /\ state # "slash" => output = Strip(input)
=============================================================================
