-------------------------- MODULE MpdDisplay_proofs --------------------------
(***************************************************************************)
(* What is proved about MpdDisplay for any lines, songs and widths: output *)
(* draws what Drawn says, and after every round of display the row is      *)
(* current, moves by one and has at most once shown anything from behind   *)
(* an array.                                                               *)
(***************************************************************************)
EXTENDS MpdDisplay, TLAPS, SequenceTheorems

(* What may stand in a column: anything but the mark of a stray read.      *)
Glyph == (STRING \ {Beyond}) \cup {"[", "error", "]", "[no song]", " ", "*", "!", "stop", "play", "pause"}
Cell  == [ch : Glyph, lit : BOOLEAN]

(* Text whose first h columns are lit.                                     *)
Lit(text, h) == [i \in 1..Len(text) |-> [ch |-> text[i], lit |-> i <= h]]

(* outs has printed text under a highlight of h columns: hilightLeft is    *)
(* what is left of it, or has wrapped around behind it.                    *)
Painted(t, text, h) ==
  /\ t.cells = Lit(text, h)
  /\ t.lit \in BOOLEAN /\ (t.lit <=> Len(text) < h)
  /\ t.left = IF Len(text) <= h THEN h - Len(text) ELSE Unsigned - (Len(text) - h)

(* The cells of a lit text.                                                *)
LEMMA LitCells ==
  ASSUME NEW text \in Seq(Glyph), NEW h \in Nat
  PROVE  /\ Lit(text, h) \in Seq(Cell) /\ Len(Lit(text, h)) = Len(text)
         /\ \A i \in 1..Len(text) : Lit(text, h)[i].ch = text[i] /\ Lit(text, h)[i].lit = (i <= h)
         /\ \A i \in 1..Len(text) : Lit(text, h)[i] = [ch |-> text[i], lit |-> i <= h]
<1>1. Len(text) \in Nat /\ \A i \in 1..Len(text) : text[i] \in Glyph
  OBVIOUS
<1>2. \A i \in 1..Len(text) : [ch |-> text[i], lit |-> i <= h] \in Cell
  BY <1>1 DEF Cell
<1> QED BY <1>1, <1>2 DEF Lit

(* The cells of one piece of text in one colour.                           *)
LEMMA CellsOf ==
  ASSUME NEW str \in Seq(Glyph), NEW b \in BOOLEAN
  PROVE  /\ Cells(str, b) \in Seq(Cell) /\ Len(Cells(str, b)) = Len(str)
         /\ \A i \in 1..Len(str) : Cells(str, b)[i] = [ch |-> str[i], lit |-> b]
<1>1. Len(str) \in Nat /\ DOMAIN str = 1..Len(str) /\ \A i \in 1..Len(str) : str[i] \in Glyph
  OBVIOUS
<1>2. \A i \in 1..Len(str) : [ch |-> str[i], lit |-> b] \in Cell
  BY <1>1 DEF Cell
<1> QED BY <1>1, <1>2 DEF Cells

(* Wrap for numbers that are, or have just stopped being, unsigned.        *)
LEMMA Wraps ==
  ASSUME Unsigned \in Nat, NEW x \in Int
  PROVE  /\ 0 <= x /\ x < Unsigned => Wrap(x) = x
         /\ x < 0 /\ -Unsigned <= x => Wrap(x) = x + Unsigned
BY DEF Wrap

(* outs (mpd-show.c:615) appends its text and turns the colour off in the  *)
(* right column, however the pieces are cut: hilightLeft wraps around      *)
(* behind zero but never comes back to a small number before the row ends. *)
LEMMA OutsAdds ==
  ASSUME NEW t, NEW text \in Seq(Glyph), NEW str \in Seq(Glyph), NEW h \in Nat, NEW w \in Nat,
         Painted(t, text, h), h <= w, Len(text) + Len(str) <= w, 2 * w <= Unsigned, Unsigned \in Nat, w > 0
  PROVE  Painted(Outs(t, str), text \o str, h)
<1> DEFINE k == Len(text)
           m == Len(str)
           ends == t.left # 0 /\ m >= t.left
           n == IF ends THEN t.left ELSE 0
           lit == t.lit /\ ~ends
           before == SubSeq(str, 1, n)
           rest == SubSeq(str, n + 1, m)
<1>1. /\ Outs(t, str).cells = (t.cells \o Cells(before, t.lit)) \o Cells(rest, lit)
      /\ Outs(t, str).lit = lit
      /\ Outs(t, str).left = Wrap((IF ends THEN 0 ELSE t.left) - Len(rest))
  BY DEF Outs
<1>2. k \in Nat /\ m \in Nat /\ text \o str \in Seq(Glyph) /\ Len(text \o str) = k + m
      /\ \A i \in 1..k + m : (text \o str)[i] = IF i <= k THEN text[i] ELSE str[i - k]
  BY ConcatProperties
<1>3. /\ t.cells = Lit(text, h) /\ t.lit \in BOOLEAN /\ (t.lit <=> k < h)
      /\ t.left = IF k <= h THEN h - k ELSE Unsigned - (k - h)
  BY DEF Painted
<1>4. t.left \in Nat
  BY <1>2, <1>3
<1> HIDE DEF k, m
<1>5. ends \in BOOLEAN /\ (ends <=> k < h /\ k + m >= h)
  <2>1. CASE k <= h
    BY <1>2, <1>3, <2>1
  <2>2. CASE k > h
    <3>1. t.left > m
      BY <1>2, <1>3, <2>2 DEF k, m
    <3> QED BY <1>2, <1>3, <2>2, <3>1
  <2> QED BY <1>2, <2>1, <2>2
<1>6. n = (IF ends THEN h - k ELSE 0) /\ n \in Nat /\ n <= m
  BY <1>2, <1>3, <1>5
<1> HIDE DEF ends, n
<1>7. lit \in BOOLEAN /\ (lit <=> k + m < h)
  BY <1>2, <1>3, <1>5
<1> HIDE DEF lit
<1>8. /\ before \in Seq(Glyph) /\ Len(before) = n /\ \A i \in 1..n : before[i] = str[i]
      /\ rest \in Seq(Glyph) /\ Len(rest) = m - n /\ \A i \in 1..m - n : rest[i] = str[n + i]
  <2>1. \A i \in 1..n : str[i] \in Glyph
    BY <1>2, <1>6 DEF m
  <2>2. \A i \in n + 1..m : str[i] \in Glyph
    BY <1>2, <1>6 DEF m
  <2>3. /\ before \in Seq(Glyph) /\ Len(before) = IF 1 <= n THEN n - 1 + 1 ELSE 0
        /\ \A i \in 1..n - 1 + 1 : before[i] = str[1 + i - 1]
    BY <1>6, <2>1, SubSeqProperties
  <2>4. /\ rest \in Seq(Glyph) /\ Len(rest) = IF n + 1 <= m THEN m - (n + 1) + 1 ELSE 0
        /\ \A i \in 1..m - (n + 1) + 1 : rest[i] = str[n + 1 + i - 1]
    BY <1>2, <1>6, <2>2, SubSeqProperties
  <2>5. n - 1 + 1 = n /\ m - (n + 1) + 1 = m - n /\ \A i \in Int : n + 1 + i - 1 = n + i /\ 1 + i - 1 = i
    BY <1>2, <1>6
  <2> HIDE DEF before, rest
  <2> QED BY <1>2, <1>6, <2>3, <2>4, <2>5
<1> HIDE DEF before, rest
<1> DEFINE cells == (t.cells \o Cells(before, t.lit)) \o Cells(rest, lit)
<1>9. /\ cells \in Seq(Cell) /\ Len(cells) = k + m
      /\ \A i \in 1..k : cells[i] = [ch |-> text[i], lit |-> i <= h]
      /\ \A i \in k + 1..k + n : cells[i] = [ch |-> str[i - k], lit |-> t.lit]
      /\ \A i \in k + n + 1..k + m : cells[i] = [ch |-> str[i - k], lit |-> lit]
  <2> DEFINE A == Cells(before, t.lit)
             B == Cells(rest, lit)
             D == t.cells \o A
  <2>1. /\ A \in Seq(Cell) /\ Len(A) = n /\ \A i \in 1..n : A[i] = [ch |-> str[i], lit |-> t.lit]
    <3>1. /\ A \in Seq(Cell) /\ Len(A) = Len(before)
          /\ \A i \in 1..Len(before) : A[i] = [ch |-> before[i], lit |-> t.lit]
      BY <1>3, <1>8, CellsOf
    <3>2. Len(before) = n /\ \A i \in 1..n : before[i] = str[i]
      BY <1>8
    <3> HIDE DEF A
    <3>3. \A i \in 1..n : A[i] = [ch |-> before[i], lit |-> t.lit]
      BY <3>1, <3>2, Zenon
    <3> QED BY <3>1, <3>2, <3>3
  <2>2. /\ B \in Seq(Cell) /\ Len(B) = m - n /\ \A i \in 1..m - n : B[i] = [ch |-> str[n + i], lit |-> lit]
    BY <1>7, <1>8, CellsOf
  <2>3. /\ t.cells \in Seq(Cell) /\ Len(t.cells) = k
        /\ \A i \in 1..k : t.cells[i] = [ch |-> text[i], lit |-> i <= h]
    BY <1>3, LitCells DEF k
  <2> HIDE DEF A, B
  <2>4. /\ D \in Seq(Cell) /\ Len(D) = k + n
        /\ \A i \in 1..k + n : D[i] = IF i <= k THEN t.cells[i] ELSE A[i - k]
    <3>1. /\ D \in Seq(Cell) /\ Len(D) = Len(t.cells) + Len(A)
          /\ \A i \in 1..Len(t.cells) + Len(A) : D[i] = IF i <= Len(t.cells) THEN t.cells[i] ELSE A[i - Len(t.cells)]
      BY <2>1, <2>3, ConcatProperties
    <3>2. Len(t.cells) = k /\ Len(A) = n
      BY <2>1, <2>3
    <3> HIDE DEF D
    <3> QED BY <3>1, <3>2, Zenon
  <2> HIDE DEF D
  <2>5. /\ D \o B \in Seq(Cell) /\ Len(D \o B) = (k + n) + (m - n)
        /\ \A i \in 1..(k + n) + (m - n) : (D \o B)[i] = IF i <= k + n THEN D[i] ELSE B[i - (k + n)]
    <3>1. /\ D \o B \in Seq(Cell) /\ Len(D \o B) = Len(D) + Len(B)
          /\ \A i \in 1..Len(D) + Len(B) : (D \o B)[i] = IF i <= Len(D) THEN D[i] ELSE B[i - Len(D)]
      BY <2>2, <2>4, ConcatProperties
    <3>2. Len(D) = k + n /\ Len(B) = m - n
      BY <2>2, <2>4
    <3> QED BY <3>1, <3>2, Zenon
  <2>6. (k + n) + (m - n) = k + m /\ cells = D \o B
    BY <1>2, <1>6 DEF A, B, D
  <2> HIDE DEF cells
  <2>7. ASSUME NEW i \in 1..k PROVE cells[i] = [ch |-> text[i], lit |-> i <= h]
    <3>1. i \in 1..k + m /\ i <= k + n /\ i \in 1..k + n /\ i <= k
      BY <1>2, <1>6
    <3> QED BY <2>3, <2>4, <2>5, <2>6, <3>1
  <2>8. ASSUME NEW i \in k + 1..k + n PROVE cells[i] = [ch |-> str[i - k], lit |-> t.lit]
    <3>1. i \in 1..k + m /\ i <= k + n /\ i \in 1..k + n /\ ~(i <= k) /\ i - k \in 1..n
      BY <1>2, <1>6
    <3> QED BY <2>1, <2>4, <2>5, <2>6, <3>1
  <2>9. ASSUME NEW i \in k + n + 1..k + m PROVE cells[i] = [ch |-> str[i - k], lit |-> lit]
    <3>1. i \in 1..k + m /\ ~(i <= k + n) /\ i - (k + n) \in 1..m - n /\ n + (i - (k + n)) = i - k
      BY <1>2, <1>6
    <3> QED BY <2>2, <2>5, <2>6, <3>1
  <2> QED BY <2>5, <2>6, <2>7, <2>8, <2>9
<1> HIDE DEF cells
<1>10. cells = Lit(text \o str, h)
  <2>1. /\ Lit(text \o str, h) \in Seq(Cell) /\ Len(Lit(text \o str, h)) = k + m
        /\ \A i \in 1..k + m : Lit(text \o str, h)[i] = [ch |-> (text \o str)[i], lit |-> i <= h]
    <3>1. /\ Lit(text \o str, h) \in Seq(Cell) /\ Len(Lit(text \o str, h)) = Len(text \o str)
          /\ \A i \in 1..Len(text \o str) : Lit(text \o str, h)[i] = [ch |-> (text \o str)[i], lit |-> i <= h]
      BY <1>2, LitCells
    <3>2. Len(text \o str) = k + m
      BY <1>2
    <3> QED BY <3>1, <3>2, Zenon
  <2>2. ASSUME NEW i \in 1..k + m
        PROVE  cells[i] = [ch |-> (text \o str)[i], lit |-> i <= h]
    <3>1. CASE i <= k
      <4>1. i \in 1..k
        BY <1>2, <3>1
      <4> QED BY <1>2, <1>9, <3>1, <4>1
    <3>2. CASE i > k /\ i <= k + n
      <4>1. i \in k + 1..k + n /\ ~(i <= k)
        BY <1>2, <1>6, <3>2
      <4>2. t.lit = (i <= h)
        <5>1. ends
          BY <1>2, <1>6, <3>2
        <5>2. k < h /\ i <= h
          BY <1>2, <1>5, <1>6, <3>2, <5>1
        <5> QED BY <1>3, <5>2
      <4>3. cells[i] = [ch |-> str[i - k], lit |-> t.lit] /\ (text \o str)[i] = str[i - k]
        BY <1>2, <1>9, <4>1
      <4> QED BY <4>2, <4>3
    <3>3. CASE i > k + n
      <4>1. i \in k + n + 1..k + m /\ ~(i <= k)
        BY <1>2, <1>6, <3>3
      <4>2. lit = (i <= h)
        <5>1. CASE ends
          <6>1. ~(i <= h) /\ ~(k + m < h)
            BY <1>2, <1>5, <1>6, <3>3, <5>1
          <6> QED BY <1>7, <6>1
        <5>2. CASE ~ends
          <6>1. (k + m < h) <=> (i <= h)
            BY <1>2, <1>5, <1>6, <3>3, <5>2
          <6> QED BY <1>7, <6>1
        <5> QED BY <5>1, <5>2
      <4>3. cells[i] = [ch |-> str[i - k], lit |-> lit] /\ (text \o str)[i] = str[i - k]
        BY <1>2, <1>9, <4>1
      <4> QED BY <4>2, <4>3
    <3> QED BY <1>2, <1>6, <3>1, <3>2, <3>3
  <2> QED BY <1>9, <2>1, <2>2, SeqEqual
<1>11. Outs(t, str).left = IF k + m <= h THEN h - (k + m) ELSE Unsigned - ((k + m) - h)
  <2>1. CASE ends
    <3>1. Outs(t, str).left = Wrap(0 - (m - (h - k)))
      BY <1>1, <1>6, <1>8, <2>1
    <3>2. k + m >= h /\ k < h /\ k + m <= w
      BY <1>2, <1>5, <2>1 DEF k, m
    <3>3. 0 - (m - (h - k)) \in Int
      BY <1>2
    <3>4. CASE k + m = h
      <4>1. 0 - (m - (h - k)) = 0 /\ 0 < Unsigned
        BY <1>2, <3>4
      <4> QED BY <1>2, <3>1, <3>4, <4>1, Wraps
    <3>5. CASE k + m # h
      <4>1. /\ 0 - (m - (h - k)) < 0 /\ -Unsigned <= 0 - (m - (h - k)) /\ ~(k + m <= h)
            /\ 0 - (m - (h - k)) + Unsigned = Unsigned - ((k + m) - h)
        BY <1>2, <3>2, <3>3, <3>5
      <4> QED BY <3>1, <3>3, <4>1, Wraps
    <3> QED BY <3>4, <3>5
  <2>2. CASE ~ends /\ k <= h
    <3>1. Outs(t, str).left = Wrap((h - k) - m)
      BY <1>1, <1>3, <1>6, <1>8, <1>2, <2>2
    <3>2. k = h \/ k + m < h
      BY <1>2, <1>5, <2>2
    <3>3. (h - k) - m \in Int /\ k + m <= w
      BY <1>2 DEF k, m
    <3>4. CASE k + m <= h
      <4>1. 0 <= (h - k) - m /\ (h - k) - m < Unsigned /\ (h - k) - m = h - (k + m)
        BY <1>2, <3>3, <3>4
      <4> QED BY <3>1, <3>3, <3>4, <4>1, Wraps
    <3>5. CASE ~(k + m <= h)
      <4>1. (h - k) - m < 0 /\ -Unsigned <= (h - k) - m /\ (h - k) - m + Unsigned = Unsigned - ((k + m) - h)
        BY <1>2, <3>2, <3>3, <3>5
      <4> QED BY <3>1, <3>3, <3>5, <4>1, Wraps
    <3> QED BY <3>4, <3>5
  <2>3. CASE ~ends /\ k > h
    <3>1. Outs(t, str).left = Wrap((Unsigned - (k - h)) - m)
      BY <1>1, <1>3, <1>6, <1>8, <1>2, <2>3
    <3>2. (Unsigned - (k - h)) - m \in Int /\ k + m <= w
      BY <1>2 DEF k, m
    <3> QED BY <1>2, <2>3, <3>1, <3>2, Wraps
  <2> QED BY <1>2, <1>5, <2>1, <2>2, <2>3
<1> QED BY <1>1, <1>2, <1>7, <1>10, <1>11 DEF Painted, cells

(* A quotient is at most b if the dividend is at most b times the divisor. *)
LEMMA DivBound ==
  ASSUME NEW x \in Nat, NEW b \in Nat, NEW n \in Nat, n > 0, x <= n * b
  PROVE  x \div n \in Nat /\ x \div n <= b
<1> DEFINE q == x \div n
<1>1. q \in Int /\ n * q <= x /\ x < n * q + n
  OBVIOUS
<1> HIDE DEF q
<1>2. q >= 0
  <2> SUFFICES ASSUME q <= -1 PROVE FALSE
    BY <1>1
  <2>1. n * q <= n * (-1)
    <3>1. n * (-1 - q) >= 0 /\ n * (-1 - q) = n * (-1) - n * q
      BY <1>1
    <3> QED BY <1>1, <3>1
  <2> QED BY <1>1, <2>1
<1>3. q <= b
  <2> SUFFICES ASSUME q >= b + 1 PROVE FALSE
    BY <1>1
  <2>1. n * q >= n * b + n
    <3>1. n * (q - (b + 1)) >= 0 /\ n * (q - (b + 1)) = n * q - (n * b + n)
      BY <1>1
    <3> QED BY <1>1, <3>1
  <2> QED BY <1>1, <2>1
<1> QED BY <1>1, <1>2, <1>3 DEF q

(* Where the product of calculateHilightPos wraps around it only gets      *)
(* smaller.                                                                *)
LEMMA WrapsDown ==
  ASSUME Unsigned \in Nat, Unsigned > 0, NEW a \in Nat, NEW b \in Nat, NEW n \in Nat, a <= n
  PROVE  Wrap(a * b) \in Nat /\ Wrap(a * b) <= n * b
<1>1. a * b \in Nat /\ a * b <= n * b
  <2>1. (n - a) * b >= 0 /\ (n - a) * b = n * b - a * b
    OBVIOUS
  <2> QED BY <2>1
<1> DEFINE x == a * b
<1>2. x \in Nat
  BY <1>1
<1> HIDE DEF x
<1>3. x % Unsigned \in Nat /\ x % Unsigned <= x
  <2>1. CASE x < Unsigned
    BY <1>2, <2>1
  <2>2. CASE x >= Unsigned
    <3>1. x % Unsigned \in 0..Unsigned - 1
      BY <1>2
    <3> QED BY <1>2, <2>2, <3>1
  <2> QED BY <1>2, <2>1, <2>2
<1> QED BY <1>1, <1>3 DEF Wrap, x

(* The remainder of a number below twice the modulus.                      *)
LEMMA ModOnce ==
  ASSUME NEW q \in Nat, NEW m \in Nat, m > 0, q < 2 * m
  PROVE  q % m = IF q < m THEN q ELSE q - m
<1>1. CASE q < m
  BY <1>1
<1>2. CASE q >= m
  <2> DEFINE r == q - m
  <2>1. r \in 0..m - 1 /\ q = m * 1 + r
    BY <1>2
  <2> QED BY <1>2, <2>1
<1> QED BY <1>1, <1>2

(* The separator has seven columns.                                        *)
LEMMA SevenColumns == Separator \in Seq(Glyph) /\ Len(Separator) = 7
BY DEF Separator, Glyph

(* A position on the endless line is in the line, in the separator, or in  *)
(* the line again.                                                         *)
LEMMA Around ==
  ASSUME NEW text \in Seq(Glyph), NEW p \in Nat, p < 2 * Len(text) + 7
  PROVE  /\ Endless(text, p) \in Glyph
         /\ Endless(text, p) = IF p < Len(text) THEN text[p + 1]
                               ELSE IF p < Len(text) + 7 THEN Separator[p - Len(text) + 1]
                               ELSE text[p - (Len(text) + 7) + 1]
<1> DEFINE n == Len(text)
           all == text \o Separator
<1>1. /\ n \in Nat /\ all \in Seq(Glyph) /\ Len(all) = n + 7
      /\ \A i \in 1..n + 7 : all[i] = IF i <= n THEN text[i] ELSE Separator[i - n]
  <2>1. /\ all \in Seq(Glyph) /\ Len(all) = Len(text) + Len(Separator)
        /\ \A i \in 1..Len(text) + Len(Separator) : all[i] = IF i <= Len(text) THEN text[i] ELSE Separator[i - Len(text)]
    BY SevenColumns, ConcatProperties
  <2>2. Len(text) \in Nat
    OBVIOUS
  <2> HIDE DEF all
  <2> QED BY <2>1, <2>2, SevenColumns
<1>2. Endless(text, p) = all[(p % (n + 7)) + 1]
  BY SevenColumns DEF Endless
<1> HIDE DEF n, all
<1>3. p % (n + 7) = IF p < n + 7 THEN p ELSE p - (n + 7)
  <2>1. n + 7 \in Nat /\ n + 7 > 0 /\ p < 2 * (n + 7)
    BY <1>1 DEF n
  <2> DEFINE m == n + 7
  <2>2. m \in Nat /\ m > 0 /\ p < 2 * m
    BY <2>1
  <2> HIDE DEF m
  <2>3. p % m = IF p < m THEN p ELSE p - m
    BY <2>2, ModOnce
  <2> QED BY <2>3 DEF m
<1>4. CASE p < n + 7
  <2>1. p + 1 \in 1..n + 7 /\ p % (n + 7) = p
    BY <1>1, <1>3, <1>4
  <2>2. all[p + 1] = IF p + 1 <= n THEN text[p + 1] ELSE Separator[p + 1 - n]
    BY <1>1, <2>1
  <2>3. p + 1 - n = p - n + 1 /\ (p + 1 <= n <=> p < n)
    BY <1>1
  <2>4. all[p + 1] \in Glyph
    BY <1>1, <2>1
  <2> QED BY <1>2, <1>4, <2>1, <2>2, <2>3, <2>4 DEF n
<1>5. CASE ~(p < n + 7)
  <2>1. /\ p - (n + 7) + 1 \in 1..n + 7 /\ p - (n + 7) + 1 <= n /\ p % (n + 7) = p - (n + 7)
        /\ ~(p < n)
    BY <1>1, <1>3, <1>5 DEF n
  <2>2. all[p - (n + 7) + 1] = text[p - (n + 7) + 1]
    BY <1>1, <2>1
  <2>3. all[p - (n + 7) + 1] \in Glyph
    BY <1>1, <2>1
  <2> QED BY <1>2, <1>5, <2>1, <2>2, <2>3 DEF n
<1> QED BY <1>4, <1>5

(* A piece that ends inside its text has nothing from behind it.           *)
LEMMA PieceOf ==
  ASSUME NEW str \in Seq(Glyph), NEW p \in Nat, NEW n \in Nat, n > 0 => p + n <= Len(str)
  PROVE  /\ Piece(str, p, n) \in Seq(Glyph) /\ Len(Piece(str, p, n)) = n
         /\ \A i \in 1..n : Piece(str, p, n)[i] = str[p + i]
<1>1. \A i \in 1..n : p + i <= Len(str) /\ p + i \in 1..Len(str)
  OBVIOUS
<1>2. Piece(str, p, n) = [i \in 1..n |-> str[p + i]]
  BY <1>1 DEF Piece
<1>3. \A i \in 1..n : str[p + i] \in Glyph
  BY <1>1
<1> QED BY <1>2, <1>3

(* The three pieces outputScrolled prints (mpd-show.c:573) make one window *)
(* on the endless line.                                                    *)
LEMMA ScrollDraws ==
  ASSUME Unsigned \in Nat, NEW w \in Nat, 2 * w <= Unsigned, w > 3,
         NEW t, NEW begin \in Seq(Glyph), Len(begin) = 2, NEW h \in Nat, h <= w, Painted(t, begin, h),
         NEW text \in Seq(Glyph), NEW s \in Nat, s < Len(text) + 7, w - 2 <= Len(text)
  PROVE  Painted(OutScrolled(t, text, s, w - 2), begin \o [i \in 1..w - 3 |-> Endless(text, s + i - 1)], h)
<1> DEFINE len  == Len(text)
           cols == w - 2
           n1   == IF s < len THEN Least(len - s, cols - 1) ELSE 0
           a    == Piece(text, s, n1)
           t1   == Outs(t, a)
           skip == IF s > len THEN s - len ELSE 0
           n2   == Least(Wrap(7 - skip), cols - n1 - 1)
           b    == Piece(Separator, skip, n2)
           t2   == IF cols - n1 = 1 THEN t1 ELSE Outs(t1, b)
           n3   == cols - n1 - n2 - 1
           d    == Piece(text, 0, n3)
           new  == [i \in 1..w - 3 |-> Endless(text, s + i - 1)]
<1>1. OutScrolled(t, text, s, cols) = IF cols - n1 = 1 \/ n3 = 0 THEN t2 ELSE Outs(t2, d)
  <2> DEFINE k2(m) == Least(Wrap(m - skip), cols - n1 - 1)
             Second(m) == IF cols - n1 = 1 THEN t1 ELSE Outs(t1, Piece(Separator, skip, k2(m)))
             Whole(m) == IF cols - n1 = 1 \/ cols - n1 - k2(m) - 1 = 0 THEN Second(m)
                         ELSE Outs(Second(m), Piece(text, 0, cols - n1 - k2(m) - 1))
  <2>1. OutScrolled(t, text, s, cols) = Whole(Len(Separator))
    BY Zenon DEF OutScrolled
  <2>2. Len(Separator) = 7
    BY SevenColumns
  <2> HIDE DEF Whole
  <2>3. OutScrolled(t, text, s, cols) = Whole(7)
    BY <2>1, <2>2, Zenon
  <2> QED BY <2>3, Zenon DEF Whole
<1>2. len \in Nat /\ cols \in Nat /\ cols >= 2 /\ cols = w - 2 /\ cols <= len /\ s < len + 7
  OBVIOUS
<1>3. /\ n1 \in Nat /\ n1 <= cols - 1 /\ (n1 > 0 => s + n1 <= len)
      /\ n1 # cols - 1 => s + n1 >= len
      /\ s >= len => n1 = 0
  BY <1>2 DEF Least
<1>4. skip \in 0..6 /\ Wrap(7 - skip) = 7 - skip /\ skip = IF s > len THEN s - len ELSE 0
  <2>1. skip \in 0..6 /\ 7 - skip < Unsigned /\ 7 - skip >= 0 /\ 7 - skip \in Int
    BY <1>2
  <2> QED BY <2>1, Wraps
<1>5. /\ n2 \in Nat /\ skip + n2 <= 7 /\ n2 <= cols - n1 - 1
      /\ n2 # cols - n1 - 1 => skip + n2 = 7
  <2>1. n2 = Least(7 - skip, cols - n1 - 1)
    BY <1>4, Zenon
  <2>2. skip \in Int /\ 7 - skip \in Nat /\ cols - n1 - 1 \in Nat
    BY <1>2, <1>3, <1>4
  <2> HIDE DEF n1, skip, n2, cols
  <2>3. n2 = IF 7 - skip < cols - n1 - 1 THEN 7 - skip ELSE cols - n1 - 1
    BY <2>1, Zenon DEF Least
  <2>4. CASE 7 - skip < cols - n1 - 1
    BY <2>2, <2>3, <2>4
  <2>5. CASE ~(7 - skip < cols - n1 - 1)
    BY <2>2, <2>3, <2>5
  <2> QED BY <2>4, <2>5
<1> HIDE DEF len, n1, skip, n2
<1>6. n3 \in Nat /\ n1 + n2 + n3 = cols - 1 /\ n3 <= len
  BY <1>2, <1>3, <1>5
<1> HIDE DEF n3
<1>7. a \in Seq(Glyph) /\ Len(a) = n1 /\ \A i \in 1..n1 : a[i] = text[s + i]
  BY <1>2, <1>3, PieceOf DEF len
<1>8. b \in Seq(Glyph) /\ Len(b) = n2 /\ \A i \in 1..n2 : b[i] = Separator[skip + i]
  <2>1. skip \in Nat /\ n2 \in Nat /\ Separator \in Seq(Glyph)
    BY <1>4, <1>5, SevenColumns
  <2>2. n2 > 0 => skip + n2 <= Len(Separator)
    <3>1. skip + n2 <= 7 /\ Len(Separator) = 7
      BY <1>5, SevenColumns
    <3> QED BY <3>1
  <2> QED BY <2>1, <2>2, PieceOf
<1>9. d \in Seq(Glyph) /\ Len(d) = n3 /\ \A i \in 1..n3 : d[i] = text[i]
  <2>1. d \in Seq(Glyph) /\ Len(d) = n3 /\ \A i \in 1..n3 : d[i] = text[0 + i]
    <3>1. 0 \in Nat /\ n3 \in Nat /\ (n3 > 0 => 0 + n3 <= Len(text))
      BY <1>2, <1>6 DEF len
    <3> QED BY <3>1, PieceOf
  <2> HIDE DEF d
  <2> QED BY <2>1
<1> HIDE DEF a, b, d
<1>10. /\ new \in Seq(Glyph) /\ Len(new) = cols - 1
       /\ \A i \in 1..cols - 1 :
            new[i] = IF s + i <= len THEN text[s + i]
                     ELSE IF s + i <= len + 7 THEN Separator[s + i - len]
                     ELSE text[s + i - (len + 7)]
  <2>1. w - 3 = cols - 1 /\ w - 3 \in Nat
    BY <1>2
  <2>2. ASSUME NEW i \in 1..cols - 1
        PROVE  /\ Endless(text, s + i - 1) \in Glyph
               /\ Endless(text, s + i - 1) = IF s + i <= len THEN text[s + i]
                                             ELSE IF s + i <= len + 7 THEN Separator[s + i - len]
                                             ELSE text[s + i - (len + 7)]
    <3> DEFINE p == s + i - 1
    <3>1. p \in Nat /\ p < 2 * len + 7
      BY <1>2
    <3>2. /\ Endless(text, p) \in Glyph
          /\ Endless(text, p) = IF p < len THEN text[p + 1]
                                ELSE IF p < len + 7 THEN Separator[p - len + 1]
                                ELSE text[p - (len + 7) + 1]
      <4> HIDE DEF p
      <4> QED BY <3>1, Around DEF len
    <3>3. /\ p + 1 = s + i /\ p - len + 1 = s + i - len /\ p - (len + 7) + 1 = s + i - (len + 7)
          /\ (p < len <=> s + i <= len) /\ (p < len + 7 <=> s + i <= len + 7)
      BY <1>2
    <3> HIDE DEF p
    <3>4. Endless(text, p) = IF s + i <= len THEN text[s + i]
                             ELSE IF s + i <= len + 7 THEN Separator[s + i - len]
                             ELSE text[s + i - (len + 7)]
      BY <3>2, <3>3
    <3> QED BY <3>2, <3>4 DEF p
  <2>3. new \in Seq(Glyph) /\ Len(new) = w - 3 /\ \A i \in 1..w - 3 : new[i] = Endless(text, s + i - 1)
    <3>1. \A i \in 1..w - 3 : Endless(text, s + i - 1) \in Glyph
      BY <2>1, <2>2
    <3> QED BY <2>1, <3>1
  <2> HIDE DEF new
  <2>4. ASSUME NEW i \in 1..cols - 1 PROVE new[i] = Endless(text, s + i - 1)
    BY <2>1, <2>3
  <2>5. Len(new) = cols - 1
    BY <2>1, <2>3
  <2> QED BY <2>2, <2>3, <2>4, <2>5
<1>0. w > 0 /\ w \in Nat /\ Unsigned \in Nat /\ h <= w /\ 2 * w <= Unsigned /\ Len(begin) = 2 /\ Painted(t, begin, h)
  OBVIOUS
<1> HIDE DEF new, cols
<1>11. \A i \in 1..n1 : new[i] = a[i]
  <2> SUFFICES ASSUME NEW i \in 1..n1 PROVE new[i] = a[i]
    OBVIOUS
  <2>1. i \in 1..cols - 1 /\ s + i <= len
    BY <1>2, <1>3
  <2> QED BY <1>7, <1>10, <2>1
<1>12. \A i \in n1 + 1..n1 + n2 : new[i] = b[i - n1]
  <2> SUFFICES ASSUME NEW i \in n1 + 1..n1 + n2 PROVE new[i] = b[i - n1]
    OBVIOUS
  <2>1. /\ i \in 1..cols - 1 /\ ~(s + i <= len) /\ s + i <= len + 7
        /\ i - n1 \in 1..n2 /\ skip + (i - n1) = s + i - len
    BY <1>2, <1>3, <1>4, <1>5
  <2> QED BY <1>8, <1>10, <2>1
<1>13. \A i \in n1 + n2 + 1..cols - 1 : new[i] = d[i - (n1 + n2)]
  <2> SUFFICES ASSUME NEW i \in n1 + n2 + 1..cols - 1 PROVE new[i] = d[i - (n1 + n2)]
    OBVIOUS
  <2>1. /\ i \in 1..cols - 1 /\ ~(s + i <= len) /\ ~(s + i <= len + 7)
        /\ i - (n1 + n2) \in 1..n3 /\ i - (n1 + n2) = s + i - (len + 7)
    BY <1>2, <1>3, <1>4, <1>5, <1>6
  <2> QED BY <1>9, <1>10, <2>1
<1>14. /\ begin \o a \in Seq(Glyph) /\ Len(begin \o a) = 2 + n1 /\ Painted(t1, begin \o a, h)
       /\ \A i \in 1..2 + n1 : (begin \o a)[i] = IF i <= 2 THEN begin[i] ELSE a[i - 2]
  <2>1. /\ begin \o a \in Seq(Glyph) /\ Len(begin \o a) = Len(begin) + Len(a)
        /\ \A i \in 1..Len(begin) + Len(a) : (begin \o a)[i] = IF i <= Len(begin) THEN begin[i] ELSE a[i - Len(begin)]
    BY <1>7, ConcatProperties
  <2>2. Len(begin) + Len(a) <= w
    BY <1>2, <1>3, <1>7
  <2>3. Painted(t1, begin \o a, h)
    BY <1>0, <1>7, <2>2, OutsAdds
  <2> QED BY <1>7, <2>1, <2>3
<1> HIDE DEF t1
<1> DEFINE whole == begin \o new
<1>15. /\ whole \in Seq(Glyph) /\ Len(whole) = 2 + (cols - 1)
       /\ \A i \in 1..2 + (cols - 1) : whole[i] = IF i <= 2 THEN begin[i] ELSE new[i - 2]
  <2>1. /\ whole \in Seq(Glyph) /\ Len(whole) = Len(begin) + Len(new)
        /\ \A i \in 1..Len(begin) + Len(new) : whole[i] = IF i <= Len(begin) THEN begin[i] ELSE new[i - Len(begin)]
    BY <1>10, ConcatProperties
  <2>2. Len(begin) = 2 /\ Len(new) = cols - 1
    BY <1>10
  <2> HIDE DEF whole
  <2> QED BY <2>1, <2>2, Zenon
<1> HIDE DEF whole
<1>16. CASE cols - n1 = 1
  <2>1. n1 = cols - 1
    BY <1>2, <1>3, <1>16
  <2>2. ASSUME NEW i \in 1..2 + n1 PROVE (begin \o a)[i] = whole[i]
    <3>1. ~(i <= 2) => i - 2 \in 1..n1
      BY <1>3
    <3> QED BY <1>11, <1>14, <1>15, <2>1, <3>1
  <2>3. begin \o a = whole
    BY <1>14, <1>15, <2>1, <2>2, SeqEqual
  <2>4. OutScrolled(t, text, s, cols) = t1
    BY <1>1, <1>16
  <2> QED BY <1>14, <2>3, <2>4 DEF whole, new, cols
<1>17. CASE cols - n1 # 1
  <2> DEFINE ab == (begin \o a) \o b
  <2>1. /\ ab \in Seq(Glyph) /\ Len(ab) = 2 + n1 + n2 /\ Painted(t2, ab, h)
        /\ \A i \in 1..2 + n1 + n2 : ab[i] = IF i <= 2 + n1 THEN (begin \o a)[i] ELSE b[i - (2 + n1)]
    <3>1. /\ ab \in Seq(Glyph) /\ Len(ab) = Len(begin \o a) + Len(b)
          /\ \A i \in 1..Len(begin \o a) + Len(b) :
               ab[i] = IF i <= Len(begin \o a) THEN (begin \o a)[i] ELSE b[i - Len(begin \o a)]
      BY <1>8, <1>14, ConcatProperties
    <3>2. Len(begin \o a) = 2 + n1 /\ Len(b) = n2
      BY <1>8, <1>14
    <3>3. Len(begin \o a) + Len(b) <= w
      BY <1>2, <1>3, <1>5, <3>2
    <3>4. Painted(Outs(t1, b), ab, h)
      BY <1>0, <1>8, <1>14, <3>3, OutsAdds
    <3>5. t2 = Outs(t1, b)
      BY <1>17
    <3> HIDE DEF ab, t2
    <3> QED BY <3>1, <3>2, <3>4, <3>5, Zenon
  <2> HIDE DEF ab, t2
  <2>2. \A i \in 1..2 + n1 + n2 : ab[i] = whole[i]
    <3> SUFFICES ASSUME NEW i \in 1..2 + n1 + n2 PROVE ab[i] = whole[i]
      OBVIOUS
    <3>1. i \in 1..2 + (cols - 1)
      BY <1>2, <1>3, <1>5
    <3>2. CASE i <= 2
      <4>1. i \in 1..2 + n1 /\ i <= 2 + n1
        BY <1>3, <3>2
      <4>2. ab[i] = (begin \o a)[i]
        BY <2>1, <4>1
      <4>3. (begin \o a)[i] = begin[i]
        BY <1>14, <3>2, <4>1
      <4> QED BY <1>15, <3>1, <3>2, <4>2, <4>3
    <3>3. CASE i > 2 /\ i <= 2 + n1
      <4>1. i \in 1..2 + n1 /\ i - 2 \in 1..n1 /\ ~(i <= 2)
        BY <1>3, <3>3
      <4>2. ab[i] = (begin \o a)[i]
        BY <2>1, <3>3
      <4> QED BY <4>2, <1>11, <1>14, <1>15, <2>1, <3>1, <3>3, <4>1
    <3>4. CASE i > 2 + n1
      <4>1. i - 2 \in n1 + 1..n1 + n2 /\ ~(i <= 2) /\ ~(i <= 2 + n1) /\ i - 2 - n1 = i - (2 + n1)
        BY <1>3, <1>5, <3>4
      <4> QED BY <1>12, <1>15, <2>1, <3>1, <4>1
    <3> QED BY <1>3, <3>2, <3>3, <3>4
  <2>3. CASE n3 = 0
    <3>1. 2 + n1 + n2 = 2 + (cols - 1)
      BY <1>2, <1>3, <1>5, <1>6, <2>3
    <3>2. ab = whole
      BY <1>15, <2>1, <2>2, <3>1, SeqEqual
    <3>3. OutScrolled(t, text, s, cols) = t2
      BY <1>1, <2>3
    <3> QED BY <2>1, <3>2, <3>3 DEF whole, new, cols
  <2>4. CASE n3 # 0
    <3> DEFINE abd == ab \o d
    <3>1. /\ abd \in Seq(Glyph) /\ Len(abd) = (2 + n1 + n2) + n3
          /\ \A i \in 1..(2 + n1 + n2) + n3 : abd[i] = IF i <= 2 + n1 + n2 THEN ab[i] ELSE d[i - (2 + n1 + n2)]
      <4>1. /\ abd \in Seq(Glyph) /\ Len(abd) = Len(ab) + Len(d)
            /\ \A i \in 1..Len(ab) + Len(d) : abd[i] = IF i <= Len(ab) THEN ab[i] ELSE d[i - Len(ab)]
        BY <1>9, <2>1, ConcatProperties
      <4>2. Len(ab) = 2 + n1 + n2 /\ Len(d) = n3
        BY <1>9, <2>1
      <4> HIDE DEF abd
      <4> QED BY <4>1, <4>2, Zenon
    <3>2. Painted(Outs(t2, d), abd, h)
      <4>1. Len(ab) + Len(d) <= w
        BY <1>2, <1>3, <1>5, <1>6, <1>9, <2>1
      <4> QED BY <1>0, <1>9, <2>1, <4>1, OutsAdds
    <3> HIDE DEF abd
    <3>3. (2 + n1 + n2) + n3 = 2 + (cols - 1)
      BY <1>2, <1>3, <1>5, <1>6
    <3>4. \A i \in 1..(2 + n1 + n2) + n3 : abd[i] = whole[i]
      <4> SUFFICES ASSUME NEW i \in 1..(2 + n1 + n2) + n3 PROVE abd[i] = whole[i]
        OBVIOUS
      <4>1. CASE i <= 2 + n1 + n2
        BY <1>3, <1>5, <2>2, <3>1, <4>1
      <4>2. CASE i > 2 + n1 + n2
        <5>1. /\ i \in 1..2 + (cols - 1) /\ ~(i <= 2) /\ ~(i <= 2 + n1 + n2)
              /\ i - 2 \in n1 + n2 + 1..cols - 1 /\ i - 2 - (n1 + n2) = i - (2 + n1 + n2)
          BY <1>2, <1>3, <1>5, <1>6, <3>3, <4>2
        <5> QED BY <1>13, <1>15, <3>1, <5>1
      <4> QED BY <1>3, <1>5, <4>1, <4>2
    <3>5. abd = whole
      BY <1>15, <3>1, <3>3, <3>4, SeqEqual
    <3>6. OutScrolled(t, text, s, cols) = Outs(t2, d)
      BY <1>1, <1>17, <2>4
    <3> QED BY <3>2, <3>5, <3>6 DEF whole, new, cols
  <2> QED BY <2>3, <2>4
<1> QED BY <1>16, <1>17

(* What D.cur and D.old may be, and that the highlight has been computed   *)
(* from the rest.                                                          *)
Shown == [error : BOOLEAN, song : Songs \cup {{}}, state : {"stop", "play", "pause"}, pos : Nat, len : Lengths \cup {0},
          hilight : Nat, scroll : Nat, columns : Widths]

Placed(c) == c.pos <= c.len /\ (~c.error => c.hilight = HilightPos(c))

(* The fields one by one.                                                  *)
LEMMA ShownTypes ==
  ASSUME NEW c \in Shown
  PROVE  /\ c.error \in BOOLEAN /\ c.song \in Songs \cup {{}} /\ c.state \in {"stop", "play", "pause"}
         /\ c.pos \in Nat /\ c.len \in Nat /\ c.hilight \in Nat /\ c.scroll \in Nat
         /\ c.columns \in Widths /\ c.columns \in Nat /\ c.columns > 0
         /\ Unsigned \in Nat /\ 2 * c.columns <= Unsigned
<1>1. /\ c.error \in BOOLEAN /\ c.song \in Songs \cup {{}} /\ c.state \in {"stop", "play", "pause"}
      /\ c.pos \in Nat /\ c.len \in Lengths \cup {0} /\ c.hilight \in Nat /\ c.scroll \in Nat
      /\ c.columns \in Widths
  BY DEF Shown
<1>2. /\ Widths \subseteq Nat \ {0} /\ Lengths \subseteq Nat
      /\ Unsigned \in Nat /\ \A columns \in Widths : 2 * columns <= Unsigned
  BY DisplayAssumption
<1>3. c.len \in Nat
  <2>1. c.len \in Lengths \/ c.len = 0
    BY <1>1, Zenon
  <2>2. Lengths \subseteq Nat
    BY <1>2
  <2>3. CASE c.len \in Lengths
    BY <2>2, <2>3, Zenon
  <2>4. CASE c.len = 0
    BY <2>4
  <2> QED BY <2>1, <2>3, <2>4
<1>4. c.columns \in Nat /\ c.columns > 0 /\ 2 * c.columns <= Unsigned
  <2>1. c.columns \in Widths
    BY <1>1, Zenon
  <2>2. c.columns \in Nat \ {0} /\ 2 * c.columns <= Unsigned
    BY <1>2, <2>1, Zenon
  <2> QED BY <2>2
<1> QED BY <1>1, <1>2, <1>3, <1>4, Zenon

(* The first two columns as a sequence.                                    *)
LEMMA FirstCells ==
  ASSUME NEW a \in Glyph, NEW b \in Glyph
  PROVE  /\ <<>> \in Seq(Glyph) /\ Len(<<>>) = 0
         /\ <<a>> \in Seq(Glyph) /\ Len(<<a>>) = 1 /\ <<>> \o <<a>> = <<a>>
         /\ <<a, b>> \in Seq(Glyph) /\ Len(<<a, b>>) = 2 /\ <<a>> \o <<b>> = <<a, b>>
         /\ SubSeq(<<a, b>>, 1, 1) = <<a>> /\ SubSeq(<<a, b>>, 1, 2) = <<a, b>>
<1>1. <<>> \in Seq(Glyph) /\ Len(<<>>) = 0 /\ <<a>> \in Seq(Glyph) /\ Len(<<a>>) = 1 /\ <<>> \o <<a>> = <<a>>
  OBVIOUS
<1>2. <<a, b>> \in Seq(Glyph) /\ Len(<<a, b>>) = 2
  OBVIOUS
<1> DEFINE both == <<a, b>>
           one == <<a>>
           other == <<b>>
<1>6. /\ both \in Seq(Glyph) /\ Len(both) = 2 /\ both[1] = a /\ both[2] = b
      /\ one \in Seq(Glyph) /\ Len(one) = 1 /\ one[1] = a
      /\ other \in Seq(Glyph) /\ Len(other) = 1 /\ other[1] = b
  OBVIOUS
<1> HIDE DEF both, one, other
<1>3. one \o other = both
  <2>1. /\ one \o other \in Seq(Glyph) /\ Len(one \o other) = Len(one) + Len(other)
        /\ \A i \in 1..Len(one) + Len(other) :
             (one \o other)[i] = IF i <= Len(one) THEN one[i] ELSE other[i - Len(one)]
    BY <1>6, ConcatProperties
  <2> DEFINE joined == one \o other
  <2> HIDE DEF joined
  <2>2. joined \in Seq(Glyph) /\ Len(joined) = 2 /\ joined[1] = a /\ joined[2] = b
    BY <1>6, <2>1 DEF joined
  <2>3. \A i \in 1..2 : joined[i] = both[i]
    BY <1>6, <2>2
  <2>4. joined = both
    BY <1>6, <2>2, <2>3, SeqEqual
  <2> QED BY <2>4 DEF joined
<1>4. SubSeq(both, 1, 1) = one
  <2> DEFINE part == SubSeq(both, 1, 1)
  <2>1. /\ part \in Seq(Glyph) /\ Len(part) = 1 /\ part[1] = both[1]
    BY <1>6, SubSeqProperties
  <2> HIDE DEF part
  <2>2. \A i \in 1..1 : part[i] = one[i]
    BY <1>6, <2>1
  <2>3. part = one
    BY <1>6, <2>1, <2>2, SeqEqual
  <2> QED BY <2>3 DEF part
<1>5. SubSeq(both, 1, 2) = both
  <2> DEFINE part == SubSeq(both, 1, 2)
  <2>1. /\ part \in Seq(Glyph) /\ Len(part) = 2 /\ \A i \in 1..2 : part[i] = both[i]
    BY <1>6, SubSeqProperties
  <2> HIDE DEF part
  <2>3. part = both
    BY <1>6, <2>1, SeqEqual
  <2> QED BY <2>3 DEF part
<1> QED BY <1>1, <1>2, <1>3, <1>4, <1>5 DEF both, one, other

(* A row of equal characters.                                              *)
LEMMA Repeated ==
  ASSUME NEW x \in Glyph, NEW n \in Nat
  PROVE  /\ [i \in 1..n |-> x] \in Seq(Glyph) /\ Len([i \in 1..n |-> x]) = n
         /\ \A j \in 1..n : [i \in 1..n |-> x][j] = x
OBVIOUS

(* calculateHilightPos (mpd-show.c:511) stays within the row.              *)
LEMMA HilightFits ==
  ASSUME NEW c \in Shown, c.pos <= c.len, ~c.error
  PROVE  HilightPos(c) \in Nat /\ HilightPos(c) <= c.columns
<1>1. c.pos \in Nat /\ c.len \in Nat /\ c.columns \in Nat
  BY ShownTypes
<1>2. CASE c.len = 0
  BY <1>1, <1>2 DEF HilightPos
<1>3. CASE c.len # 0
  <2> DEFINE x == Wrap(c.pos * c.columns)
  <2>1. x \in Nat /\ x <= c.len * c.columns
    <3>1. Unsigned \in Nat /\ Unsigned > 0
      BY ShownTypes
    <3> QED BY <1>1, <3>1, WrapsDown
  <2> HIDE DEF x
  <2>2. x \div c.len \in Nat /\ x \div c.len <= c.columns
    BY <1>1, <1>3, <2>1, DivBound
  <2> QED BY <1>3, <2>2 DEF HilightPos, x
<1> QED BY <1>2, <1>3

(* The window on the line fits into the columns left for it.               *)
LEMMA WindowIs ==
  ASSUME NEW c \in Shown, NEW text \in Seq(Glyph), InRange(c, text), c.columns > 3
  PROVE  /\ Window(c, text) \in Seq(Glyph) /\ Len(Window(c, text)) <= c.columns - 2
         /\ Len(Window(c, text)) = 0 <=> text = <<>>
         /\ ~Fits(text, c.columns - 2) =>
              /\ Len(Window(c, text)) = c.columns - 3
              /\ \A i \in 1..c.columns - 3 : Window(c, text)[i] = Endless(text, c.scroll + i - 1)
<1> DEFINE w == c.columns
<1>1. w \in Nat /\ w > 3 /\ Len(text) \in Nat /\ c.scroll \in Nat
  BY ShownTypes
<1>2. CASE Fits(text, w - 2)
  <2>1. Window(c, text) = text /\ Len(text) < w - 2
    BY <1>2 DEF Window, Fits
  <2>2. Len(text) = 0 <=> text = <<>>
    BY EmptySeq
  <2> QED BY <1>1, <1>2, <2>1, <2>2
<1>3. CASE ~Fits(text, w - 2)
  <2>1. /\ Window(c, text) = [i \in 1..w - 3 |-> Endless(text, c.scroll + i - 1)]
        /\ w - 2 <= Len(text) /\ c.scroll < Len(text) + 7
    <3>1. w - 2 <= Len(text)
      BY <1>1, <1>3 DEF Fits
    <3>2. c.scroll < Len(text) + Len(Separator)
      BY <1>1, <1>3 DEF InRange, Scrolls
    <3> QED BY <1>1, <1>3, <3>1, <3>2, SevenColumns DEF Window
  <2>2. \A i \in 1..w - 3 : Endless(text, c.scroll + i - 1) \in Glyph
    <3> SUFFICES ASSUME NEW i \in 1..w - 3 PROVE Endless(text, c.scroll + i - 1) \in Glyph
      OBVIOUS
    <3> DEFINE p == c.scroll + i - 1
    <3>1. p \in Nat /\ p < 2 * Len(text) + 7
      BY <1>1, <2>1
    <3> HIDE DEF p
    <3>2. Endless(text, p) \in Glyph
      BY <3>1, Around
    <3> QED BY <3>2 DEF p
  <2>3. w - 3 \in Nat /\ w - 3 > 0
    BY <1>1
  <2>4. Window(c, text) \in Seq(Glyph) /\ Len(Window(c, text)) = w - 3
    BY <2>1, <2>2, <2>3
  <2>5. text # <<>>
    BY <1>1, <2>1
  <2>6. \A i \in 1..w - 3 : Window(c, text)[i] = Endless(text, c.scroll + i - 1)
    BY <2>1
  <2> QED BY <1>1, <1>3, <2>3, <2>4, <2>5, <2>6
<1> QED BY <1>2, <1>3

(* output (mpd-show.c:526) draws the reference row for whatever it looks   *)
(* at: with outs counting down an unsigned over pieces of any length, in   *)
(* any width, at any scroll position within the line and its separator.    *)
THEOREM OutputDraws ==
  ASSUME NEW c \in Shown, Placed(c), NEW text \in Seq(Glyph), InRange(c, text)
  PROVE  Output(c, text) = Drawn(c, text)
<1> DEFINE w == c.columns
           h == IF c.error THEN 0 ELSE c.hilight
           sym == Symbol(c)
           start == [cells |-> <<>>, lit |-> h # 0, left |-> h]
           t0 == Outs(start, <<sym>>)
           t1 == Outs(t0, <<" ">>)
           begin == <<sym, " ">>
           win == Window(c, text)
           t2 == IF Fits(text, w - 2) THEN Outs(t1, text) ELSE OutScrolled(t1, text, c.scroll, w - 2)
<1>1. /\ w \in Nat /\ w > 0 /\ 2 * w <= Unsigned /\ Unsigned \in Nat
      /\ c.scroll \in Nat /\ c.error \in BOOLEAN /\ c.hilight \in Nat
  BY ShownTypes
<1>2. h \in Nat /\ h <= w /\ h = IF c.error THEN 0 ELSE HilightPos(c)
  BY <1>1, HilightFits DEF Placed
<1>3. sym \in Glyph /\ " " \in Glyph
  BY DEF Symbol, Shown, Glyph
<1>4. Output(c, text) = CASE w = 1 -> t0.cells [] w \in {2, 3} -> t1.cells [] OTHER -> Pad(t2, w - 2)
  BY Zenon DEF Output
<1> HIDE DEF h, sym, t2, w, win
<1>5. Painted(start, <<>>, h)
  <2>1. Len(<<>>) = 0 /\ Lit(<<>>, h) = <<>>
    BY DEF Lit
  <2>2. start.cells = <<>> /\ start.lit = (h # 0) /\ start.left = h
    OBVIOUS
  <2>3. (h # 0) \in BOOLEAN /\ ((h # 0) <=> 0 < h) /\ (0 <= h) /\ h - 0 = h
    BY <1>2
  <2> HIDE DEF start
  <2> QED BY <2>1, <2>2, <2>3 DEF Painted
<1> HIDE DEF start
<1>6. Painted(t0, <<sym>>, h)
  <2>1. /\ <<>> \in Seq(Glyph) /\ <<sym>> \in Seq(Glyph) /\ Len(<<>>) + Len(<<sym>>) <= w
        /\ <<>> \o <<sym>> = <<sym>>
    <3>1. /\ <<>> \in Seq(Glyph) /\ <<sym>> \in Seq(Glyph) /\ Len(<<>>) = 0 /\ Len(<<sym>>) = 1
          /\ <<>> \o <<sym>> = <<sym>>
      BY <1>3, FirstCells
    <3>2. Len(<<>>) + Len(<<sym>>) = 1
      BY <3>1
    <3> QED BY <1>1, <3>1, <3>2
  <2>2. Painted(Outs(start, <<sym>>), <<>> \o <<sym>>, h)
    BY <1>1, <1>2, <1>5, <2>1, OutsAdds
  <2> QED BY <2>1, <2>2
<1> HIDE DEF t0
<1>7. ASSUME w > 1 PROVE Painted(t1, begin, h)
  <2>1. /\ <<sym>> \in Seq(Glyph) /\ <<" ">> \in Seq(Glyph) /\ Len(<<sym>>) + Len(<<" ">>) <= w
        /\ <<sym>> \o <<" ">> = begin
    <3>1. /\ <<sym>> \in Seq(Glyph) /\ Len(<<sym>>) = 1 /\ <<" ">> \in Seq(Glyph) /\ Len(<<" ">>) = 1
          /\ <<sym>> \o <<" ">> = begin
      BY <1>3, FirstCells
    <3> DEFINE one == <<sym>>
               other == <<" ">>
    <3> HIDE DEF one, other, begin
    <3>2. /\ one \in Seq(Glyph) /\ Len(one) = 1 /\ other \in Seq(Glyph) /\ Len(other) = 1
          /\ one \o other = begin
      BY <3>1, Zenon DEF one, other
    <3>3. Len(one) + Len(other) <= w
      BY <1>1, <1>7, <3>2
    <3> QED BY <3>2, <3>3, Zenon DEF one, other
  <2>2. Painted(Outs(t0, <<" ">>), <<sym>> \o <<" ">>, h)
    BY <1>1, <1>2, <1>6, <2>1, OutsAdds
  <2> QED BY <2>1, <2>2
<1> HIDE DEF t1
<1>8. begin \in Seq(Glyph) /\ Len(begin) = 2 /\ SubSeq(begin, 1, 1) = <<sym>> /\ SubSeq(begin, 1, 2) = begin
  BY <1>3, FirstCells
<1> DEFINE chars == IF w < 4 THEN SubSeq(begin, 1, Least(2, w)) ELSE begin \o win
           size == IF w < 4 \/ h <= Len(chars) \/ Unfilled(c, text) THEN Len(chars) ELSE h
<1>9. Drawn(c, text) = [i \in 1..size |-> [ch |-> IF i <= Len(chars) THEN chars[i] ELSE " ", lit |-> i <= h]]
  BY <1>2, Zenon DEF Drawn, sym, w, win
<1>10. CASE w = 1
  <2>1. chars = <<sym>>
    <3>1. Least(2, w) = 1
      BY <1>10 DEF Least
    <3>2. chars = SubSeq(begin, 1, Least(2, w))
      BY <1>10
    <3> HIDE DEF begin, chars
    <3> QED BY <1>8, <3>1, <3>2, Zenon
  <2>2. size = 1 /\ Len(<<sym>>) = 1
    <3>1. Len(<<sym>>) = 1
      BY <1>3, FirstCells
    <3>2. size = Len(chars)
      BY <1>10
    <3> HIDE DEF chars, size
    <3> QED BY <2>1, <3>1, <3>2
  <2>3. t0.cells = [i \in 1..1 |-> [ch |-> <<sym>>[i], lit |-> i <= h]]
    BY <1>6, <2>2 DEF Painted, Lit
  <2> HIDE DEF chars, size
  <2>4. Drawn(c, text) = [i \in 1..1 |-> [ch |-> IF i <= 1 THEN <<sym>>[i] ELSE " ", lit |-> i <= h]]
    BY <1>9, <2>1, <2>2, Zenon
  <2>5. Output(c, text) = t0.cells
    BY <1>4, <1>10
  <2> QED BY <2>3, <2>4, <2>5
<1>11. CASE w \in {2, 3}
  <2>1. chars = begin
    <3>1. Least(2, w) = 2
      BY <1>11 DEF Least
    <3>0. w < 4
      BY <1>11
    <3>2. chars = SubSeq(begin, 1, Least(2, w))
      BY <3>0, Zenon
    <3> HIDE DEF begin, chars
    <3> QED BY <1>8, <3>1, <3>2, Zenon
  <2>2. size = 2 /\ w > 1
    <3>0. w < 4 /\ w > 1
      BY <1>11
    <3>1. size = Len(chars) /\ w > 1
      BY <3>0, Zenon
    <3> HIDE DEF chars, size, begin
    <3> QED BY <1>8, <2>1, <3>1
  <2>3. t1.cells = [i \in 1..2 |-> [ch |-> begin[i], lit |-> i <= h]]
    BY <1>7, <1>8, <2>2 DEF Painted, Lit
  <2> HIDE DEF chars, size, begin
  <2>4. Drawn(c, text) = [i \in 1..2 |-> [ch |-> IF i <= 2 THEN begin[i] ELSE " ", lit |-> i <= h]]
    BY <1>8, <1>9, <2>1, <2>2, Zenon
  <2>5. Output(c, text) = t1.cells
    BY <1>4, <1>11
  <2> QED BY <2>3, <2>4, <2>5
<1>12. CASE w > 3
  <2>0. w > 1 /\ ~(w < 4) /\ w # 1 /\ ~(w \in {2, 3})
    BY <1>1, <1>12
  <2>1. /\ win \in Seq(Glyph) /\ Len(win) <= w - 2 /\ (Len(win) = 0 <=> text = <<>>)
    BY <1>12, WindowIs DEF w, win
  <2> DEFINE all == begin \o win
             k == Len(all)
  <2>2. all \in Seq(Glyph) /\ Len(all) = 2 + Len(win) /\ chars = all
    <3>1. all \in Seq(Glyph) /\ Len(all) = Len(begin) + Len(win)
      BY <1>8, <2>1, ConcatProperties
    <3> QED BY <1>8, <2>0, <3>1
  <2>3. k \in Nat /\ k >= 2 /\ k <= w /\ (k = 2 <=> text = <<>>)
    <3> HIDE DEF begin, chars, size, all
    <3>1. Len(win) \in Nat /\ k = 2 + Len(win)
      BY <2>1, <2>2
    <3> HIDE DEF k
    <3> QED BY <1>1, <1>12, <2>1, <3>1
  <2> HIDE DEF begin
  <2>4. Painted(t2, all, h)
    <3>1. CASE Fits(text, w - 2)
      <4>1. win = text /\ t2 = Outs(t1, text)
        BY <3>1 DEF win, t2, Window, w
      <4>2. Len(begin) + Len(text) <= w
        BY <1>1, <1>8, <2>1, <4>1
      <4>3. Painted(t1, begin, h)
        BY <1>7, <2>0
      <4>4. Painted(Outs(t1, text), begin \o text, h)
        BY <1>1, <1>2, <1>8, <4>2, <4>3, OutsAdds
      <4> QED BY <4>1, <4>4
    <3>2. CASE ~Fits(text, w - 2)
      <4>1. win = [i \in 1..w - 3 |-> Endless(text, c.scroll + i - 1)] /\ t2 = OutScrolled(t1, text, c.scroll, w - 2)
        BY <3>2 DEF win, t2, Window, w
      <4>2. w - 2 <= Len(text) /\ c.scroll < Len(text) + 7
        <5>1. Len(text) \in Nat
          OBVIOUS
        <5>2. c.scroll < Len(text) + Len(Separator)
          BY <1>12, <3>2 DEF InRange, Scrolls, w
        <5> QED BY <1>1, <3>2, <5>1, <5>2, SevenColumns DEF Fits
      <4>3. Painted(t1, begin, h)
        BY <1>7, <2>0
      <4>4. Painted(OutScrolled(t1, text, c.scroll, w - 2), begin \o [i \in 1..w - 3 |-> Endless(text, c.scroll + i - 1)], h)
        BY <1>1, <1>2, <1>8, <1>12, <4>2, <4>3, ScrollDraws
      <4> QED BY <4>1, <4>4
    <3> QED BY <3>1, <3>2
  <2>5. Output(c, text) = Pad(t2, w - 2)
    BY <1>4, <2>0
  <2>6. /\ t2.cells = Lit(all, h) /\ t2.lit \in BOOLEAN /\ (t2.lit <=> k < h)
        /\ t2.left = IF k <= h THEN h - k ELSE Unsigned - (k - h)
    BY <2>4, Zenon DEF Painted
  <2>7. Unfilled(c, text) => k = 2 /\ h \in {0, w}
    BY <1>2, <2>3 DEF Unfilled, w
  <2>8. k = 2 /\ h = w => Unfilled(c, text)
    BY <1>1, <1>2, <2>3 DEF Unfilled, w
  <2>9. size = IF h <= k \/ (k = 2 /\ h = w) THEN k ELSE h
    <3>1. size = IF h <= k \/ Unfilled(c, text) THEN k ELSE h
      BY <2>0, <2>2
    <3>2. h = 0 => h <= k
      BY <2>3
    <3> HIDE DEF size, k
    <3> QED BY <2>7, <2>8, <3>1, <3>2
  <2>10. Lit(all, h) \in Seq(Cell) /\ Len(Lit(all, h)) = k /\ \A i \in 1..k : Lit(all, h)[i] = [ch |-> all[i], lit |-> i <= h]
    BY <1>2, <2>2, LitCells
  <2>11. Lit(all, h) = [i \in 1..k |-> [ch |-> all[i], lit |-> i <= h]]
    BY DEF Lit
  <2>12. Drawn(c, text) = [i \in 1..size |-> [ch |-> IF i <= k THEN all[i] ELSE " ", lit |-> i <= h]]
    <3> HIDE DEF chars
    <3>1. chars = all
      BY <2>2
    <3> HIDE DEF all, size
    <3> QED BY <1>9, <3>1, Zenon
  <2> HIDE DEF all, k, chars, size
  <2>13. CASE h <= k \/ (k = 2 /\ h = w)
    <3>1. ~(t2.left # 0 /\ t2.left < w - 2)
      <4>1. CASE k < h
        BY <1>1, <1>2, <2>3, <2>6, <2>13, <4>1
      <4>2. CASE k = h
        BY <2>3, <2>6, <4>2
      <4>3. CASE k > h
        <5>1. t2.left = Unsigned - (k - h)
          BY <1>2, <2>3, <2>6, <4>3
        <5> QED BY <1>1, <1>2, <2>3, <4>3, <5>1
      <4> QED BY <1>2, <2>3, <4>1, <4>2, <4>3
    <3>2. Output(c, text) = Lit(all, h)
      BY <2>5, <2>6, <3>1 DEF Pad
    <3>3. size = k
      BY <2>9, <2>13
    <3>4. Drawn(c, text) = [i \in 1..k |-> [ch |-> all[i], lit |-> i <= h]]
      BY <2>12, <3>3
    <3> QED BY <2>11, <3>2, <3>4
  <2>14. CASE ~(h <= k \/ (k = 2 /\ h = w))
    <3>1. t2.left = h - k /\ t2.left # 0 /\ t2.left < w - 2 /\ t2.left \in Nat
      BY <1>1, <1>2, <2>3, <2>6, <2>14
    <3> DEFINE blanks == [i \in 1..t2.left |-> " "]
    <3>2. Output(c, text) = Lit(all, h) \o Cells(blanks, t2.lit)
      BY <2>5, <2>6, <3>1 DEF Pad
    <3>3. t2.lit = TRUE
      BY <1>2, <2>3, <2>6, <2>14
    <3>4. blanks \in Seq(Glyph) /\ Len(blanks) = h - k /\ \A i \in 1..h - k : blanks[i] = " "
      <4> DEFINE n == h - k
      <4>1. n \in Nat /\ t2.left = n
        BY <3>1
      <4> HIDE DEF n
      <4>2. blanks = [i \in 1..n |-> " "]
        BY <4>1
      <4> HIDE DEF blanks
      <4>3. /\ [i \in 1..n |-> " "] \in Seq(Glyph) /\ Len([i \in 1..n |-> " "]) = n
            /\ \A j \in 1..n : [i \in 1..n |-> " "][j] = " "
        BY <1>3, <4>1, Repeated, Zenon
      <4> QED BY <4>2, <4>3, Zenon DEF n
    <3> HIDE DEF blanks
    <3>5. /\ Cells(blanks, TRUE) \in Seq(Cell) /\ Len(Cells(blanks, TRUE)) = h - k
          /\ \A i \in 1..h - k : Cells(blanks, TRUE)[i] = [ch |-> " ", lit |-> TRUE]
      <4>1. /\ Cells(blanks, TRUE) \in Seq(Cell) /\ Len(Cells(blanks, TRUE)) = Len(blanks)
            /\ \A i \in 1..Len(blanks) : Cells(blanks, TRUE)[i] = [ch |-> blanks[i], lit |-> TRUE]
        BY <3>4, CellsOf
      <4> QED BY <3>4, <4>1
    <3> DEFINE A == Lit(all, h)
               B == Cells(blanks, TRUE)
    <3>6. /\ A \o B \in Seq(Cell) /\ Len(A \o B) = k + (h - k)
          /\ \A i \in 1..k + (h - k) : (A \o B)[i] = IF i <= k THEN A[i] ELSE B[i - k]
      <4>1. A \in Seq(Cell) /\ B \in Seq(Cell) /\ Len(A) = k /\ Len(B) = h - k
        BY <2>10, <3>5
      <4> HIDE DEF A, B
      <4>2. /\ A \o B \in Seq(Cell) /\ Len(A \o B) = Len(A) + Len(B)
            /\ \A i \in 1..Len(A) + Len(B) : (A \o B)[i] = IF i <= Len(A) THEN A[i] ELSE B[i - Len(A)]
        BY <4>1, ConcatProperties
      <4> QED BY <4>1, <4>2, Zenon
    <3>7. size = h /\ k + (h - k) = h
      BY <1>2, <2>3, <2>9, <2>14
    <3> DEFINE D == [i \in 1..h |-> [ch |-> IF i <= k THEN all[i] ELSE " ", lit |-> i <= h]]
    <3>8. \A i \in 1..h : (A \o B)[i] = D[i]
      <4> SUFFICES ASSUME NEW i \in 1..h PROVE (A \o B)[i] = [ch |-> IF i <= k THEN all[i] ELSE " ", lit |-> i <= h]
        OBVIOUS
      <4>1. CASE i <= k
        <5>1. i \in 1..k /\ i \in 1..k + (h - k)
          BY <1>2, <2>3, <4>1
        <5> QED BY <2>10, <3>6, <4>1, <5>1
      <4>2. CASE i > k
        <5>1. i - k \in 1..h - k /\ i \in 1..k + (h - k) /\ ~(i <= k) /\ i <= h
          BY <1>2, <2>3, <4>2
        <5> QED BY <3>5, <3>6, <5>1
      <4>3. i \in Int /\ k \in Int
        BY <1>2, <2>3
      <4>4. i <= k \/ i > k
        BY <4>3
      <4> QED BY <4>1, <4>2, <4>4
    <3>9. Len(A \o B) = h /\ A \o B \in Seq(Cell)
      BY <3>6, <3>7
    <3>10. A \o B = D
      <4> HIDE DEF A, B
      <4> DEFINE AB == A \o B
      <4>1. Len(AB) = h /\ AB \in Seq(Cell) /\ \A i \in 1..h : AB[i] = D[i]
        BY <3>8, <3>9
      <4> HIDE DEF AB
      <4>2. AB \in [1..h -> Cell]
        <5>1. AB \in [1..Len(AB) -> Cell]
          BY <4>1, LenProperties
        <5> QED BY <4>1, <5>1, Zenon
      <4>3. AB = D
        <5> DEFINE F(i) == [ch |-> IF i <= k THEN all[i] ELSE " ", lit |-> i <= h]
        <5>1. \A i \in 1..h : AB[i] = F(i)
          BY <4>1
        <5> HIDE DEF F
        <5>2. AB = [i \in 1..h |-> F(i)]
          BY <4>2, <5>1
        <5> QED BY <5>2 DEF F
      <4> QED BY <4>3 DEF AB
    <3>11. Drawn(c, text) = D
      BY <2>12, <3>7
    <3> QED BY <3>2, <3>3, <3>10, <3>11
  <2> QED BY <2>13, <2>14
<1>13. w = 1 \/ w \in {2, 3} \/ w > 3
  BY <1>1
<1> QED BY <1>10, <1>11, <1>12, <1>13

(* Then nothing on the row is from behind an array.                        *)
LEMMA NothingStray ==
  ASSUME NEW c \in Shown, Placed(c), NEW text \in Seq(Glyph), InRange(c, text)
  PROVE  ~Stray(Output(c, text))
<1> DEFINE w == c.columns
           h == IF c.error THEN 0 ELSE HilightPos(c)
           begin == <<Symbol(c), " ">>
           chars == IF w < 4 THEN SubSeq(begin, 1, Least(2, w)) ELSE begin \o Window(c, text)
           size == IF w < 4 \/ h <= Len(chars) \/ Unfilled(c, text) THEN Len(chars) ELSE h
           drawn == [i \in 1..size |-> [ch |-> IF i <= Len(chars) THEN chars[i] ELSE " ", lit |-> i <= h]]
<1>1. Output(c, text) = drawn
  BY OutputDraws, Zenon DEF Drawn
<1>0. w \in Nat /\ w > 0
  BY ShownTypes
<1>2. Symbol(c) \in Glyph /\ " " \in Glyph
  BY ShownTypes DEF Symbol, Glyph
<1>3. /\ begin \in Seq(Glyph) /\ Len(begin) = 2 /\ SubSeq(begin, 1, 1) = <<Symbol(c)>> /\ SubSeq(begin, 1, 2) = begin
      /\ <<Symbol(c)>> \in Seq(Glyph)
  BY <1>2, FirstCells
<1> HIDE DEF begin, w
<1>4. chars \in Seq(Glyph)
  <2>1. CASE w < 4
    <3>1. Least(2, w) = 1 \/ Least(2, w) = 2
      <4> HIDE DEF chars, size, drawn, h
      <4> QED BY <1>0, <2>1 DEF Least
    <3>2. chars = SubSeq(begin, 1, Least(2, w))
      BY <2>1, Zenon
    <3> HIDE DEF chars
    <3> QED BY <1>3, <3>1, <3>2, Zenon
  <2>2. CASE ~(w < 4)
    <3>1. Window(c, text) \in Seq(Glyph)
      <4>1. c.columns > 3
        <5> HIDE DEF chars, size, drawn, h
        <5>1. w > 3
          BY <1>0, <2>2
        <5> QED BY <5>1 DEF w
      <4> QED BY <4>1, WindowIs
    <3> QED BY <1>3, <2>2, <3>1
  <2> QED BY <2>1, <2>2
<1>5. size \in Nat
  <2>1. Len(chars) \in Nat
    BY <1>4
  <2>2. h \in Nat
    BY HilightFits DEF Placed
  <2> HIDE DEF chars, h
  <2> QED BY <2>1, <2>2
<1> HIDE DEF chars, size, h
<1>6. Beyond \notin Glyph
  BY DEF Beyond, Glyph
<1>7. ASSUME NEW i \in 1..size PROVE drawn[i].ch # Beyond
  <2>1. drawn[i].ch = IF i <= Len(chars) THEN chars[i] ELSE " "
    OBVIOUS
  <2>2. CASE i <= Len(chars)
    <3>1. i \in 1..Len(chars)
      BY <1>4, <1>5, <2>2
    <3>2. chars[i] \in Glyph
      BY <1>4, <3>1
    <3> QED BY <1>6, <2>1, <2>2, <3>2, Zenon
  <2>3. CASE ~(i <= Len(chars))
    BY <1>2, <1>6, <2>1, <2>3, Zenon
  <2> QED BY <2>2, <2>3
<1>8. DOMAIN drawn = 1..size
  OBVIOUS
<1> HIDE DEF drawn
<1> QED BY <1>1, <1>7, <1>8, Zenon DEF Stray

(* formatLine makes a line of characters.                                  *)
LEMMA LineGlyphs ==
  ASSUME NEW error \in BOOLEAN, NEW song \in Songs \cup {{}}
  PROVE  LineOf(error, song) \in Seq(Glyph)
<1>1. CASE error
  <2>1. <<"[", "error", "]">> \in Seq(Glyph)
    BY DEF Glyph
  <2> QED BY <1>1, <2>1 DEF LineOf
<1>2. CASE ~error /\ song = {}
  <2>1. <<"[no song]">> \in Seq(Glyph)
    BY DEF Glyph
  <2> QED BY <1>2, <2>1 DEF LineOf
<1>3. CASE ~error /\ song # {}
  <2>1. song \in Songs
    BY <1>3
  <2>2. Lines[song] \in Seq(STRING \ {Beyond})
    BY <2>1, DisplayAssumption
  <2>3. STRING \ {Beyond} \subseteq Glyph
    BY DEF Glyph
  <2>4. Lines[song] \in Seq(Glyph)
    <3> DEFINE l == Lines[song]
    <3>1. /\ l \in Seq(STRING \ {Beyond}) /\ Len(l) \in Nat /\ l \in [1..Len(l) -> STRING \ {Beyond}]
      BY <2>2, LenProperties
    <3> HIDE DEF l
    <3>2. \A i \in 1..Len(l) : l[i] \in Glyph
      BY <2>3, <3>1
    <3>3. l = [i \in 1..Len(l) |-> l[i]]
      BY <3>1
    <3>4. l \in Seq(Glyph)
      BY <3>1, <3>2, <3>3
    <3> QED BY <3>4 DEF l
  <2> QED BY <1>3, <2>4 DEF LineOf
<1> QED BY <1>1, <1>2, <1>3

-----------------------------------------------------------------------------
(* A round of display, by the names of what it computes.                   *)
Seen  == [cur EXCEPT !.error = connError, !.columns = width]
Text  == IF Reformats(Seen) THEN LineOf(Seen.error, Seen.song) ELSE line
Now   == IF Repositions(Seen) THEN [Seen EXCEPT !.hilight = HilightPos(Seen)] ELSE Seen
Draws == Redraws(Now) \/ background

RoundSteps ==
  /\ pc = "display" /\ pc' \in {"status", "display"}
  /\ line' = Text /\ first' = FALSE /\ old' = Now
  /\ row' = IF Draws THEN Output(Now, Text) ELSE row
  /\ strays' = (IF Reformats(Seen) THEN 0 ELSE strays) + (IF Draws /\ Stray(row') /\ strays < 2 THEN 1 ELSE 0)
  /\ cur' = IF Draws /\ Scrolls(Now, Text) THEN [Now EXCEPT !.scroll = ScrollAfter(Now.scroll, Len(Text))] ELSE Now
  /\ connError' = connError /\ width' = width /\ background' = background

(* Round is made of these.                                                 *)
LEMMA RoundIs == Round => RoundSteps
<1> SUFFICES ASSUME Round PROVE RoundSteps
  OBVIOUS
<1> QED BY Zenon DEF Round, RoundSteps, Draws, Now, Text, Seen

(* The position is within the song and the highlight within the row.       *)
Within(c) == c.pos <= c.len /\ (~c.error => c.hilight <= c.columns)

(* The types of everything but the row.                                    *)
Typed ==
  /\ cur \in Shown /\ Within(cur) /\ old \in Shown /\ Within(old)
  /\ connError \in BOOLEAN /\ width \in Widths /\ line \in Seq(Glyph)
  /\ first \in BOOLEAN /\ background \in BOOLEAN /\ pc \in {"status", "display"}

(* After the first round the line and, if the scroll position is in range, *)
(* the row are what they should be for D.old, and a line that is too long  *)
(* has been moved on by one.  D.cur keeps the highlight until the next     *)
(* round looks.                                                            *)
Current ==
  /\ line = LineOf(old.error, old.song)
  /\ ~old.error => old.hilight = HilightPos(old)
  /\ cur.hilight = old.hilight
  /\ InRange(old, line) => row = Drawn(old, line)
  /\ Scrolls(old, line) => cur.scroll = ScrollAfter(old.scroll, Len(line))

(* A stray read is followed by a scroll position that is in range.         *)
OnceStray == strays \in {0, 1} /\ (strays = 1 => cur.scroll < Len(line) + 7)

(* The inductive invariant.                                                *)
IInv == Typed /\ OnceStray /\ (~first => Current)

(* What neither calculateHilightPos nor outputScrolled changes.            *)
Others(d, c) == d.error = c.error /\ d.song = c.song /\ d.state = c.state /\ d.pos = c.pos /\ d.len = c.len

(* A new highlight changes nothing else.                                   *)
LEMMA Moved ==
  ASSUME NEW c \in Shown, NEW h \in Nat, NEW d, d = [c EXCEPT !.hilight = h]
  PROVE  d \in Shown /\ Others(d, c) /\ d.hilight = h /\ d.scroll = c.scroll /\ d.columns = c.columns
BY DEF Shown, Others

(* A new scroll position changes nothing else.                             *)
LEMMA Scrolled ==
  ASSUME NEW c \in Shown, NEW s \in Nat, NEW d, d = [c EXCEPT !.scroll = s]
  PROVE  d \in Shown /\ Others(d, c) /\ d.hilight = c.hilight /\ d.scroll = s /\ d.columns = c.columns
BY DEF Shown, Others

(* What a round looks at is well formed, and its line is that of its song: *)
(* line 482 misses no change that would need a new line, line 492 none     *)
(* that would need a new highlight.                                        *)
LEMMA LooksAt ==
  ASSUME IInv
  PROVE  /\ Now \in Shown /\ Placed(Now) /\ Within(Now) /\ Text \in Seq(Glyph)
         /\ Text = LineOf(Now.error, Now.song)
         /\ Now.error = connError /\ Now.columns = width /\ Now.scroll = cur.scroll
         /\ Reformats(Now) <=> Reformats(Seen)
<1>1. /\ cur \in Shown /\ Within(cur) /\ old \in Shown /\ connError \in BOOLEAN /\ width \in Widths
      /\ line \in Seq(Glyph) /\ first \in BOOLEAN
  BY DEF IInv, Typed
<1>2. /\ Seen \in Shown /\ Seen.error = connError /\ Seen.song = cur.song /\ Seen.state = cur.state
      /\ Seen.pos = cur.pos /\ Seen.len = cur.len
      /\ Seen.scroll = cur.scroll /\ Seen.columns = width /\ Seen.hilight = cur.hilight
  <2>1. Seen = [cur EXCEPT !.error = connError, !.columns = width]
    BY DEF Seen
  <2>2. cur \in Shown /\ connError \in BOOLEAN /\ width \in Widths
    BY <1>1
  <2> HIDE DEF Seen
  <2> QED BY <2>1, <2>2 DEF Shown
<1>3. HilightPos(Seen) \in Nat /\ (~Seen.error => HilightPos(Seen) <= Seen.columns)
  <2>1. CASE Seen.error
    <3>1. HilightPos(Seen) = Seen.hilight
      BY <2>1 DEF HilightPos
    <3> QED BY <1>2, <2>1, <3>1, ShownTypes
  <2>2. CASE ~Seen.error
    <3>1. Seen.pos <= Seen.len
      BY <1>1, <1>2 DEF Within
    <3> QED BY <1>2, <2>2, <3>1, HilightFits
  <2> QED BY <2>1, <2>2
<1>4. /\ Now \in Shown /\ Now.error = Seen.error /\ Now.song = Seen.song /\ Now.state = Seen.state
      /\ Now.pos = Seen.pos /\ Now.len = Seen.len /\ Now.scroll = Seen.scroll /\ Now.columns = Seen.columns
      /\ Now.hilight = IF Repositions(Seen) THEN HilightPos(Seen) ELSE Seen.hilight
  <2>1. CASE Repositions(Seen)
    <3>1. Now = [Seen EXCEPT !.hilight = HilightPos(Seen)]
      BY <2>1 DEF Now
    <3>2. Now \in Shown /\ Others(Now, Seen) /\ Now.hilight = HilightPos(Seen) /\ Now.scroll = Seen.scroll /\ Now.columns = Seen.columns
      BY <1>2, <1>3, <3>1, Moved, Zenon
    <3> QED BY <2>1, <3>2, Zenon DEF Others
  <2>2. CASE ~Repositions(Seen)
    BY <1>2, <2>2 DEF Now
  <2> QED BY <2>1, <2>2
<1>5. ~Now.error => HilightPos(Now) = HilightPos(Seen)
  BY <1>4 DEF HilightPos
<1>6. ~Now.error => Now.hilight = HilightPos(Now)
  <2> SUFFICES ASSUME ~Now.error PROVE Now.hilight = HilightPos(Now)
    OBVIOUS
  <2>1. CASE Repositions(Seen)
    BY <1>4, <1>5, <2>1
  <2>2. CASE ~Repositions(Seen)
    <3>1. /\ ~first /\ Seen.error = old.error /\ Seen.columns = old.columns /\ Seen.pos = old.pos /\ Seen.len = old.len
      BY <2>2 DEF Repositions, Reformats
    <3>2. HilightPos(Seen) = HilightPos(old)
      BY <1>4, <3>1 DEF HilightPos
    <3>3. old.hilight = HilightPos(old) /\ cur.hilight = old.hilight
      BY <1>4, <3>1 DEF IInv, Current
    <3> QED BY <1>2, <1>4, <1>5, <2>2, <3>2, <3>3
  <2> QED BY <2>1, <2>2
<1>7. Placed(Now) /\ Within(Now)
  <2>1. Now.pos <= Now.len
    BY <1>1, <1>2, <1>4 DEF Within
  <2>2. ~Now.error => Now.hilight <= Now.columns
    BY <1>3, <1>4, <1>5, <1>6
  <2> QED BY <1>6, <2>1, <2>2 DEF Placed, Within
<1>8. Reformats(Now) <=> Reformats(Seen)
  BY <1>4, Zenon DEF Reformats
<1>9. Text \in Seq(Glyph) /\ Text = LineOf(Now.error, Now.song)
  <2>1. CASE Reformats(Seen)
    <3>1. Text = LineOf(Now.error, Now.song)
      BY <1>4, <2>1 DEF Text
    <3>2. Now.error \in BOOLEAN /\ Now.song \in Songs \cup {{}}
      BY <1>4, ShownTypes
    <3> QED BY <3>1, <3>2, LineGlyphs
  <2>2. CASE ~Reformats(Seen)
    <3>1. ~first /\ Seen.error = old.error /\ Seen.song = old.song /\ Text = line
      BY <2>2 DEF Reformats, Text
    <3>2. line = LineOf(old.error, old.song)
      BY <3>1 DEF IInv, Current
    <3> QED BY <1>1, <1>4, <3>1, <3>2
  <2> QED BY <2>1, <2>2
<1> QED BY <1>2, <1>4, <1>7, <1>8, <1>9

(* A scroll position is in range and never stays the same.                 *)
LEMMA NeverStill ==
  ASSUME NEW s \in Nat, NEW n \in Nat
  PROVE  ScrollAfter(s, n) \in Nat /\ ScrollAfter(s, n) < n + 7 /\ ScrollAfter(s, n) # s
<1> DEFINE m == n + 7
<1>1. m \in Nat /\ m > 1
  OBVIOUS
<1>2. ScrollAfter(s, n) = (s + 1) % m
  BY SevenColumns DEF ScrollAfter
<1> HIDE DEF m
<1>3. (s + 1) % m \in Nat /\ (s + 1) % m < m
  BY <1>1
<1>4. (s + 1) % m # s
  <2>1. CASE s >= m
    BY <1>1, <1>3, <2>1
  <2>2. CASE s < m
    <3> DEFINE q == s + 1
    <3>1. q \in Nat /\ q < 2 * m /\ m > 0
      BY <1>1, <2>2
    <3> HIDE DEF q
    <3>2. q % m = IF q < m THEN q ELSE q - m
      BY <1>1, <3>1, ModOnce
    <3> QED BY <1>1, <2>2, <3>2 DEF q
  <2> QED BY <1>1, <2>1, <2>2
<1> QED BY <1>2, <1>3, <1>4 DEF m

(* The row depends on these fields only, which are those display compares. *)
LEMMA SameDrawn ==
  ASSUME NEW c, NEW d, NEW text,
         c.error = d.error, c.state = d.state, c.columns = d.columns, c.scroll = d.scroll, HilightPos(c) = HilightPos(d)
  PROVE  Drawn(c, text) = Drawn(d, text) /\ (InRange(c, text) <=> InRange(d, text)) /\ (Scrolls(c, text) <=> Scrolls(d, text))
<1>1. Symbol(c) = Symbol(d)
  BY Zenon DEF Symbol
<1>2. Window(c, text) = Window(d, text)
  BY Zenon DEF Window
<1>3. Unfilled(c, text) <=> Unfilled(d, text)
  BY Zenon DEF Unfilled
<1>4. Scrolls(c, text) <=> Scrolls(d, text)
  BY Zenon DEF Scrolls
<1>5. InRange(c, text) <=> InRange(d, text)
  BY <1>4, Zenon DEF InRange
<1>6. Drawn(c, text) = Drawn(d, text)
  BY <1>1, <1>2, <1>3, Zenon DEF Drawn
<1> QED BY <1>4, <1>5, <1>6

(* A round of display.  If nothing is drawn the row stays right because    *)
(* nothing it depends on has changed; and a line that scrolls is always    *)
(* drawn.                                                                  *)
LEMMA RoundKeeps ==
  ASSUME IInv, Round
  PROVE  IInv'
<1>1. /\ Now \in Shown /\ Placed(Now) /\ Within(Now) /\ Text \in Seq(Glyph) /\ Text = LineOf(Now.error, Now.song)
      /\ Now.scroll = cur.scroll /\ (Reformats(Now) <=> Reformats(Seen))
  BY LooksAt
<1>2. /\ pc' \in {"status", "display"} /\ line' = Text /\ first' = FALSE /\ old' = Now
      /\ row' = IF Draws THEN Output(Now, Text) ELSE row
      /\ connError' = connError /\ width' = width /\ background' = background
  BY RoundIs DEF RoundSteps
<1>3. cur' = IF Draws /\ Scrolls(Now, Text) THEN [Now EXCEPT !.scroll = ScrollAfter(Now.scroll, Len(Text))] ELSE Now
  BY RoundIs DEF RoundSteps
<1>4. strays' = (IF Reformats(Seen) THEN 0 ELSE strays) + (IF Draws /\ Stray(row') /\ strays < 2 THEN 1 ELSE 0)
  BY RoundIs DEF RoundSteps
<1>5. Len(Text) \in Nat /\ Now.scroll \in Nat
  BY <1>1, ShownTypes
<1>6. /\ ScrollAfter(Now.scroll, Len(Text)) \in Nat /\ ScrollAfter(Now.scroll, Len(Text)) < Len(Text) + 7
  BY <1>5, NeverStill
<1>7. /\ cur' \in Shown /\ Within(cur') /\ cur'.hilight = Now.hilight
      /\ Draws /\ Scrolls(Now, Text) => cur'.scroll = ScrollAfter(Now.scroll, Len(Text))
      /\ ~(Draws /\ Scrolls(Now, Text)) => cur'.scroll = Now.scroll
  <2>1. CASE Draws /\ Scrolls(Now, Text)
    <3>1. cur' = [Now EXCEPT !.scroll = ScrollAfter(Now.scroll, Len(Text))]
      BY <1>3, <2>1
    <3>2. /\ cur' \in Shown /\ Others(cur', Now) /\ cur'.hilight = Now.hilight
          /\ cur'.scroll = ScrollAfter(Now.scroll, Len(Text)) /\ cur'.columns = Now.columns
      <4> DEFINE next == ScrollAfter(Now.scroll, Len(Text))
      <4>1. next \in Nat /\ cur' = [Now EXCEPT !.scroll = next] /\ Now \in Shown
        BY <1>1, <1>6, <3>1
      <4> HIDE DEF next
      <4>2. /\ cur' \in Shown /\ Others(cur', Now) /\ cur'.hilight = Now.hilight
            /\ cur'.scroll = next /\ cur'.columns = Now.columns
        BY <4>1 DEF Shown, Others
      <4> QED BY <4>2 DEF next
    <3>3. Within(cur')
      BY <1>1, <3>2 DEF Within, Others
    <3> QED BY <2>1, <3>2, <3>3
  <2>2. CASE ~(Draws /\ Scrolls(Now, Text))
    <3>1. cur' = Now
      BY <1>3, <2>2
    <3> QED BY <1>1, <2>2, <3>1, Zenon
  <2> QED BY <2>1, <2>2
<1>8. Typed'
  <2>1. connError \in BOOLEAN /\ width \in Widths /\ background \in BOOLEAN
    BY DEF IInv, Typed
  <2> QED BY <1>1, <1>2, <1>7, <2>1, Zenon DEF Typed
<1>9. ~Reformats(Seen) => Text = line /\ ~first
  BY DEF Text, Reformats
<1>10. OnceStray'
  <2> DEFINE new == Draws /\ Stray(row') /\ strays < 2
  <2>1. strays \in {0, 1} /\ (strays = 1 => cur.scroll < Len(line) + 7)
    BY DEF IInv, OnceStray
  <2>2. CASE new
    <3>1. row' = Output(Now, Text)
      BY <1>2, <2>2
    <3>2. ~InRange(Now, Text)
      BY <1>1, <2>2, <3>1, NothingStray, Zenon
    <3>3. Scrolls(Now, Text) /\ ~(Now.scroll < Len(Text) + 7)
      BY <3>2, SevenColumns DEF InRange
    <3>4. ~Reformats(Seen) => strays = 0
      BY <1>1, <1>9, <2>1, <3>3
    <3>5. strays' = 1
      BY <1>4, <2>2, <3>4
    <3>6. cur'.scroll < Len(line') + 7
      BY <1>2, <1>6, <1>7, <2>2, <3>3
    <3> QED BY <3>5, <3>6 DEF OnceStray
  <2>3. CASE ~new
    <3>1. strays' = IF Reformats(Seen) THEN 0 ELSE strays
      BY <1>4, <2>1, <2>3
    <3>2. strays' = 1 => cur.scroll < Len(Text) + 7
      BY <1>9, <2>1, <3>1
    <3>3. strays' = 1 => cur'.scroll < Len(line') + 7
      BY <1>1, <1>2, <1>6, <1>7, <3>2
    <3> QED BY <2>1, <3>1, <3>3 DEF OnceStray
  <2> QED BY <2>2, <2>3
<1>11. CASE Draws
  <2>1. InRange(Now, Text) => row' = Drawn(Now, Text)
    BY <1>1, <1>2, <1>11, OutputDraws, Zenon
  <2>2. Scrolls(Now, Text) => cur'.scroll = ScrollAfter(Now.scroll, Len(Text))
    BY <1>7, <1>11
  <2>3. Current'
    BY <1>1, <1>2, <1>7, <2>1, <2>2, Zenon DEF Current, Placed
  <2> QED BY <1>8, <1>10, <2>3, Zenon DEF IInv
<1>12. CASE ~Draws
  <2>1. /\ ~Reformats(Seen) /\ Now.columns = old.columns /\ Now.hilight = old.hilight
        /\ Now.state = old.state /\ Now.scroll = old.scroll
    BY <1>1, <1>12 DEF Draws, Redraws
  <2>2. ~first /\ Text = line
    BY <1>9, <2>1
  <2>3. Now.error = old.error
    BY <1>1, <2>1 DEF Reformats
  <2>4. Current
    BY <2>2 DEF IInv
  <2>5. HilightPos(Now) = HilightPos(old)
    <3>1. CASE Now.error
      BY <2>1, <2>3, <3>1 DEF HilightPos
    <3>2. CASE ~Now.error
      BY <1>1, <2>1, <2>3, <2>4, <3>2, Zenon DEF Placed, Current
    <3> QED BY <3>1, <3>2
  <2>6. /\ Drawn(Now, line) = Drawn(old, line) /\ (InRange(Now, line) <=> InRange(old, line))
        /\ (Scrolls(Now, line) <=> Scrolls(old, line))
    BY <2>1, <2>3, <2>5, SameDrawn, Zenon
  <2>7. ~Scrolls(Now, Text)
    <3> SUFFICES ASSUME Scrolls(Now, Text) PROVE FALSE
      OBVIOUS
    <3>1. cur.scroll = ScrollAfter(old.scroll, Len(line))
      BY <2>2, <2>4, <2>6, Zenon DEF Current
    <3>2. ScrollAfter(Now.scroll, Len(Text)) # Now.scroll
      BY <1>5, NeverStill
    <3> QED BY <1>1, <2>1, <2>2, <3>1, <3>2
  <2>8. InRange(Now, Text) => row' = Drawn(Now, Text)
    BY <1>2, <1>12, <2>2, <2>4, <2>6, Zenon DEF Current
  <2>9. Current'
    BY <1>1, <1>2, <1>7, <2>7, <2>8, Zenon DEF Current, Placed
  <2> QED BY <1>8, <1>10, <2>9, Zenon DEF IInv
<1> QED BY <1>11, <1>12

(* getSong changes what D.old is compared with, not D.old.                 *)
LEMMA StatusKeeps ==
  ASSUME IInv, Status
  PROVE  IInv'
<1>1. /\ cur \in Shown /\ Within(cur) /\ old \in Shown /\ Within(old)
      /\ connError \in BOOLEAN /\ width \in Widths /\ line \in Seq(Glyph)
      /\ first \in BOOLEAN /\ background \in BOOLEAN
  BY DEF IInv, Typed
<1>2. pc' = "display" /\ connError' \in BOOLEAN
  BY DEF Status
<1>3. old' = old /\ width' = width /\ line' = line /\ first' = first /\ background' = background /\ row' = row /\ strays' = strays
  BY Zenon DEF Status
<1>4. /\ cur' \in Shown /\ cur'.pos <= cur'.len /\ cur'.hilight = cur.hilight /\ cur'.scroll = cur.scroll
      /\ cur'.error = cur.error /\ cur'.columns = cur.columns
  <2>1. ASSUME NEW song \in Songs, NEW state \in {"play", "pause"}, NEW len \in Lengths, NEW pos \in 0..len,
               cur' = [cur EXCEPT !.song = song, !.state = state, !.pos = pos, !.len = len]
        PROVE  <1>4
    <3>1. len \in Nat /\ pos \in Nat /\ pos <= len
      <4>1. len \in Nat
        BY DisplayAssumption
      <4> QED BY <4>1
    <3> QED BY <1>1, <2>1, <3>1 DEF Shown
  <2>2. ASSUME cur' = [cur EXCEPT !.song = {}, !.state = "stop", !.pos = 0, !.len = 0]
        PROVE  <1>4
    <3>1. cur \in Shown
      BY <1>1
    <3>2. cur'.pos = 0 /\ cur'.len = 0
      BY <3>1, <2>2 DEF Shown
    <3>3. cur' \in Shown
      BY <3>1, <2>2 DEF Shown
    <3>4. cur'.hilight = cur.hilight /\ cur'.scroll = cur.scroll /\ cur'.error = cur.error /\ cur'.columns = cur.columns
      BY <3>1, <2>2 DEF Shown
    <3> QED BY <3>2, <3>3, <3>4
  <2>3. ASSUME cur' = [cur EXCEPT !.song = {}]
        PROVE  <1>4
    <3>1. cur.pos <= cur.len
      BY <1>1 DEF Within
    <3> QED BY <1>1, <2>3, <3>1 DEF Shown
  <2> QED BY <2>1, <2>2, <2>3 DEF Status
<1>5. Within(cur')
  BY <1>1, <1>4 DEF Within
<1>6. Typed'
  BY <1>1, <1>2, <1>3, <1>4, <1>5 DEF Typed
<1>7. OnceStray'
  BY <1>3, <1>4 DEF IInv, OnceStray
<1>8. ~first' => Current'
  BY <1>3, <1>4, Zenon DEF IInv, Current
<1> QED BY <1>6, <1>7, <1>8 DEF IInv

(* At the beginning nothing has been looked at.                            *)
LEMMA StartsRight == Init => IInv
<1> SUFFICES ASSUME Init PROVE IInv
  OBVIOUS
<1>1. /\ cur = [error |-> FALSE, song |-> {}, state |-> "stop", pos |-> 0, len |-> 0,
               hilight |-> 0, scroll |-> 0, columns |-> width]
      /\ width \in Widths /\ old = cur /\ line = <<>> /\ first = TRUE /\ strays = 0 /\ pc = "status"
      /\ background \in BOOLEAN /\ connError = TRUE
  BY DEF Init
<1>2. cur \in Shown /\ cur.pos = 0 /\ cur.len = 0 /\ cur.hilight = 0
  BY <1>1 DEF Shown
<1>3. Within(cur)
  BY <1>2, ShownTypes DEF Within
<1>4. line \in Seq(Glyph)
  BY <1>1
<1>5. Typed
  BY <1>1, <1>2, <1>3, <1>4 DEF Typed
<1> QED BY <1>1, <1>5 DEF IInv, OnceStray

(* Every step keeps the invariant.                                         *)
LEMMA EveryStepKeeps == IInv /\ [Next]_vars => IInv'
<1> SUFFICES ASSUME IInv, [Next]_vars PROVE IInv'
  OBVIOUS
<1>1. CASE Status
  BY <1>1, StatusKeeps
<1>2. CASE HandleResize
  <2>1. /\ width' \in Widths /\ cur' = cur /\ old' = old /\ connError' = connError /\ line' = line /\ first' = first
        /\ background' = background /\ row' = row /\ strays' = strays /\ pc' = pc
    BY <1>2 DEF HandleResize
  <2>2. Typed'
    BY <2>1 DEF IInv, Typed
  <2>3. OnceStray' /\ (~first' => Current')
    BY <2>1, Zenon DEF IInv, OnceStray, Current
  <2> QED BY <2>2, <2>3 DEF IInv
<1>3. CASE Round
  BY <1>3, RoundKeeps
<1>4. CASE UNCHANGED vars
  BY <1>4, Zenon DEF vars, IInv, Typed, OnceStray, Current
<1> QED BY <1>1, <1>2, <1>3, <1>4 DEF Next

(* The inductive invariant of display (mpd-show.c:474) holds, whatever     *)
(* songs come, however long, and however the terminal is resized.          *)
THEOREM DisplayRound == Spec => []IInv
<1>1. Init => IInv
  BY StartsRight
<1>2. IInv /\ [Next]_vars => IInv'
  BY EveryStepKeeps
<1> QED BY <1>1, <1>2, PTL DEF Spec

(* The types hold, the highlight's width among them.                       *)
THEOREM DisplayTyped == Spec => []TypeOK
<1>1. IInv => TypeOK
  <2> SUFFICES ASSUME IInv PROVE TypeOK
    OBVIOUS
  <2>1. /\ connError \in BOOLEAN /\ width \in Widths /\ first \in BOOLEAN /\ background \in BOOLEAN
        /\ strays \in 0..2 /\ pc \in {"status", "display"}
    BY DEF IInv, Typed, OnceStray
  <2>2. ASSUME NEW c \in {cur, old}
        PROVE  /\ c.error \in BOOLEAN /\ c.song \in Songs \cup {{}} /\ c.state \in {"stop", "play", "pause"}
               /\ c.columns \in Widths /\ c.len \in Lengths \cup {0} /\ c.pos \in 0..c.len
               /\ c.hilight \in Nat /\ (~c.error => c.hilight <= c.columns)
               /\ c.scroll \in Nat
    <3>1. c \in Shown /\ Within(c)
      BY DEF IInv, Typed
    <3>2. c.len \in Lengths \cup {0}
      BY <3>1 DEF Shown
    <3>3. c.pos \in Nat /\ c.len \in Nat /\ c.pos <= c.len
      BY <3>1, ShownTypes DEF Within
    <3>4. c.pos \in 0..c.len
      BY <3>3
    <3>5. ~c.error => c.hilight <= c.columns
      BY <3>1 DEF Within
    <3>6. /\ c.error \in BOOLEAN /\ c.song \in Songs \cup {{}} /\ c.state \in {"stop", "play", "pause"}
          /\ c.hilight \in Nat /\ c.scroll \in Nat /\ c.columns \in Widths
      BY <3>1, ShownTypes
    <3> QED BY <3>2, <3>4, <3>5, <3>6
  <2> QED BY <2>1, <2>2, Zenon DEF TypeOK
<1> QED BY <1>1, DisplayRound, PTL

(* At most one row of a line is drawn with something from behind an array. *)
THEOREM ReadsWithin == Spec => []ReadsInside
<1>1. IInv => ReadsInside
  BY DEF IInv, OnceStray, ReadsInside
<1> QED BY <1>1, DisplayRound, PTL

(* After every round the terminal's row is the one for what display last   *)
(* looked at, also when the round drew nothing.                            *)
THEOREM RowAgrees == Spec => []RowIsCurrent
<1>1. IInv => RowIsCurrent
  BY Zenon DEF IInv, Current, RowIsCurrent
<1> QED BY <1>1, DisplayRound, PTL

(* To move on by one and to look one further is the same, over the         *)
(* separator back to the beginning too.                                    *)
LEMMA Turns ==
  ASSUME NEW text \in Seq(Glyph), NEW s \in Nat, s < Len(text) + 7, NEW j \in Nat, j < Len(text) + 7
  PROVE  Endless(text, ScrollAfter(s, Len(text)) + j) = Endless(text, s + 1 + j)
<1> DEFINE m == Len(text) + 7
           q == s + 1 + j
           r == ScrollAfter(s, Len(text)) + j
<1>1. m \in Nat /\ m > 0 /\ Len(text) + Len(Separator) = m
  BY SevenColumns
<1>2. ScrollAfter(s, Len(text)) = (s + 1) % m
  BY <1>1 DEF ScrollAfter
<1> DEFINE p == s + 1
<1>3. p \in Nat /\ p < 2 * m /\ p <= m /\ j < m /\ q = p + j
  BY <1>1
<1> HIDE DEF m, p, q
<1>4. p % m = IF p < m THEN p ELSE p - m
  BY <1>1, <1>3, ModOnce
<1>5. r = (IF p < m THEN p ELSE p - m) + j
  BY <1>2, <1>4 DEF p
<1> HIDE DEF r
<1>6. r % m = q % m
  <2>1. CASE p < m
    BY <1>3, <1>5, <2>1
  <2>2. CASE ~(p < m)
    <3>1. r = j /\ q = m + j /\ q \in Nat /\ q < 2 * m /\ r < 2 * m /\ r < m /\ ~(q < m) /\ q - m = j /\ r \in Nat
      BY <1>1, <1>3, <1>5, <2>2
    <3>2. q % m = IF q < m THEN q ELSE q - m
      BY <1>1, <3>1, ModOnce
    <3>3. r % m = IF r < m THEN r ELSE r - m
      BY <1>1, <3>1, ModOnce
    <3> QED BY <3>1, <3>2, <3>3
  <2> QED BY <2>1, <2>2
<1>7. Endless(text, r) = Endless(text, q)
  BY <1>1, <1>6, Zenon DEF Endless
<1> QED BY <1>7 DEF r, q

(* A column of the window on the row.                                      *)
LEMMA DrawnWindow ==
  ASSUME NEW c \in Shown, NEW text \in Seq(Glyph), Scrolls(c, text), InRange(c, text), Placed(c),
         NEW i \in 3..c.columns - 1
  PROVE  Drawn(c, text)[i].ch = Endless(text, c.scroll + (i - 2) - 1)
<1> DEFINE w == c.columns
           win == Window(c, text)
           begin == <<Symbol(c), " ">>
           lit == IF c.error THEN 0 ELSE HilightPos(c)
           chars == IF w < 4 THEN SubSeq(begin, 1, Least(2, w)) ELSE begin \o win
           size == IF w < 4 \/ lit <= Len(chars) \/ Unfilled(c, text) THEN Len(chars) ELSE lit
<1>1. w \in Nat /\ w > 3 /\ ~Fits(text, w - 2)
  BY ShownTypes DEF Scrolls
<1>2. /\ win \in Seq(Glyph) /\ Len(win) = w - 3
      /\ \A k \in 1..w - 3 : win[k] = Endless(text, c.scroll + k - 1)
  BY <1>1, WindowIs
<1>3. Symbol(c) \in Glyph /\ " " \in Glyph
  BY ShownTypes DEF Symbol, Glyph
<1>4. begin \in Seq(Glyph) /\ Len(begin) = 2
  BY <1>3, FirstCells
<1> HIDE DEF begin, win
<1>5. /\ begin \o win \in Seq(Glyph) /\ Len(begin \o win) = Len(begin) + Len(win)
      /\ \A k \in 1..Len(begin) + Len(win) : (begin \o win)[k] = IF k <= Len(begin) THEN begin[k] ELSE win[k - Len(begin)]
  BY <1>2, <1>4, ConcatProperties
<1>6. chars = begin \o win
  BY <1>1
<1>7. Drawn(c, text) = [k \in 1..size |-> [ch |-> IF k <= Len(chars) THEN chars[k] ELSE " ", lit |-> k <= lit]]
  BY Zenon DEF Drawn, win, begin
<1>8. lit \in Nat
  BY HilightFits DEF Placed
<1> HIDE DEF lit, chars
<1> DEFINE n == Len(chars)
<1>9. n = w - 1 /\ size \in Nat /\ size >= n
  <2>1. n = w - 1
    BY <1>1, <1>2, <1>4, <1>5, <1>6
  <2> HIDE DEF n
  <2>2. size = n \/ (size = lit /\ ~(lit <= n))
    BY Zenon DEF n
  <2> HIDE DEF size
  <2> QED BY <1>1, <1>8, <2>1, <2>2
<1> HIDE DEF size, n, w
<1>10. i \in 1..size /\ i <= n /\ i \in 1..n /\ i - 2 \in 1..w - 3 /\ ~(i <= 2) /\ i \in 1..2 + (w - 3)
  BY <1>1, <1>9 DEF w
<1>11. Drawn(c, text)[i].ch = chars[i]
  <2>1. i \in 1..size /\ i <= Len(chars)
    BY <1>10 DEF n
  <2>2. Drawn(c, text)[i] = [ch |-> IF i <= Len(chars) THEN chars[i] ELSE " ", lit |-> i <= lit]
    BY <1>7, <2>1, Zenon
  <2> DEFINE cell == Drawn(c, text)[i]
             ch == chars[i]
             b == i <= lit
  <2>3. cell = [ch |-> ch, lit |-> b]
    BY <2>1, <2>2, Zenon
  <2> HIDE DEF cell, ch, b
  <2>4. cell.ch = ch
    BY <2>3
  <2> QED BY <2>4 DEF cell, ch
<1>12. chars[i] = win[i - 2]
  <2>1. Len(begin) = 2 /\ Len(win) = w - 3
    BY <1>2, <1>4 DEF w
  <2>2. \A k \in 1..2 + (w - 3) : (begin \o win)[k] = IF k <= 2 THEN begin[k] ELSE win[k - 2]
    BY <1>5, <2>1, Zenon
  <2> QED BY <1>6, <1>10, <2>2
<1>13. win[i - 2] = Endless(text, c.scroll + (i - 2) - 1)
  BY <1>2, <1>10, Zenon DEF w
<1> QED BY <1>11, <1>12, <1>13

(* A line that is too long moves by one column a second.                   *)
THEOREM TextMoves == Spec => MovesByOne
<1> DEFINE
      scrolling == Scrolls(old, line) /\ InRange(old, line) /\ Scrolls(old', line')
      moves == pc = "display" /\ ~first /\ scrolling /\ line' = line /\ old'.columns = old.columns /\ width' = width =>
                 \A i \in 3..old.columns - 2 : row'[i].ch = row[i + 1].ch
<1>1. IInv /\ [Next]_vars => [moves]_vars
  <2> SUFFICES ASSUME IInv, Next, vars' # vars, pc = "display", ~first, scrolling, line' = line,
                      old'.columns = old.columns, width' = width, NEW i \in 3..old.columns - 2
               PROVE  row'[i].ch = row[i + 1].ch
    OBVIOUS
  <2>1. CASE Status
    BY <2>1 DEF Status
  <2>2. CASE HandleResize
    BY <2>2, Zenon DEF HandleResize, vars
  <2>3. CASE Round
    <3>1. /\ Now \in Shown /\ Placed(Now) /\ Text \in Seq(Glyph) /\ Now.scroll = cur.scroll
      BY LooksAt
    <3>2. line' = Text /\ old' = Now /\ row' = IF Draws THEN Output(Now, Text) ELSE row
      BY <2>3, RoundIs DEF RoundSteps
    <3>3. /\ old \in Shown /\ Within(old) /\ line \in Seq(Glyph) /\ Current
      BY DEF IInv, Typed
    <3>4. Text = line /\ Now.columns = old.columns /\ Scrolls(Now, line) /\ Scrolls(old, line) /\ InRange(old, line)
      BY <3>2, Zenon
    <3>5. Now.scroll = ScrollAfter(old.scroll, Len(line)) /\ row = Drawn(old, line)
      BY <3>1, <3>3, <3>4, Zenon DEF Current
    <3>6. /\ old.scroll \in Nat /\ Len(line) \in Nat /\ old.columns \in Nat
      BY <3>3, ShownTypes
    <3>7. ScrollAfter(old.scroll, Len(line)) < Len(line) + 7 /\ ScrollAfter(old.scroll, Len(line)) # old.scroll
      BY <3>6, NeverStill
    <3>8. Draws
      BY <3>5, <3>7 DEF Draws, Redraws
    <3>9. InRange(Now, line)
      BY <3>5, <3>7, SevenColumns DEF InRange
    <3>10. row' = Drawn(Now, line)
      BY <3>1, <3>2, <3>4, <3>8, <3>9, OutputDraws, Zenon
    <3>11. Placed(old)
      BY <3>3 DEF Current, Within, Placed
    <3>12. old.scroll < Len(line) + 7 /\ old.columns - 2 <= Len(line)
      <4>1. old.scroll < Len(line) + Len(Separator) /\ ~(Len(line) < old.columns - 2)
        BY <3>4 DEF InRange, Scrolls, Fits
      <4> QED BY <3>6, <4>1, SevenColumns
    <3> DEFINE j == i - 3
    <3>13. /\ i \in 3..Now.columns - 1 /\ i + 1 \in 3..old.columns - 1 /\ j \in Nat /\ j < Len(line) + 7
      BY <3>4, <3>6, <3>12
    <3>14. row'[i].ch = Endless(line, Now.scroll + (i - 2) - 1)
      BY <3>1, <3>4, <3>9, <3>10, <3>13, DrawnWindow, Zenon
    <3> DEFINE k == i + 1
    <3> HIDE DEF k
    <3>15. row[k].ch = Endless(line, old.scroll + (k - 2) - 1)
      BY <3>3, <3>4, <3>5, <3>11, <3>13, DrawnWindow, Zenon DEF k
    <3>16. Endless(line, Now.scroll + j) = Endless(line, old.scroll + 1 + j)
      BY <3>3, <3>5, <3>6, <3>12, <3>13, Turns, Zenon
    <3>17. Now.scroll + (i - 2) - 1 = Now.scroll + j /\ old.scroll + (k - 2) - 1 = old.scroll + 1 + j
      <4>1. Now.scroll \in Nat /\ old.scroll \in Nat /\ i \in Int
        BY <3>1, <3>3, <3>6, ShownTypes
      <4> QED BY <4>1 DEF k
    <3> QED BY <3>14, <3>15, <3>16, <3>17, Zenon DEF k
  <2> QED BY <2>1, <2>2, <2>3 DEF Next
<1> QED BY <1>1, DisplayRound, PTL DEF Spec, MovesByOne
=============================================================================
