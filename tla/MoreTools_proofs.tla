-------------------------- MODULE MoreTools_proofs --------------------------
(***************************************************************************)
(* What is proved about the programs of MoreTools, for every value of      *)
(* their constants and sequences of every length.                          *)
(***************************************************************************)
EXTENDS MoreTools, TLAPS, SequenceTheorems, WellFoundedInduction, FiniteSetTheorems

-----------------------------------------------------------------------------
(* Induction, and recursion, over the natural numbers.                     *)
(* Induction over the natural numbers, with a set for the predicate.       *)
LEMMA Inductive ==
  ASSUME NEW S, 0 \in S, \A n \in Nat : n \in S => n + 1 \in S
  PROVE  Nat \subseteq S
<1> DEFINE T == Nat \ S
           less == OpToRel(<, Nat)
<1> SUFFICES ASSUME T # {} PROVE FALSE
  OBVIOUS
<1>1. T \subseteq Nat
  OBVIOUS
<1>2. PICK x \in T : \A y \in T : ~ (<<y, x>> \in less)
  <2> HIDE DEF T
  <2> QED BY <1>1, WFMin, NatLessThanWellFounded
<1>3. x \in Nat /\ x # 0 /\ x - 1 \in Nat
  OBVIOUS
<1>4. x - 1 \in T
  BY <1>3
<1>5. <<x - 1, x>> \in less
  <2>1. x - 1 < x
    BY <1>3
  <2> HIDE DEF T
  <2> QED BY <1>3, <2>1, Z3 DEF OpToRel
<1> HIDE DEF T, less
<1> QED BY <1>2, <1>4, <1>5

(* Two functions that go on alike from the same value are the same.        *)
GoOnAlike(f, g, N) == \A n \in 1..N : f[n - 1] = g[n - 1] => f[n] = g[n]
Alike(f, g, N) == \A n \in 0..N : f[n] = g[n]

LEMMA AlikeTo ==
  ASSUME NEW f, NEW g, NEW N \in Nat, f[0] = g[0], GoOnAlike(f, g, N)
  PROVE  Alike(f, g, N)
<1> DEFINE Same == {n \in Nat : n <= N => f[n] = g[n]}
<1>1. 0 \in Same
  OBVIOUS
<1>2. \A n \in Nat : n \in Same => n + 1 \in Same
  <2> SUFFICES ASSUME NEW n \in Nat, n \in Same, n + 1 <= N PROVE f[n + 1] = g[n + 1]
    OBVIOUS
  <2>1. n + 1 \in 1..N /\ n <= N /\ (n + 1) - 1 = n
    OBVIOUS
  <2> QED BY <2>1 DEF GoOnAlike
<1>3. Nat \subseteq Same
  <2> HIDE DEF Same
  <2> QED BY <1>1, <1>2, Inductive
<1> QED BY <1>3 DEF Alike

(* A recursion over a sequence defines a function.                         *)
Stays(step, A, B) == \A x \in A, y \in B : step[x][y] \in A
Recurs(f, A, a, step, s) ==
  \A n \in 0..Len(s) : f[n] \in A /\ f[n] = IF n = 0 THEN a ELSE step[f[n - 1]][s[n]]

LEMMA Recursion ==
  ASSUME NEW A, NEW B, NEW a \in A, NEW s \in Seq(B), NEW step, Stays(step, A, B)
  PROVE  \E f : Recurs(f, A, a, step, s)
<1> DEFINE To(n, f) == \A k \in 0..n : f[k] \in A /\ f[k] = IF k = 0 THEN a ELSE step[f[k - 1]][s[k]]
           There == {n \in Nat : n <= Len(s) => \E f : To(n, f)}
<1>1. Len(s) \in Nat /\ \A n \in 1..Len(s) : s[n] \in B
  OBVIOUS
<1>2. 0 \in There
  <2> DEFINE f == [k \in 0..0 |-> a]
  <2>1. To(0, f)
    OBVIOUS
  <2> QED BY <2>1
<1>3. \A n \in Nat : n \in There => n + 1 \in There
  <2> SUFFICES ASSUME NEW n \in Nat, n \in There, n + 1 <= Len(s)
               PROVE  \E f : To(n + 1, f)
    <3> HIDE DEF To
    <3> QED OBVIOUS
  <2>1. n <= Len(s) /\ s[n + 1] \in B
    BY <1>1
  <2>2. PICK g : To(n, g)
    BY <2>1
  <2> DEFINE onward == step[g[n]][s[n + 1]]
  <2>3. onward \in A
    <3>1. g[n] \in A
      BY <2>2
    <3> QED BY <2>1, <3>1 DEF Stays
  <2> HIDE DEF onward
  <2> DEFINE f == [k \in 0..(n + 1) |-> IF k = n + 1 THEN onward ELSE g[k]]
  <2>5. f[n + 1] = onward /\ \A k \in 0..n : f[k] = g[k]
    OBVIOUS
  <2> HIDE DEF f
  <2>6. To(n + 1, f)
    <3> SUFFICES ASSUME NEW k \in 0..(n + 1)
                 PROVE  f[k] \in A /\ f[k] = IF k = 0 THEN a ELSE step[f[k - 1]][s[k]]
      OBVIOUS
    <3>1. CASE k = n + 1
      <4>1. k # 0 /\ k - 1 = n /\ f[n] = g[n]
        BY <2>5, <3>1
      <4> QED BY <2>3, <2>5, <3>1, <4>1 DEF onward
    <3>2. CASE k # n + 1
      <4>1. k \in 0..n
        BY <3>2
      <4>2. g[k] \in A /\ g[k] = IF k = 0 THEN a ELSE step[g[k - 1]][s[k]]
        BY <2>2, <4>1
      <4>3. k # 0 => k - 1 \in 0..n
        BY <4>1
      <4> QED BY <2>5, <4>1, <4>2, <4>3
    <3> QED BY <3>1, <3>2
  <2> HIDE DEF To
  <2> QED BY <2>6
<1>4. Nat \subseteq There
  <2> HIDE DEF There
  <2> QED BY <1>2, <1>3, Inductive
<1>5. \E f : To(Len(s), f)
  <2> HIDE DEF To
  <2> QED BY <1>1, <1>4
<1> QED BY <1>5 DEF Recurs

-----------------------------------------------------------------------------
(* Tuptime.                                                                *)
(* What a sequence of numbers adds up to.                                  *)
LEMMA SumIs ==
  ASSUME NEW s \in Seq(Nat)
  PROVE  \E f : /\ \A n \in 0..Len(s) : f[n] \in Nat /\ f[n] = IF n = 0 THEN 0 ELSE f[n - 1] + s[n]
               /\ Uptime!Sum(s) = f[Len(s)]
<1> DEFINE step == [x \in Nat |-> [y \in Nat |-> x + y]]
           Is(f) == f = [n \in 0..Len(s) |-> IF n = 0 THEN 0 ELSE f[n - 1] + s[n]]
<1>1. \A x, y \in Nat : step[x][y] \in Nat /\ step[x][y] = x + y
  OBVIOUS
<1>2. Len(s) \in Nat /\ \A n \in 1..Len(s) : s[n] \in Nat
  OBVIOUS
<1>3. PICK h : Recurs(h, Nat, 0, step, s)
  <2>1. Stays(step, Nat, Nat)
    BY <1>1 DEF Stays
  <2> HIDE DEF step, Is
  <2> QED BY <2>1, Recursion
<1>4. \A n \in 0..Len(s) : h[n] \in Nat /\ h[n] = IF n = 0 THEN 0 ELSE h[n - 1] + s[n]
  <2> SUFFICES ASSUME NEW n \in 0..Len(s), n # 0 PROVE h[n] = h[n - 1] + s[n]
    BY <1>3 DEF Recurs
  <2>1. n \in 1..Len(s) /\ n - 1 \in 0..Len(s)
    BY <1>2
  <2>2. h[n - 1] \in Nat /\ s[n] \in Nat
    BY <1>2, <1>3, <2>1 DEF Recurs
  <2> HIDE DEF step
  <2> QED BY <1>1, <1>3, <2>2 DEF Recurs
<1>5. Is([n \in 0..Len(s) |-> h[n]])
  BY <1>2, <1>4
<1> DEFINE g == CHOOSE f : Is(f)
<1>6. Is(g)
  <2> HIDE DEF Is
  <2> QED BY <1>5
<1>7. Uptime!Sum(s) = g[Len(s)]
  BY DEF Uptime!Sum
<1> HIDE DEF g, step
<1>8. \A n \in 0..Len(s) : g[n] = IF n = 0 THEN 0 ELSE g[n - 1] + s[n]
  BY <1>6
<1>9. \A n \in 0..Len(s) : g[n] = h[n]
  <2>1. g[0] = h[0] /\ GoOnAlike(g, h, Len(s))
    BY <1>2, <1>4, <1>8 DEF GoOnAlike
  <2> QED BY <1>2, <2>1, AlikeTo DEF Alike
<1>10. g[Len(s)] = h[Len(s)]
  BY <1>2, <1>9
<1> QED BY <1>4, <1>7, <1>10

LEMMA SumAppended ==
  ASSUME NEW s \in Seq(Nat), NEW x \in Nat
  PROVE  Uptime!Sum(s) \in Nat /\ Uptime!Sum(Append(s, x)) = Uptime!Sum(s) + x
<1> DEFINE t == Append(s, x)
<1>1. /\ t \in Seq(Nat) /\ Len(t) = Len(s) + 1 /\ Len(s) \in Nat
      /\ t[Len(s) + 1] = x /\ \A n \in 1..Len(s) : t[n] = s[n]
  OBVIOUS
<1> HIDE DEF t
<1>2. PICK f : /\ \A n \in 0..Len(s) : f[n] \in Nat /\ f[n] = IF n = 0 THEN 0 ELSE f[n - 1] + s[n]
               /\ Uptime!Sum(s) = f[Len(s)]
  BY SumIs
<1>3. PICK g : /\ \A n \in 0..Len(t) : g[n] \in Nat /\ g[n] = IF n = 0 THEN 0 ELSE g[n - 1] + t[n]
               /\ Uptime!Sum(t) = g[Len(t)]
  BY <1>1, SumIs
<1>6. \A n \in 0..Len(s) : g[n] = f[n]
  <2>1. g[0] = f[0] /\ GoOnAlike(g, f, Len(s))
    BY <1>1, <1>2, <1>3 DEF GoOnAlike
  <2> QED BY <1>1, <2>1, AlikeTo DEF Alike
<1>7. g[Len(t)] = f[Len(s)] + x
  <2>1. Len(t) \in 0..Len(t) /\ Len(t) # 0 /\ Len(t) - 1 = Len(s) /\ Len(s) \in 0..Len(s)
    BY <1>1
  <2>2. g[Len(t)] = g[Len(s)] + t[Len(t)]
    BY <1>3, <2>1
  <2> QED BY <1>1, <1>6, <2>1, <2>2
<1> QED BY <1>1, <1>2, <1>3, <1>7 DEF t

Times(sessions) == {0} \cup Uptime!ToSet(sessions)
IsLongest(x, sessions) == x \in Times(sessions) /\ \A y \in Times(sessions) : x >= y

Counting ==
  /\ uptime \in Nat /\ ran \in Nat /\ credited \in Seq(Nat)
  /\ \E x \in Nat : IsLongest(x, credited)
  /\ Uptime!Runs \/ stage = "cut" => ~Uptime!Written(cuptime)
  /\ Uptime!CountedAtMostOnce

LEMMA GreaterOf ==
  ASSUME NEW x \in Nat, NEW y \in Nat
  PROVE  Uptime!Max({x, y}) = IF x >= y THEN x ELSE y
<1> DEFINE m == IF x >= y THEN x ELSE y
<1>1. m \in {x, y} /\ \A z \in {x, y} : m >= z
  OBVIOUS
<1>2. \A z \in {x, y} : (\A w \in {x, y} : z >= w) => z = m
  OBVIOUS
<1> HIDE DEF m
<1>3. Uptime!Max({x, y}) = m
  BY <1>1, <1>2 DEF Uptime!Max
<1> QED BY <1>3 DEF m

LEMMA LongestIs ==
  ASSUME NEW s \in Seq(Nat), NEW x \in Nat, IsLongest(x, s)
  PROVE  Uptime!Longest(s) = x
<1>1. \A y \in Times(s) : y \in Nat
  BY DEF Times, Uptime!ToSet
<1>2. \A y \in Times(s) : (\A z \in Times(s) : y >= z) => y = x
  BY <1>1 DEF IsLongest
<1>3. Uptime!Max(Times(s)) = x
  BY <1>2 DEF Uptime!Max, IsLongest
<1> QED BY <1>3 DEF Uptime!Longest, Times

(* One more session may be the longest.                                    *)
LEMMA LongestAppended ==
  ASSUME NEW s \in Seq(Nat), NEW x \in Nat, IsLongest(x, s), NEW y \in Nat
  PROVE  IsLongest(IF x >= y THEN x ELSE y, Append(s, y))
<1>1. \A z \in Times(s) : z \in Nat
  BY DEF Times, Uptime!ToSet
<1>2. \A z : z \in Times(Append(s, y)) <=> z \in Times(s) \/ z = y
  <2> DEFINE t == Append(s, y)
  <2>1. /\ DOMAIN t = 1..Len(s) + 1 /\ DOMAIN s = 1..Len(s) /\ Len(s) \in Nat
        /\ t[Len(s) + 1] = y /\ \A i \in 1..Len(s) : t[i] = s[i]
    OBVIOUS
  <2> HIDE DEF t
  <2>2. \A z : (\E i \in DOMAIN t : z = t[i]) <=> (\E i \in DOMAIN s : z = s[i]) \/ z = y
    BY <2>1
  <2> QED BY <2>2 DEF Times, Uptime!ToSet, t
<1> QED BY <1>1, <1>2 DEF IsLongest

LEMMA EmptySum == Uptime!Sum(<<>>) = 0
<1>1. <<>> \in Seq(Nat) /\ Len(<<>>) = 0
  OBVIOUS
<1>2. PICK f : /\ \A n \in 0..0 : f[n] \in Nat /\ f[n] = IF n = 0 THEN 0 ELSE f[n - 1] + <<>>[n]
               /\ Uptime!Sum(<<>>) = f[0]
  BY <1>1, SumIs
<1>3. f[0] = 0
  <2>1. 0 \in 0..0
    OBVIOUS
  <2> HIDE <1>1
  <2> QED BY <1>2, <2>1
<1> QED BY <1>2, <1>3

LEMMA FilesWritten ==
  ASSUME NEW x \in Nat, NEW y
  PROVE  Uptime!Written(<<x, y>>)
<1>1. <<x, y>>[1] = x /\ Uptime!Absent[1] = -1 /\ Uptime!Empty[1] = -2
  BY DEF Uptime!Absent, Uptime!Empty
<1> QED BY <1>1 DEF Uptime!Written

LEMMA CountingBegins == Uptime!Init => Counting
<1> SUFFICES ASSUME Uptime!Init PROVE Counting
  OBVIOUS
<1>1. /\ uptime = 0 /\ ran = 0 /\ credited = <<>> /\ buptime = <<0, 0>> /\ cuptime = Uptime!Absent
  BY DEF Uptime!Init
<1>2. Times(credited) = {0} /\ credited \in Seq(Nat)
  BY <1>1 DEF Times, Uptime!ToSet
<1>3. IsLongest(0, credited)
  BY <1>2 DEF IsLongest
<1>4. Uptime!Longest(credited) = 0
  BY <1>2, <1>3, LongestIs
<1>5. Uptime!CountedAtMostOnce /\ ~Uptime!Written(cuptime)
  BY <1>1, <1>4, EmptySum DEF Uptime!CountedAtMostOnce, Uptime!Written
<1> QED BY <1>1, <1>2, <1>3, <1>5 DEF Counting

(* A session that has been written is counted when the file is moved, and  *)
(* not again; one that was cut has nothing to be moved.                    *)
LEMMA MoveCounts ==
  ASSUME Counting, Uptime!Move, uptime' \in Nat, ~Uptime!Runs
  PROVE  Counting'
<1>1. /\ uptime \in Nat /\ ran \in Nat /\ credited \in Seq(Nat) /\ ran' = 0
  BY DEF Counting, Uptime!Move
<1>2. PICK x \in Nat : IsLongest(x, credited)
  BY DEF Counting
<1>3. Uptime!Longest(credited) = x
  BY <1>1, <1>2, LongestIs
<1>4. /\ buptime = <<Uptime!Sum(credited), x>>
      /\ Uptime!Written(cuptime) => cuptime = <<Uptime!Sum(credited) + ran, Uptime!Max({x, ran})>>
      /\ ran > 0 /\ ~Uptime!Written(cuptime) => stage = "cut"
      /\ stage = "cut" => ~Uptime!Written(cuptime)
  BY <1>3 DEF Counting, Uptime!CountedAtMostOnce
<1> DEFINE z == IF x >= ran THEN x ELSE ran
<1>5. Uptime!Max({x, ran}) = z /\ z \in Nat
  BY <1>1, GreaterOf
<1>6. Uptime!Sum(credited) \in Nat
  BY <1>1, SumAppended
<1>7. ~Uptime!Written(cuptime')
  BY DEF Uptime!Move, Uptime!Movable, Uptime!Written
<1>8. /\ credited' \in Seq(Nat)
      /\ ran > 0 /\ stage # "cut" => credited' = Append(credited, ran)
      /\ ran = 0 \/ stage = "cut" => credited' = credited
  <2>1. ran > 0 /\ stage # "cut" => credited' = Append(credited, ran)
    BY DEF Uptime!Move
  <2>2. ran = 0 \/ stage = "cut" => credited' = credited
    BY DEF Uptime!Move
  <2> QED BY <1>1, <2>1, <2>2
<1>9. Uptime!Written(cuptime) => buptime' = <<Uptime!Sum(credited'), z>> /\ IsLongest(z, credited')
  <2> SUFFICES ASSUME Uptime!Written(cuptime) PROVE buptime' = <<Uptime!Sum(credited'), z>> /\ IsLongest(z, credited')
    OBVIOUS
  <2>1. buptime' = <<Uptime!Sum(credited) + ran, z>>
    BY <1>4, <1>5 DEF Uptime!Move, Uptime!Movable
  <2>2. CASE ran > 0
    <3>0. credited' = Append(credited, ran)
      BY <1>4, <1>8, <2>2
    <3>1. Uptime!Sum(credited') = Uptime!Sum(credited) + ran
      BY <1>1, <3>0, SumAppended
    <3>2. IsLongest(z, credited')
      BY <1>1, <1>2, <3>0, LongestAppended
    <3> QED BY <2>1, <3>1, <3>2
  <2>3. CASE ran = 0
    <3>1. z = x
      BY <2>3
    <3>2. Uptime!Sum(credited) + ran = Uptime!Sum(credited')
      BY <1>6, <1>8, <2>3
    <3> QED BY <1>2, <1>8, <2>1, <2>3, <3>1, <3>2
  <2> QED BY <1>1, <2>2, <2>3
<1>10. ~Uptime!Written(cuptime) => buptime' = <<Uptime!Sum(credited'), x>> /\ IsLongest(x, credited')
  <2> SUFFICES ASSUME ~Uptime!Written(cuptime) PROVE buptime' = <<Uptime!Sum(credited'), x>> /\ IsLongest(x, credited')
    OBVIOUS
  <2>1. credited' = credited
    BY <1>1, <1>4, <1>8
  <2>2. buptime' = buptime
    BY DEF Uptime!Move, Uptime!Movable
  <2> QED BY <1>2, <1>4, <2>1, <2>2
<1>11. \E w \in Nat : buptime' = <<Uptime!Sum(credited'), w>> /\ IsLongest(w, credited')
  <2> HIDE DEF z
  <2> QED BY <1>5, <1>9, <1>10
<1>12. PICK w \in Nat : buptime' = <<Uptime!Sum(credited'), w>> /\ IsLongest(w, credited')
  BY <1>11
<1>13. Uptime!Longest(credited') = w
  BY <1>8, <1>12, LongestIs
<1>14. Uptime!CountedAtMostOnce'
  BY <1>1, <1>7, <1>12, <1>13 DEF Uptime!CountedAtMostOnce
<1> HIDE DEF z
<1> QED BY <1>1, <1>7, <1>8, <1>12, <1>14 DEF Counting

(* tuptime writes what the sessions before and this one add up to.         *)
LEMMA WriteCounts ==
  ASSUME Counting, Uptime!Write
  PROVE  Counting'
<1>1. /\ uptime \in Nat /\ credited \in Seq(Nat) /\ ran' = uptime
      /\ UNCHANGED <<buptime, uptime, credited>> /\ ~Uptime!Runs' /\ stage' # "cut"
  BY DEF Counting, Uptime!Write, Uptime!Runs
<1>2. PICK x \in Nat : IsLongest(x, credited)
  BY DEF Counting
<1>3. Uptime!Longest(credited) = x
  BY <1>1, <1>2, LongestIs
<1>4. buptime = <<Uptime!Sum(credited), x>> /\ Uptime!Sum(credited) \in Nat
  BY <1>1, <1>3, SumAppended DEF Counting, Uptime!CountedAtMostOnce
<1>5. Uptime!Written(buptime)
  BY <1>4, FilesWritten
<1>6. cuptime' = <<Uptime!Sum(credited) + uptime, Uptime!Max({uptime, x})>>
  <2>1. Uptime!Totals = {<<b[1] + uptime, Uptime!Max({uptime, b[2]})>> : b \in {buptime}}
    BY <1>5 DEF Uptime!Totals
  <2>2. cuptime' \in Uptime!Totals
    BY DEF Uptime!Write
  <2>3. buptime[1] = Uptime!Sum(credited) /\ buptime[2] = x
    BY <1>4
  <2> QED BY <2>1, <2>2, <2>3
<1>7. {uptime, x} = {x, uptime}
  OBVIOUS
<1>8. Uptime!Longest(credited') = x /\ IsLongest(x, credited')
  BY <1>1, <1>2, <1>3
<1>9. Uptime!Sum(credited) + uptime \in Nat
  BY <1>1, <1>4
<1>10. Uptime!Written(cuptime')
  BY <1>6, <1>9, FilesWritten
<1>11. Uptime!CountedAtMostOnce'
  BY <1>1, <1>4, <1>6, <1>7, <1>8, <1>10 DEF Uptime!CountedAtMostOnce
<1> QED BY <1>1, <1>2, <1>8, <1>11 DEF Counting

THEOREM Counts == Uptime!Spec => []Counting
<1>1. Uptime!Init => Counting
  BY CountingBegins
<1>2. Counting /\ [Uptime!Next]_Uptime!vars => Counting'
  <2> SUFFICES ASSUME Counting, [Uptime!Next]_Uptime!vars PROVE Counting'
    OBVIOUS
  <2>1. uptime \in Nat /\ ran \in Nat
    BY DEF Counting
  <2>2. ASSUME UNCHANGED <<buptime, cuptime, ran, credited>>, uptime' \in Nat,
               (Uptime!Runs \/ stage = "cut") <=> (Uptime!Runs' \/ stage' = "cut")
        PROVE  Counting'
    BY <2>2 DEF Counting, Uptime!CountedAtMostOnce, IsLongest
  <2>3. ASSUME NEW for \in {"cron", "halt"}, Uptime!Truncate(for)
        PROVE  Counting'
    <3>1. /\ cuptime' = Uptime!Empty /\ UNCHANGED <<buptime, uptime, ran, credited>>
          /\ Uptime!Runs'
      BY <2>3 DEF Uptime!Truncate, Uptime!Runs
    <3>2. ~Uptime!Written(cuptime')
      BY <3>1 DEF Uptime!Written
    <3> QED BY <3>1, <3>2 DEF Counting, Uptime!CountedAtMostOnce
  <2>4. CASE Uptime!Start
    <3>1. uptime' \in Nat /\ Uptime!Move /\ ~Uptime!Runs
      BY <2>4 DEF Uptime!Start, Uptime!Runs
    <3>2. ~Uptime!Runs' /\ stage' # "cut"
      BY <2>4 DEF Uptime!Start, Uptime!Runs
    <3> QED BY <3>1, <3>2, MoveCounts
  <2>5. CASE Uptime!Cron
    BY <2>1, <2>2, <2>5 DEF Uptime!Cron, Uptime!Runs
  <2>6. CASE Uptime!Tick
    BY <2>1, <2>2, <2>6 DEF Uptime!Tick, Uptime!Runs
  <2>7. CASE Uptime!Halt
    BY <2>1, <2>7, MoveCounts DEF Uptime!Halt, Uptime!Runs
  <2>8. CASE Uptime!PowerFails
    BY <2>1, <2>2, <2>8 DEF Uptime!PowerFails, Uptime!Runs
  <2>9. CASE UNCHANGED Uptime!vars
    BY <2>1, <2>2, <2>9 DEF Uptime!vars, Uptime!Runs
  <2>10. Uptime!Truncate("cron") \/ Uptime!Truncate("halt") => Counting'
    BY <2>3
  <2> QED BY <2>4, <2>5, <2>6, <2>7, <2>8, <2>9, <2>10, WriteCounts DEF Uptime!Next
<1> QED BY <1>1, <1>2, PTL DEF Uptime!Spec

(* In MoreTools, what runs as tuptime is Uptime, and the others never become it. *)
LEMMA UptimeAlone ==
  /\ MoreSpec /\ which = "tuptime" => Uptime!Spec
  /\ MoreSpec /\ ~(which = "tuptime") => []~(which = "tuptime")
<1>1. MoreInit /\ which = "tuptime" => Uptime!Init
  BY DEF MoreInit
<1>2. which = "tuptime" /\ [MoreNext]_ofMore => (which = "tuptime")' /\ [Uptime!Next]_Uptime!vars
  BY DEF MoreNext, ofMore, ofUptime, Uptime!vars
<1>3. ~(which = "tuptime") /\ [MoreNext]_ofMore => ~(which = "tuptime")'
  BY DEF MoreNext, ofMore
<1> QED BY <1>1, <1>2, <1>3, PTL DEF MoreSpec, Uptime!Spec

(* The total is the sum of the sessions that were written, each counted    *)
(* once, and the biggest the longest of them, but for those in which the   *)
(* power failed between the emptying of the file and its being written.    *)
THEOREM CountsAtMostOnce == MoreSpec => []CountedAtMostOnce
<1>1. Counting => Uptime!CountedAtMostOnce
  BY DEF Counting
<1> QED BY <1>1, Counts, UptimeAlone, PTL DEF CountedAtMostOnce

-----------------------------------------------------------------------------
(* Sequences put together one after the other.                             *)
Joins(f, C, s) == \A n \in 0..Len(s) : f[n] \in Seq(C) /\ f[n] = IF n = 0 THEN <<>> ELSE f[n - 1] \o s[n]

LEMMA JoinedIs ==
  ASSUME NEW C, NEW s \in Seq(Seq(C))
  PROVE  \E f : Joins(f, C, s) /\ Search!FlattenSeq(s) = f[Len(s)]
<1> DEFINE step == [x \in Seq(C) |-> [y \in Seq(C) |-> x \o y]]
           Is(f) == f = [n \in 1..Len(s) |-> IF n = 1 THEN s[n] ELSE f[n - 1] \o s[n]]
<1>1. \A x, y \in Seq(C) : step[x][y] \in Seq(C) /\ step[x][y] = x \o y
  BY ConcatProperties
<1>2. Len(s) \in Nat /\ \A n \in 1..Len(s) : s[n] \in Seq(C)
  OBVIOUS
<1>3. PICK h : Recurs(h, Seq(C), <<>>, step, s)
  <2>1. Stays(step, Seq(C), Seq(C))
    BY <1>1 DEF Stays
  <2>2. <<>> \in Seq(C)
    OBVIOUS
  <2> HIDE DEF step, Is
  <2> QED BY <2>1, <2>2, Recursion
<1> HIDE DEF step
<1>4. Joins(h, C, s)
  <2> SUFFICES ASSUME NEW n \in 0..Len(s)
               PROVE  h[n] \in Seq(C) /\ h[n] = IF n = 0 THEN <<>> ELSE h[n - 1] \o s[n]
    BY DEF Joins
  <2>1. h[n] \in Seq(C) /\ h[n] = IF n = 0 THEN <<>> ELSE step[h[n - 1]][s[n]]
    BY <1>3 DEF Recurs
  <2>2. CASE n # 0
    <3>1. n \in 1..Len(s) /\ n - 1 \in 0..Len(s)
      BY <1>2, <2>2
    <3>2. h[n - 1] \in Seq(C) /\ s[n] \in Seq(C)
      BY <1>2, <1>3, <3>1 DEF Recurs
    <3> QED BY <1>1, <2>1, <2>2, <3>2
  <2> QED BY <2>1, <2>2
<1>5. CASE Len(s) = 0
  <2>1. s = <<>> /\ Search!FlattenSeq(s) = s
    BY <1>5 DEF Search!FlattenSeq
  <2>2. h[0] = <<>>
    BY <1>2, <1>4 DEF Joins
  <2> QED BY <1>4, <1>5, <2>1, <2>2
<1>6. CASE Len(s) # 0
  <2>1. h[0] = <<>> /\ h[1] = s[1]
    <3>1. h[0] = <<>> /\ h[1] = h[0] \o s[1] /\ s[1] \in Seq(C)
      <4>1. 0 \in 0..Len(s) /\ 1 \in 0..Len(s) /\ 1 \in 1..Len(s) /\ 1 - 1 = 0 /\ 1 # 0
        BY <1>2, <1>6
      <4> QED BY <1>2, <1>4, <4>1 DEF Joins
    <3> QED BY <3>1, ConcatEmptySeq
  <2>2. \A n \in 1..Len(s) : h[n] = IF n = 1 THEN s[n] ELSE h[n - 1] \o s[n]
    <3> SUFFICES ASSUME NEW n \in 1..Len(s), n # 1 PROVE h[n] = h[n - 1] \o s[n]
      BY <2>1
    <3>1. n \in 0..Len(s) /\ n # 0
      BY <1>2
    <3> QED BY <1>4, <3>1 DEF Joins
  <2>3. Is([n \in 1..Len(s) |-> h[n]])
    <3> SUFFICES ASSUME NEW n \in 1..Len(s), n # 1 PROVE n - 1 \in 1..Len(s)
      BY <2>1, <2>2
    <3> QED BY <1>2
  <2> DEFINE g == CHOOSE f : Is(f)
  <2>4. Is(g)
    <3> HIDE DEF Is
    <3> QED BY <2>3
  <2>5. Search!FlattenSeq(s) = g[Len(s)]
    BY <1>6 DEF Search!FlattenSeq
  <2> HIDE DEF g
  <2>6. \A n \in 1..Len(s) : g[n] = IF n = 1 THEN s[n] ELSE g[n - 1] \o s[n]
    BY <2>4
  <2> DEFINE e == [n \in 0..Len(s) |-> IF n = 0 THEN <<>> ELSE g[n]]
  <2>7. e[0] = <<>> /\ \A n \in 1..Len(s) : e[n] = g[n]
    BY <1>2
  <2> HIDE DEF e
  <2>8. GoOnAlike(e, h, Len(s))
    <3> SUFFICES ASSUME NEW n \in 1..Len(s), e[n - 1] = h[n - 1] PROVE e[n] = h[n]
      BY DEF GoOnAlike
    <3>1. CASE n = 1
      BY <2>1, <2>6, <2>7, <3>1
    <3>2. CASE n # 1
      <4>1. n - 1 \in 1..Len(s)
        BY <1>2, <3>2
      <4>2. e[n] = g[n] /\ e[n - 1] = g[n - 1] /\ h[n] = h[n - 1] \o s[n]
        BY <2>2, <2>7, <3>2, <4>1
      <4>3. g[n] = g[n - 1] \o s[n]
        BY <2>6, <3>2
      <4> QED BY <4>2, <4>3
    <3> QED BY <3>1, <3>2
  <2>9. Alike(e, h, Len(s))
    BY <1>2, <2>1, <2>7, <2>8, AlikeTo
  <2>10. Len(s) \in 0..Len(s) /\ Len(s) \in 1..Len(s)
    BY <1>2, <1>6
  <2> QED BY <1>4, <2>5, <2>7, <2>9, <2>10 DEF Alike
<1> QED BY <1>5, <1>6

LEMMA JoinedAppended ==
  ASSUME NEW C, NEW s \in Seq(Seq(C)), NEW x \in Seq(C)
  PROVE  Search!FlattenSeq(s) \in Seq(C) /\ Search!FlattenSeq(Append(s, x)) = Search!FlattenSeq(s) \o x
<1> DEFINE t == Append(s, x)
<1>1. /\ t \in Seq(Seq(C)) /\ Len(t) = Len(s) + 1 /\ Len(s) \in Nat
      /\ t[Len(s) + 1] = x /\ \A n \in 1..Len(s) : t[n] = s[n]
  OBVIOUS
<1> HIDE DEF t
<1>2. PICK f : Joins(f, C, s) /\ Search!FlattenSeq(s) = f[Len(s)]
  BY JoinedIs
<1>3. PICK g : Joins(g, C, t) /\ Search!FlattenSeq(t) = g[Len(t)]
  BY <1>1, JoinedIs
<1>4. \A n \in 0..Len(s) : g[n] = f[n]
  <2>1. g[0] = f[0]
    BY <1>1, <1>2, <1>3 DEF Joins
  <2>2. GoOnAlike(g, f, Len(s))
    BY <1>1, <1>2, <1>3 DEF GoOnAlike, Joins
  <2> QED BY <1>1, <2>1, <2>2, AlikeTo DEF Alike
<1>5. g[Len(t)] = f[Len(s)] \o x
  <2>1. Len(t) \in 0..Len(t) /\ Len(t) # 0 /\ Len(t) - 1 = Len(s) /\ Len(s) \in 0..Len(s)
    BY <1>1
  <2>2. g[Len(t)] = g[Len(s)] \o t[Len(t)]
    BY <1>3, <2>1 DEF Joins
  <2> QED BY <1>1, <1>4, <2>1, <2>2
<1>6. f[Len(s)] \in Seq(C)
  BY <1>1, <1>2 DEF Joins
<1> QED BY <1>2, <1>3, <1>5, <1>6 DEF t

LEMMA JoinedNone == Search!FlattenSeq(<<>>) = <<>>
BY DEF Search!FlattenSeq

(* The characters.  That those of the module are strings is not something  *)
(* the provers know.                                                       *)
Commands == Search!NumberCommands \cup Search!MoveCommands \cup Search!BrowseCommands \cup Search!PlaylistCommands
  \cup {"playlistdelete", "playlistmove", "list", "find", "search", "playlistfind", "playlistsearch", "count"}
Symbol == STRING \cup Search!Special \cup {Search!Space, Search!LF} \cup Commands \cup Search!Tags

Readings ==
  [words : Seq(Seq(Symbol)), word : Seq(Symbol), mode : {"blank", "word", "quoted", "escaped", "over"}]

LEMMA ReadsOne ==
  ASSUME NEW words, NEW word, NEW c
  PROVE  /\ Search!MpdReads(Search!Reading(words, word, "escaped"), c) = Search!Reading(words, Append(word, c), "quoted")
         /\ Search!MpdReads(Search!Reading(words, word, "quoted"), c) =
              IF c = Search!Backslash THEN Search!Reading(words, word, "escaped")
              ELSE IF c = Search!Quote THEN Search!Reading(words, word, "word")
              ELSE Search!Reading(words, Append(word, c), "quoted")
         /\ Search!MpdReads(Search!Reading(words, word, "word"), c) =
              IF c = Search!LF THEN Search!Reading(Append(words, word), <<>>, "over")
              ELSE IF c = Search!Space THEN Search!Reading(Append(words, word), <<>>, "blank")
              ELSE Search!Reading(words, Append(word, c), "word")
         /\ Search!MpdReads(Search!Reading(words, word, "blank"), c) =
              IF c = Search!LF THEN Search!Reading(Append(words, word), <<>>, "over")
              ELSE IF c = Search!Quote THEN Search!Reading(words, word, "quoted")
              ELSE Search!Reading(words, Append(word, c), "word")
<1> DEFINE R(m) == Search!Reading(words, word, m)
<1>1. Search!MpdReads(R("escaped"), c) = Search!Reading(words, Append(word, c), "quoted")
  BY DEF Search!MpdReads, Search!Reading
<1>2. Search!MpdReads(R("quoted"), c) =
              IF c = Search!Backslash THEN Search!Reading(words, word, "escaped")
              ELSE IF c = Search!Quote THEN Search!Reading(words, word, "word")
              ELSE Search!Reading(words, Append(word, c), "quoted")
  BY DEF Search!MpdReads, Search!Reading, Search!Backslash, Search!Quote
<1>3. Search!MpdReads(R("word"), c) =
              IF c = Search!LF THEN Search!Reading(Append(words, word), <<>>, "over")
              ELSE IF c = Search!Space THEN Search!Reading(Append(words, word), <<>>, "blank")
              ELSE Search!Reading(words, Append(word, c), "word")
  BY DEF Search!MpdReads, Search!Reading, Search!Space, Search!LF
<1>4. Search!MpdReads(R("blank"), c) =
              IF c = Search!LF THEN Search!Reading(Append(words, word), <<>>, "over")
              ELSE IF c = Search!Quote THEN Search!Reading(words, word, "quoted")
              ELSE Search!Reading(words, Append(word, c), "word")
  BY DEF Search!MpdReads, Search!Reading, Search!LF, Search!Quote
<1> QED BY <1>1, <1>2, <1>3, <1>4

LEMMA ReadsTyped ==
  ASSUME NEW r \in Readings, NEW c \in Symbol
  PROVE  Search!MpdReads(r, c) \in Readings
<1>1. /\ r.words \in Seq(Seq(Symbol)) /\ r.word \in Seq(Symbol)
      /\ Append(r.word, c) \in Seq(Symbol) /\ Append(r.words, r.word) \in Seq(Seq(Symbol))
      /\ <<>> \in Seq(Symbol)
  BY DEF Readings
<1>2. \A ws \in Seq(Seq(Symbol)), w \in Seq(Symbol), m \in {"blank", "word", "quoted", "escaped", "over"} :
        Search!Reading(ws, w, m) \in Readings
  BY DEF Search!Reading, Readings
<1>3. \/ \E m \in {"escaped", "word"} : Search!MpdReads(r, c) = Search!Reading(r.words, r.word, m)
      \/ Search!MpdReads(r, c) = Search!Reading(r.words, r.word, "quoted")
      \/ \E m \in {"word", "quoted"} : Search!MpdReads(r, c) = Search!Reading(r.words, Append(r.word, c), m)
      \/ \E m \in {"blank", "over"} : Search!MpdReads(r, c) = Search!Reading(Append(r.words, r.word), <<>>, m)
  BY Zenon DEF Search!MpdReads
<1> QED BY <1>1, <1>2, <1>3

ReadsTo(f, s) ==
  \A n \in 0..Len(s) :
    f[n] \in Readings /\ f[n] = IF n = 0 THEN Search!Reading(<<>>, <<>>, "blank") ELSE Search!MpdReads(f[n - 1], s[n])

LEMMA StartTyped == Search!Reading(<<>>, <<>>, "blank") \in Readings
BY DEF Search!Reading, Readings

LEMMA ReadIs ==
  ASSUME NEW s \in Seq(Symbol)
  PROVE  \E f : ReadsTo(f, s) /\ Search!MpdRead(s) = f[Len(s)]
<1> DEFINE step == [r \in Readings |-> [c \in Symbol |-> Search!MpdReads(r, c)]]
           start == Search!Reading(<<>>, <<>>, "blank")
           Is(f) == f = [n \in 0..Len(s) |-> IF n = 0 THEN start ELSE Search!MpdReads(f[n - 1], s[n])]
<1>1. \A r \in Readings, c \in Symbol : step[r][c] \in Readings /\ step[r][c] = Search!MpdReads(r, c)
  BY ReadsTyped
<1>2. Len(s) \in Nat /\ \A n \in 1..Len(s) : s[n] \in Symbol
  OBVIOUS
<1>3. PICK h : Recurs(h, Readings, start, step, s)
  <2>1. Stays(step, Readings, Symbol)
    BY <1>1 DEF Stays
  <2>2. start \in Readings
    BY StartTyped
  <2> HIDE DEF step, Is, start
  <2> QED BY <2>1, <2>2, Recursion
<1> HIDE DEF step
<1>4. ReadsTo(h, s)
  <2> SUFFICES ASSUME NEW n \in 0..Len(s)
               PROVE  h[n] \in Readings /\ h[n] = IF n = 0 THEN start ELSE Search!MpdReads(h[n - 1], s[n])
    BY DEF ReadsTo
  <2>1. h[n] \in Readings /\ h[n] = IF n = 0 THEN start ELSE step[h[n - 1]][s[n]]
    BY <1>3 DEF Recurs
  <2>2. CASE n # 0
    <3>1. n \in 1..Len(s) /\ n - 1 \in 0..Len(s)
      BY <1>2, <2>2
    <3>2. h[n - 1] \in Readings /\ s[n] \in Symbol
      BY <1>2, <1>3, <3>1 DEF Recurs
    <3> QED BY <1>1, <2>1, <2>2, <3>2
  <2> QED BY <2>1, <2>2
<1> HIDE DEF start
<1>5. Is([n \in 0..Len(s) |-> h[n]])
  <2>1. \A n \in 0..Len(s) : h[n] = IF n = 0 THEN start ELSE Search!MpdReads(h[n - 1], s[n])
    BY <1>4 DEF ReadsTo, start
  <2>2. \A n \in 0..Len(s) : n # 0 => n - 1 \in 0..Len(s)
    BY <1>2
  <2> QED BY <2>1, <2>2
<1> DEFINE g == CHOOSE f : Is(f)
<1>6. Is(g)
  <2> HIDE DEF Is
  <2> QED BY <1>5
<1>7. Search!MpdRead(s) = g[Len(s)]
  BY DEF Search!MpdRead, start
<1> HIDE DEF g
<1>8. \A n \in 0..Len(s) : g[n] = IF n = 0 THEN start ELSE Search!MpdReads(g[n - 1], s[n])
  BY <1>6
<1> HIDE DEF Is
<1>9. \A n \in 0..Len(s) : g[n] = h[n]
  <2>1. g[0] = h[0] /\ GoOnAlike(g, h, Len(s))
    BY <1>2, <1>4, <1>8 DEF GoOnAlike, ReadsTo, start
  <2> QED BY <1>2, <2>1, AlikeTo DEF Alike
<1>10. g[Len(s)] = h[Len(s)]
  BY <1>2, <1>9
<1> QED BY <1>4, <1>7, <1>10

LEMMA ReadNone == Search!MpdRead(<<>>) = Search!Reading(<<>>, <<>>, "blank")
<1>1. <<>> \in Seq(Symbol) /\ Len(<<>>) = 0
  OBVIOUS
<1>2. PICK f : ReadsTo(f, <<>>) /\ Search!MpdRead(<<>>) = f[Len(<<>>)]
  BY <1>1, ReadIs
<1> QED BY <1>1, <1>2 DEF ReadsTo

LEMMA ReadAppended ==
  ASSUME NEW s \in Seq(Symbol), NEW c \in Symbol
  PROVE  /\ Search!MpdRead(s) \in Readings
         /\ Search!MpdRead(Append(s, c)) = Search!MpdReads(Search!MpdRead(s), c)
<1> DEFINE t == Append(s, c)
<1>1. /\ t \in Seq(Symbol) /\ Len(t) = Len(s) + 1 /\ Len(s) \in Nat
      /\ t[Len(s) + 1] = c /\ \A n \in 1..Len(s) : t[n] = s[n]
  OBVIOUS
<1> HIDE DEF t
<1>2. PICK f : ReadsTo(f, s) /\ Search!MpdRead(s) = f[Len(s)]
  BY ReadIs
<1>3. PICK g : ReadsTo(g, t) /\ Search!MpdRead(t) = g[Len(t)]
  BY <1>1, ReadIs
<1>4. \A n \in 0..Len(s) : g[n] = f[n]
  <2>1. g[0] = f[0]
    BY <1>1, <1>2, <1>3 DEF ReadsTo
  <2>2. GoOnAlike(g, f, Len(s))
    BY <1>1, <1>2, <1>3 DEF GoOnAlike, ReadsTo
  <2> QED BY <1>1, <2>1, <2>2, AlikeTo DEF Alike
<1>5. g[Len(t)] = Search!MpdReads(f[Len(s)], c)
  <2>1. Len(t) \in 0..Len(t) /\ Len(t) # 0 /\ Len(t) - 1 = Len(s) /\ Len(s) \in 0..Len(s)
    BY <1>1
  <2>2. g[Len(t)] = Search!MpdReads(g[Len(s)], t[Len(t)])
    BY <1>3, <2>1 DEF ReadsTo
  <2> QED BY <1>1, <1>4, <2>1, <2>2
<1>6. f[Len(s)] \in Readings
  BY <1>1, <1>2 DEF ReadsTo
<1> QED BY <1>2, <1>3, <1>5, <1>6 DEF t

LEMMA Symbols ==
  /\ Search!Quote \in Symbol /\ Search!Backslash \in Symbol /\ Search!Space \in Symbol /\ Search!LF \in Symbol
  /\ Search!Quote # Search!Backslash /\ Search!Space # Search!LF /\ Search!Space # Search!Quote /\ Search!LF # Search!Quote
  /\ \A c \in Commands \cup Search!Tags : c \in Symbol /\ c \notin {Search!LF, Search!Space, Search!Quote}
<1>1. Search!Quote \in Symbol /\ Search!Backslash \in Symbol /\ Search!Space \in Symbol /\ Search!LF \in Symbol
  BY DEF Symbol, Search!Special
<1>2. Search!Quote # Search!Backslash /\ Search!Space # Search!LF /\ Search!Space # Search!Quote /\ Search!LF # Search!Quote
  BY DEF Search!Quote, Search!Backslash, Search!Space, Search!LF
<1>3. \A c \in Commands \cup Search!Tags : c \in Symbol
  BY DEF Symbol
<1>4. \A c \in Commands \cup Search!Tags : c \notin {Search!LF, Search!Space, Search!Quote}
  BY DEF Commands, Search!Tags, Search!NumberCommands, Search!MoveCommands, Search!BrowseCommands, Search!PlaylistCommands, Search!LF, Search!Space, Search!Quote
<1> QED BY <1>1, <1>2, <1>3, <1>4

At(line, words, word, m) ==
  /\ line \in Seq(Symbol) /\ words \in Seq(Seq(Symbol)) /\ word \in Seq(Symbol)
  /\ Search!MpdRead(line) = Search!Reading(words, word, m)

Escaped(c) == IF c \in Search!Special THEN <<Search!Backslash, c>> ELSE <<c>>

LEMMA PiecesIn ==
  ASSUME NEW name \in Seq(Symbol)
  PROVE  [i \in DOMAIN name |-> Escaped(name[i])] \in Seq(Seq(Symbol))
<1>1. Len(name) \in Nat /\ DOMAIN name = 1..Len(name)
  OBVIOUS
<1>2. \A i \in 1..Len(name) : Escaped(name[i]) \in Seq(Symbol)
  <2> SUFFICES ASSUME NEW i \in 1..Len(name) PROVE Escaped(name[i]) \in Seq(Symbol)
    OBVIOUS
  <2>1. name[i] \in Symbol /\ Search!Backslash \in Symbol
    BY Symbols
  <2> QED BY <2>1 DEF Escaped
<1>3. \A n \in Nat : \A f : (\A i \in 1..n : f[i] \in Seq(Symbol)) =>
        [i \in 1..n |-> f[i]] \in Seq(Seq(Symbol))
  OBVIOUS
<1> DEFINE f == [i \in 1..Len(name) |-> Escaped(name[i])]
<1>4. f = [i \in 1..Len(name) |-> f[i]] /\ \A i \in 1..Len(name) : f[i] \in Seq(Symbol)
  BY <1>2
<1>5. f \in Seq(Seq(Symbol))
  <2> HIDE DEF f
  <2> QED BY <1>1, <1>3, <1>4
<1> QED BY <1>1, <1>5

LEMMA SanitizeAppended ==
  ASSUME NEW name \in Seq(Symbol), NEW c \in Symbol
  PROVE  /\ Search!Sanitize(name) \in Seq(Symbol)
         /\ Search!Sanitize(Append(name, c)) = Search!Sanitize(name) \o Escaped(c)
<1> DEFINE more == Append(name, c)
           pieces == [i \in DOMAIN name |-> Escaped(name[i])]
           after == [i \in DOMAIN more |-> Escaped(more[i])]
<1>1. /\ more \in Seq(Symbol) /\ Len(name) \in Nat /\ DOMAIN name = 1..Len(name)
      /\ DOMAIN more = 1..Len(name) + 1
      /\ more[Len(name) + 1] = c /\ \A i \in 1..Len(name) : more[i] = name[i]
  OBVIOUS
<1>2. pieces \in Seq(Seq(Symbol)) /\ after \in Seq(Seq(Symbol))
  BY <1>1, PiecesIn
<1>3. /\ Len(pieces) = Len(name) /\ \A i \in 1..Len(name) : pieces[i] = Escaped(name[i])
      /\ Len(after) = Len(name) + 1
      /\ \A i \in 1..Len(name) + 1 : after[i] = Escaped(more[i])
  <2>1. DOMAIN pieces = 1..Len(name) /\ DOMAIN after = 1..Len(name) + 1
    BY <1>1
  <2>2. Len(pieces) = Len(name) /\ Len(after) = Len(name) + 1
    BY <1>1, <1>2, <2>1, LenProperties
  <2> QED BY <1>1, <2>2
<1>4. Escaped(c) \in Seq(Symbol)
  <2>1. Search!Backslash \in Symbol
    BY Symbols
  <2> QED BY <2>1 DEF Escaped
<1> HIDE DEF more, pieces, after
<1>5. after = Append(pieces, Escaped(c))
  <2>1. /\ Append(pieces, Escaped(c)) \in Seq(Seq(Symbol))
        /\ Len(Append(pieces, Escaped(c))) = Len(pieces) + 1
        /\ \A i \in 1..Len(pieces) : Append(pieces, Escaped(c))[i] = pieces[i]
        /\ Append(pieces, Escaped(c))[Len(pieces) + 1] = Escaped(c)
    BY <1>2, <1>4, AppendProperties
  <2>2. \A i \in 1..Len(name) + 1 : after[i] = Append(pieces, Escaped(c))[i]
    <3> SUFFICES ASSUME NEW i \in 1..Len(name) + 1 PROVE after[i] = Append(pieces, Escaped(c))[i]
      OBVIOUS
    <3>1. CASE i = Len(name) + 1
      <4>1. after[i] = Escaped(c)
        BY <1>1, <1>3, <3>1
      <4>2. Append(pieces, Escaped(c))[i] = Escaped(c)
        BY <1>3, <2>1, <3>1
      <4> QED BY <4>1, <4>2
    <3>2. CASE i # Len(name) + 1
      <4>1. i \in 1..Len(name)
        BY <1>1, <3>2
      <4> QED BY <1>1, <1>3, <2>1, <4>1
    <3> QED BY <3>1, <3>2
  <2>3. Len(after) = Len(Append(pieces, Escaped(c)))
    BY <1>3, <2>1
  <2> QED BY <1>2, <1>3, <2>1, <2>2, <2>3, SeqEqual
<1>6. Search!Sanitize(name) = Search!FlattenSeq(pieces) /\ Search!Sanitize(more) = Search!FlattenSeq(after)
  BY DEF Search!Sanitize, Escaped, pieces, after
<1> QED BY <1>2, <1>4, <1>5, <1>6, JoinedAppended DEF more

LEMMA SanitizeNone == Search!Sanitize(<<>>) = <<>>
<1>1. [i \in DOMAIN <<>> |-> IF <<>>[i] \in Search!Special THEN <<Search!Backslash, <<>>[i]>> ELSE <<<<>>[i]>>] = <<>>
  OBVIOUS
<1> QED BY <1>1, JoinedNone DEF Search!Sanitize

LEMMA AtNext ==
  ASSUME NEW line, NEW words, NEW word, NEW m, At(line, words, word, m), NEW c \in Symbol
  PROVE  /\ line \o <<c>> \in Seq(Symbol)
         /\ Search!MpdRead(line \o <<c>>) = Search!MpdReads(Search!Reading(words, word, m), c)
         /\ Append(word, c) \in Seq(Symbol) /\ Append(words, word) \in Seq(Seq(Symbol))
<1>1. line \in Seq(Symbol) /\ words \in Seq(Seq(Symbol)) /\ word \in Seq(Symbol)
  BY DEF At
<1>2. line \o <<c>> = Append(line, c) /\ Append(line, c) \in Seq(Symbol)
  BY <1>1, AppendIsConcat, AppendProperties
<1>3. Search!MpdRead(line) = Search!Reading(words, word, m)
  BY DEF At
<1>4. Search!MpdRead(Append(line, c)) = Search!MpdReads(Search!MpdRead(line), c)
  BY <1>1, ReadAppended
<1>5. Append(word, c) \in Seq(Symbol) /\ Append(words, word) \in Seq(Seq(Symbol))
  BY <1>1, AppendProperties
<1> QED BY <1>2, <1>3, <1>4, <1>5

LEMMA TwoOf ==
  ASSUME NEW a, NEW b
  PROVE  <<a>> \o <<b>> = <<a, b>>
<1>1. /\ <<a>> \in Seq({a, b}) /\ <<b>> \in Seq({a, b}) /\ Len(<<a>>) = 1 /\ Len(<<b>>) = 1
      /\ <<a>>[1] = a /\ <<b>>[1] = b
  OBVIOUS
<1>2. /\ <<a, b>> \in Seq({a, b}) /\ Len(<<a, b>>) = 2
      /\ <<a, b>>[1] = a /\ <<a, b>>[2] = b
  OBVIOUS
<1> DEFINE one == <<a>>
           other == <<b>>
           both == <<a, b>>
<1> HIDE DEF one, other, both
<1>3. /\ one \in Seq({a, b}) /\ other \in Seq({a, b}) /\ Len(one) = 1 /\ Len(other) = 1
      /\ one[1] = a /\ other[1] = b
      /\ both \in Seq({a, b}) /\ Len(both) = 2 /\ both[1] = a /\ both[2] = b
  BY <1>1, <1>2 DEF one, other, both
<1>4. /\ one \o other \in Seq({a, b}) /\ Len(one \o other) = 2
      /\ \A i \in 1..2 : (one \o other)[i] = IF i <= 1 THEN one[i] ELSE other[i - 1]
  <2> DEFINE S == {a, b}
  <2>1. one \in Seq(S) /\ other \in Seq(S)
    BY <1>3
  <2> HIDE DEF S
  <2>2. one \o other \in Seq(S) /\ Len(one \o other) = Len(one) + Len(other)
        /\ \A i \in 1..Len(one) + Len(other) :
             (one \o other)[i] = IF i <= Len(one) THEN one[i] ELSE other[i - Len(one)]
    BY <2>1, ConcatProperties
  <2>3. Len(one) = 1 /\ Len(one) + Len(other) = 2
    BY <1>3
  <2> QED BY <2>2, <2>3 DEF S
<1>5. \A i \in 1..2 : (one \o other)[i] = both[i]
  BY <1>3, <1>4
<1>6. one \o other = both
  BY <1>3, <1>4, <1>5, SeqEqual
<1> QED BY <1>6 DEF one, other, both

LEMMA AtEscaped ==
  ASSUME NEW line, NEW words, NEW word, At(line, words, word, "quoted"), NEW c \in Symbol
  PROVE  At(line \o Escaped(c), words, Append(word, c), "quoted")
<1>1. line \in Seq(Symbol) /\ words \in Seq(Seq(Symbol)) /\ word \in Seq(Symbol)
  BY DEF At
<1>2. CASE c \notin Search!Special
  <2>1. c # Search!Quote /\ c # Search!Backslash /\ Escaped(c) = <<c>>
    BY <1>2 DEF Search!Special, Escaped
  <2>2. Search!MpdReads(Search!Reading(words, word, "quoted"), c) = Search!Reading(words, Append(word, c), "quoted")
    BY <2>1, ReadsOne
  <2> QED BY <1>1, <2>1, <2>2, AtNext DEF At
<1>3. CASE c \in Search!Special
  <2>1. Escaped(c) = <<Search!Backslash, c>> /\ Search!Backslash \in Symbol
    BY <1>3, Symbols DEF Escaped
  <2>2. Search!MpdReads(Search!Reading(words, word, "quoted"), Search!Backslash) = Search!Reading(words, word, "escaped")
    BY ReadsOne
  <2> DEFINE half == line \o <<Search!Backslash>>
  <2>3. At(half, words, word, "escaped")
    BY <1>1, <2>1, <2>2, AtNext DEF At
  <2>4. Search!MpdReads(Search!Reading(words, word, "escaped"), c) = Search!Reading(words, Append(word, c), "quoted")
    BY ReadsOne
  <2>5. line \o <<Search!Backslash, c>> = half \o <<c>>
    <3>1. <<Search!Backslash>> \in Seq(Symbol) /\ <<c>> \in Seq(Symbol)
      BY <2>1
    <3>2. (line \o <<Search!Backslash>>) \o <<c>> = line \o (<<Search!Backslash>> \o <<c>>)
      BY <1>1, <3>1, ConcatAssociative
    <3> QED BY <3>2, TwoOf
  <2> HIDE DEF half
  <2>6. At(half \o <<c>>, words, Append(word, c), "quoted")
    BY <1>1, <2>3, <2>4, AtNext DEF At
  <2> QED BY <2>1, <2>5, <2>6
<1> QED BY <1>2, <1>3

LEMMA AtSanitizedOne ==
  ASSUME NEW line \in Seq(Symbol), NEW words, NEW name \in Seq(Symbol), NEW c \in Symbol,
         At(line \o Search!Sanitize(name), words, name, "quoted")
  PROVE  At(line \o Search!Sanitize(Append(name, c)), words, Append(name, c), "quoted")
<1>1. At((line \o Search!Sanitize(name)) \o Escaped(c), words, Append(name, c), "quoted")
  BY AtEscaped
<1>2. Escaped(c) \in Seq(Symbol)
  <2>1. Search!Backslash \in Symbol
    BY Symbols
  <2> QED BY <2>1 DEF Escaped
<1>3. Search!Sanitize(name) \in Seq(Symbol)
  BY SanitizeAppended
<1>4. (line \o Search!Sanitize(name)) \o Escaped(c) = line \o (Search!Sanitize(name) \o Escaped(c))
  <2> DEFINE clean == Search!Sanitize(name)
             new == Escaped(c)
  <2>1. clean \in Seq(Symbol) /\ new \in Seq(Symbol) /\ line \in Seq(Symbol)
    BY <1>2, <1>3
  <2> HIDE DEF clean, new
  <2>2. (line \o clean) \o new = line \o (clean \o new)
    BY <2>1, ConcatAssociative
  <2> QED BY <2>2 DEF clean, new
<1>5. Search!Sanitize(Append(name, c)) = Search!Sanitize(name) \o Escaped(c)
  BY SanitizeAppended
<1> QED BY <1>1, <1>4, <1>5

(* MPD reads a name as it was before mpd_sanitizeArg.                      *)
LEMMA AtSanitized ==
  ASSUME NEW line, NEW words, At(line, words, <<>>, "quoted"), NEW name \in Seq(Symbol)
  PROVE  At(line \o Search!Sanitize(name), words, name, "quoted")
<1> DEFINE Known == {n \in Nat : \A s \in Seq(Symbol) :
                       Len(s) = n => At(line \o Search!Sanitize(s), words, s, "quoted")}
<1>1. line \in Seq(Symbol)
  BY DEF At
<1>2. 0 \in Known
  <2> SUFFICES ASSUME NEW s \in Seq(Symbol), Len(s) = 0
               PROVE  At(line \o Search!Sanitize(s), words, s, "quoted")
    OBVIOUS
  <2>1. s = <<>>
    BY EmptySeq
  <2>2. line \o <<>> = line
    BY <1>1, ConcatEmptySeq
  <2> QED BY <2>1, <2>2, SanitizeNone
<1>3. \A n \in Nat : n \in Known => n + 1 \in Known
  <2> SUFFICES ASSUME NEW n \in Nat, n \in Known, NEW s \in Seq(Symbol), Len(s) = n + 1
               PROVE  At(line \o Search!Sanitize(s), words, s, "quoted")
    OBVIOUS
  <2>1. s # <<>>
    OBVIOUS
  <2>2. PICK t \in Seq(Symbol), c \in Symbol : s = Append(t, c)
    BY <2>1, SequenceEmptyOrAppend
  <2>3. Len(t) = n
    <3>1. Len(s) = Len(t) + 1 /\ Len(t) \in Nat
      BY <2>2, AppendProperties, LenProperties
    <3> QED BY <3>1
  <2>4. At(line \o Search!Sanitize(t), words, t, "quoted")
    BY <2>3
  <2> HIDE DEF Known
  <2>5. At(line \o Search!Sanitize(Append(t, c)), words, Append(t, c), "quoted")
    BY <1>1, <2>4, AtSanitizedOne
  <2> QED BY <2>2, <2>5
<1>4. Nat \subseteq Known
  <2> HIDE DEF Known
  <2> QED BY <1>2, <1>3, Inductive
<1> QED BY <1>4

LEMMA AtQuote ==
  ASSUME NEW line, NEW words, At(line, words, <<>>, "blank"), NEW name \in Seq(Symbol)
  PROVE  At(line \o Search!Quoted(name), words, name, "word")
<1>1. line \in Seq(Symbol) /\ words \in Seq(Seq(Symbol)) /\ <<>> \in Seq(Symbol)
  BY DEF At
<1>2. Search!Quote \in Symbol /\ Search!Quote # Search!Backslash /\ Search!Quote # Search!LF
  BY Symbols
<1> DEFINE first == line \o <<Search!Quote>>
           second == first \o Search!Sanitize(name)
<1>3. At(first, words, <<>>, "quoted")
  <2>1. Search!MpdReads(Search!Reading(words, <<>>, "blank"), Search!Quote) = Search!Reading(words, <<>>, "quoted")
    BY <1>2, ReadsOne
  <2>2. /\ first \in Seq(Symbol)
        /\ Search!MpdRead(first) = Search!MpdReads(Search!Reading(words, <<>>, "blank"), Search!Quote)
    BY <1>2, AtNext
  <2> QED BY <1>1, <2>1, <2>2 DEF At
<1> HIDE DEF first
<1>4. At(second, words, name, "quoted")
  BY <1>3, AtSanitized
<1> HIDE DEF second
<1>5. At(second \o <<Search!Quote>>, words, name, "word")
  <2>1. Search!MpdReads(Search!Reading(words, name, "quoted"), Search!Quote) = Search!Reading(words, name, "word")
    BY <1>2, ReadsOne
  <2> QED BY <1>1, <1>2, <1>4, <2>1, AtNext DEF At
<1>6. line \o Search!Quoted(name) = second \o <<Search!Quote>>
  <2>1. <<Search!Quote>> \in Seq(Symbol) /\ Search!Sanitize(name) \in Seq(Symbol)
    BY <1>2, SanitizeAppended
  <2>2. second = line \o (<<Search!Quote>> \o Search!Sanitize(name))
    BY <1>1, <2>1, ConcatAssociative DEF second, first
  <2>3. <<Search!Quote>> \o Search!Sanitize(name) \in Seq(Symbol)
    BY <2>1, ConcatProperties
  <2> QED BY <1>1, <2>1, <2>2, <2>3, ConcatAssociative DEF Search!Quoted
<1> QED BY <1>5, <1>6

LEMMA AtSpace ==
  ASSUME NEW line, NEW words, NEW word, At(line, words, word, "word")
  PROVE  At(line \o <<Search!Space>>, Append(words, word), <<>>, "blank")
<1>1. Search!Space \in Symbol /\ Search!Space # Search!LF
  BY Symbols
<1>2. Search!MpdReads(Search!Reading(words, word, "word"), Search!Space) = Search!Reading(Append(words, word), <<>>, "blank")
  BY <1>1, ReadsOne
<1>3. <<>> \in Seq(Symbol)
  OBVIOUS
<1> QED BY <1>1, <1>2, <1>3, AtNext DEF At

(* An argument with the blank before it becomes one more word.             *)
LEMMA AtArgument ==
  ASSUME NEW line, NEW words, NEW word, At(line, words, word, "word"), NEW name \in Seq(Symbol)
  PROVE  At(line \o (<<Search!Space>> \o Search!Quoted(name)), Append(words, word), name, "word")
<1>1. At(line \o <<Search!Space>>, Append(words, word), <<>>, "blank")
  BY AtSpace
<1>2. At((line \o <<Search!Space>>) \o Search!Quoted(name), Append(words, word), name, "word")
  BY <1>1, AtQuote
<1>3. Search!Quoted(name) \in Seq(Symbol) /\ <<Search!Space>> \in Seq(Symbol) /\ line \in Seq(Symbol)
  <2>1. <<Search!Space>> \in Seq(Symbol) /\ <<Search!Quote>> \in Seq(Symbol) /\ Search!Sanitize(name) \in Seq(Symbol)
    BY Symbols, SanitizeAppended
  <2> QED BY <2>1, ConcatProperties DEF Search!Quoted, At
<1>4. (line \o <<Search!Space>>) \o Search!Quoted(name) = line \o (<<Search!Space>> \o Search!Quoted(name))
  BY <1>3, ConcatAssociative
<1> QED BY <1>2, <1>4

(* A command or a tag becomes a word of its own.                           *)
LEMMA AtToken ==
  ASSUME NEW line, NEW words, At(line, words, <<>>, "blank"), NEW c \in Commands \cup Search!Tags
  PROVE  At(line \o <<c>>, words, <<c>>, "word")
<1>1. c \in Symbol /\ c \notin {Search!LF, Search!Space, Search!Quote}
  BY Symbols
<1>2. Search!MpdReads(Search!Reading(words, <<>>, "blank"), c) = Search!Reading(words, Append(<<>>, c), "word")
  <2> DEFINE none == <<>>
  <2> HIDE DEF none
  <2>1. Search!MpdReads(Search!Reading(words, none, "blank"), c) = Search!Reading(words, Append(none, c), "word")
    BY <1>1, ReadsOne
  <2> QED BY <2>1 DEF none
<1>3. Append(<<>>, c) = <<c>> /\ <<c>> \in Seq(Symbol)
  BY <1>1
<1>4. line \o <<c>> \in Seq(Symbol) /\ Search!MpdRead(line \o <<c>>) = Search!MpdReads(Search!Reading(words, <<>>, "blank"), c)
  BY <1>1, AtNext
<1>5. words \in Seq(Seq(Symbol))
  BY DEF At
<1> QED BY <1>2, <1>3, <1>4, <1>5 DEF At

(* The words of a line that ends.                                          *)
LEMMA AtEnd ==
  ASSUME NEW line, NEW words, NEW word, At(line, words, word, "word")
  PROVE  Search!MpdWords(line \o <<Search!LF>>) = Append(words, word)
<1>1. Search!MpdReads(Search!Reading(words, word, "word"), Search!LF) = Search!Reading(Append(words, word), <<>>, "over")
  BY ReadsOne
<1>2. Search!MpdRead(line \o <<Search!LF>>) = Search!Reading(Append(words, word), <<>>, "over")
  BY <1>1, Symbols, AtNext
<1> QED BY <1>2 DEF Search!MpdWords, Search!Reading

LEMMA AtStart == At(<<>>, <<>>, <<>>, "blank") /\ Search!MpdWords(<<>>) = <<>>
BY ReadNone DEF At, Search!MpdWords, Search!Reading

LEMMA PrintedWhole ==
  ASSUME NEW text \in Seq(Symbol), NEW room \in Int, Len(text) <= room - 1
  PROVE  Search!Printed(room, text) = text
<1> DEFINE n == Len(text)
           S == {room - 1, n}
<1>1. n \in Nat /\ n <= room - 1
  OBVIOUS
<1> HIDE DEF n
<1>2. n \in S /\ \A y \in S : n <= y
  BY <1>1
<1>3. \A x \in S : (\A y \in S : x <= y) => x = n
  BY <1>1
<1> HIDE DEF S
<1>4. Search!Min(S) = n
  BY <1>2, <1>3 DEF Search!Min
<1>5. SubSeq(text, 1, n) = text
  BY SubSeqFull DEF n
<1> QED BY <1>4, <1>5 DEF Search!Printed, S, n

LEMMA QuotedIs ==
  ASSUME NEW name \in Seq(Symbol)
  PROVE  /\ Search!Sanitize(name) \in Seq(Symbol) /\ Len(Search!Sanitize(name)) \in Nat
         /\ Search!Quoted(name) \in Seq(Symbol) /\ Len(Search!Quoted(name)) = Len(Search!Sanitize(name)) + 2
         /\ <<Search!Space>> \o Search!Quoted(name) \in Seq(Symbol)
         /\ Len(<<Search!Space>> \o Search!Quoted(name)) = Len(Search!Sanitize(name)) + 3
<1>1. /\ Search!Sanitize(name) \in Seq(Symbol) /\ <<Search!Quote>> \in Seq(Symbol) /\ <<Search!Space>> \in Seq(Symbol)
      /\ Len(<<Search!Quote>>) = 1 /\ Len(<<Search!Space>>) = 1
  BY Symbols, SanitizeAppended
<1>2. Len(Search!Sanitize(name)) \in Nat
  BY <1>1, LenProperties
<1> DEFINE q == <<Search!Quote>>
           blank == <<Search!Space>>
           s == Search!Sanitize(name)
<1> HIDE DEF q, blank, s
<1>3. q \o s \in Seq(Symbol) /\ Len(q \o s) = 1 + Len(s)
  BY <1>1, ConcatProperties DEF q, s
<1>4. (q \o s) \o q \in Seq(Symbol) /\ Len((q \o s) \o q) = (1 + Len(s)) + 1
  BY <1>1, <1>3, ConcatProperties DEF q
<1>5. Search!Quoted(name) = (q \o s) \o q
  BY DEF Search!Quoted, q, s
<1>6. blank \o Search!Quoted(name) \in Seq(Symbol) /\ Len(blank \o Search!Quoted(name)) = 1 + Len(Search!Quoted(name))
  BY <1>1, <1>4, <1>5, ConcatProperties DEF blank
<1>7. Len(s) \in Nat
  BY <1>2 DEF s
<1>8. Len(Search!Quoted(name)) = Len(s) + 2 /\ Len(blank \o Search!Quoted(name)) = Len(s) + 3
  BY <1>4, <1>5, <1>6, <1>7
<1> QED BY <1>1, <1>2, <1>4, <1>5, <1>6, <1>8 DEF s, blank

(* mpd_sanitizeArg adds nothing to a number.                               *)
Plain(name) == \A i \in DOMAIN name : name[i] \notin Search!Special

LEMMA PlainLength ==
  ASSUME NEW name \in Seq(Symbol), Plain(name)
  PROVE  Len(Search!Sanitize(name)) = Len(name)
<1> DEFINE Known == {n \in Nat : \A s \in Seq(Symbol) :
                       Len(s) = n /\ Plain(s) => Len(Search!Sanitize(s)) = Len(s)}
<1>1. 0 \in Known
  <2> SUFFICES ASSUME NEW s \in Seq(Symbol), Len(s) = 0 PROVE Len(Search!Sanitize(s)) = Len(s)
    OBVIOUS
  <2>1. s = <<>>
    BY EmptySeq
  <2> QED BY <2>1, SanitizeNone
<1>2. \A n \in Nat : n \in Known => n + 1 \in Known
  <2> SUFFICES ASSUME NEW n \in Nat, n \in Known, NEW s \in Seq(Symbol), Len(s) = n + 1, Plain(s)
               PROVE  Len(Search!Sanitize(s)) = Len(s)
    OBVIOUS
  <2>1. s # <<>>
    OBVIOUS
  <2>2. PICK t \in Seq(Symbol), c \in Symbol : s = Append(t, c)
    BY <2>1, SequenceEmptyOrAppend
  <2>3. /\ Len(s) = Len(t) + 1 /\ Len(t) \in Nat /\ s[Len(t) + 1] = c
        /\ \A i \in 1..Len(t) : s[i] = t[i]
        /\ DOMAIN s = 1..Len(s) /\ DOMAIN t = 1..Len(t)
    BY <2>2, AppendProperties, LenProperties
  <2>4. Plain(t) /\ c \notin Search!Special
    BY <2>3 DEF Plain
  <2>5. Len(t) = n
    <3>1. Len(s) = Len(t) + 1 /\ Len(t) \in Nat
      BY <2>3
    <3> QED BY <3>1
  <2>6. Len(Search!Sanitize(t)) = Len(t)
    BY <2>4, <2>5
  <2>7. Search!Sanitize(s) = Search!Sanitize(t) \o <<c>> /\ Search!Sanitize(t) \in Seq(Symbol)
    BY <2>2, <2>4, SanitizeAppended DEF Escaped
  <2>8. Len(Search!Sanitize(t) \o <<c>>) = Len(Search!Sanitize(t)) + 1
    <3>1. Search!Sanitize(t) \o <<c>> = Append(Search!Sanitize(t), c)
      BY <2>7, AppendIsConcat
    <3> QED BY <2>7, <3>1, AppendProperties
  <2> QED BY <2>3, <2>6, <2>7, <2>8
<1>3. Nat \subseteq Known
  <2> HIDE DEF Known
  <2> QED BY <1>1, <1>2, Inductive
<1>4. Len(name) \in Nat
  OBVIOUS
<1> QED BY <1>3, <1>4

(* The arguments of a line.                                                *)
Arg(name) == <<Search!Space>> \o Search!Quoted(name)
ArgsOf(texts) == Search!FlattenSeq([i \in DOMAIN texts |-> Arg(texts[i])])

LEMMA ArgsIn ==
  ASSUME NEW texts \in Seq(Seq(Symbol))
  PROVE  [i \in DOMAIN texts |-> Arg(texts[i])] \in Seq(Seq(Symbol))
<1>1. Len(texts) \in Nat /\ DOMAIN texts = 1..Len(texts)
  OBVIOUS
<1>2. \A i \in 1..Len(texts) : Arg(texts[i]) \in Seq(Symbol)
  BY QuotedIs DEF Arg
<1>3. \A n \in Nat : \A f : (\A i \in 1..n : f[i] \in Seq(Symbol)) =>
        [i \in 1..n |-> f[i]] \in Seq(Seq(Symbol))
  OBVIOUS
<1> DEFINE f == [i \in 1..Len(texts) |-> Arg(texts[i])]
<1>4. f = [i \in 1..Len(texts) |-> f[i]] /\ \A i \in 1..Len(texts) : f[i] \in Seq(Symbol)
  BY <1>2
<1>5. f \in Seq(Seq(Symbol))
  <2> HIDE DEF f
  <2> QED BY <1>1, <1>3, <1>4
<1> QED BY <1>1, <1>5

LEMMA ArgsAppended ==
  ASSUME NEW texts \in Seq(Seq(Symbol)), NEW name \in Seq(Symbol)
  PROVE  ArgsOf(texts) \in Seq(Symbol) /\ ArgsOf(Append(texts, name)) = ArgsOf(texts) \o Arg(name)
<1> DEFINE more == Append(texts, name)
           pieces == [i \in DOMAIN texts |-> Arg(texts[i])]
           after == [i \in DOMAIN more |-> Arg(more[i])]
<1>1. /\ more \in Seq(Seq(Symbol)) /\ Len(texts) \in Nat /\ DOMAIN texts = 1..Len(texts)
      /\ DOMAIN more = 1..Len(texts) + 1
      /\ more[Len(texts) + 1] = name /\ \A i \in 1..Len(texts) : more[i] = texts[i]
  OBVIOUS
<1>2. pieces \in Seq(Seq(Symbol)) /\ after \in Seq(Seq(Symbol))
  BY <1>1, ArgsIn
<1>3. /\ Len(pieces) = Len(texts) /\ \A i \in 1..Len(texts) : pieces[i] = Arg(texts[i])
      /\ Len(after) = Len(texts) + 1
      /\ \A i \in 1..Len(texts) + 1 : after[i] = Arg(more[i])
  <2>1. DOMAIN pieces = 1..Len(texts) /\ DOMAIN after = 1..Len(texts) + 1
    BY <1>1
  <2>2. Len(pieces) = Len(texts) /\ Len(after) = Len(texts) + 1
    BY <1>1, <1>2, <2>1, LenProperties
  <2> QED BY <1>1, <2>2
<1>4. Arg(name) \in Seq(Symbol)
  BY QuotedIs DEF Arg
<1> HIDE DEF more, pieces, after
<1>5. after = Append(pieces, Arg(name))
  <2>1. /\ Append(pieces, Arg(name)) \in Seq(Seq(Symbol))
        /\ Len(Append(pieces, Arg(name))) = Len(pieces) + 1
        /\ \A i \in 1..Len(pieces) : Append(pieces, Arg(name))[i] = pieces[i]
        /\ Append(pieces, Arg(name))[Len(pieces) + 1] = Arg(name)
    BY <1>2, <1>4, AppendProperties
  <2>2. \A i \in 1..Len(texts) + 1 : after[i] = Append(pieces, Arg(name))[i]
    <3> SUFFICES ASSUME NEW i \in 1..Len(texts) + 1 PROVE after[i] = Append(pieces, Arg(name))[i]
      OBVIOUS
    <3>1. CASE i = Len(texts) + 1
      <4>1. after[i] = Arg(name)
        BY <1>1, <1>3, <3>1
      <4>2. Append(pieces, Arg(name))[i] = Arg(name)
        BY <1>3, <2>1, <3>1
      <4> QED BY <4>1, <4>2
    <3>2. CASE i # Len(texts) + 1
      <4>1. i \in 1..Len(texts)
        BY <1>1, <3>2
      <4> QED BY <1>1, <1>3, <2>1, <4>1
    <3> QED BY <3>1, <3>2
  <2>3. Len(after) = Len(Append(pieces, Arg(name)))
    BY <1>3, <2>1
  <2> QED BY <1>2, <1>3, <2>1, <2>2, <2>3, SeqEqual
<1>6. ArgsOf(texts) = Search!FlattenSeq(pieces) /\ ArgsOf(more) = Search!FlattenSeq(after)
  BY DEF ArgsOf, pieces, after
<1> QED BY <1>2, <1>4, <1>5, <1>6, JoinedAppended DEF more

LEMMA ArgsNone == ArgsOf(<<>>) = <<>>
<1>1. [i \in DOMAIN <<>> |-> Arg(<<>>[i])] = <<>>
  OBVIOUS
<1> QED BY <1>1, JoinedNone DEF ArgsOf

(* A line that does not end yet, and the words MPD has got from it.        *)
Spells(line, ws) ==
  \E words, word : At(line, words, word, "word") /\ ws = Append(words, word)

LEMMA SpellsIn ==
  ASSUME NEW line, NEW ws, Spells(line, ws)
  PROVE  line \in Seq(Symbol) /\ ws \in Seq(Seq(Symbol))
BY AppendProperties DEF Spells, At

LEMMA SpellsArgument ==
  ASSUME NEW line, NEW ws, Spells(line, ws), NEW name \in Seq(Symbol)
  PROVE  Spells(line \o Arg(name), Append(ws, name))
<1>1. PICK words, word : At(line, words, word, "word") /\ ws = Append(words, word)
  BY DEF Spells
<1>2. At(line \o Arg(name), Append(words, word), name, "word")
  BY <1>1, AtArgument DEF Arg
<1> QED BY <1>1, <1>2 DEF Spells

LEMMA SpellsToken ==
  ASSUME NEW line, NEW ws, Spells(line, ws), NEW c \in Commands \cup Search!Tags
  PROVE  Spells(line \o <<Search!Space, c>>, Append(ws, <<c>>))
<1>1. PICK words, word : At(line, words, word, "word") /\ ws = Append(words, word)
  BY DEF Spells
<1>2. At(line \o <<Search!Space>>, Append(words, word), <<>>, "blank")
  BY <1>1, AtSpace
<1>3. At((line \o <<Search!Space>>) \o <<c>>, Append(words, word), <<c>>, "word")
  BY <1>2, AtToken
<1>4. <<Search!Space>> \in Seq(Symbol) /\ <<c>> \in Seq(Symbol) /\ line \in Seq(Symbol)
  BY <1>1, Symbols DEF At
<1>5. (line \o <<Search!Space>>) \o <<c>> = line \o (<<Search!Space>> \o <<c>>)
  BY <1>4, ConcatAssociative
<1>6. <<Search!Space>> \o <<c>> = <<Search!Space, c>>
  BY TwoOf
<1> QED BY <1>1, <1>3, <1>5, <1>6 DEF Spells

LEMMA SpellsCommand ==
  ASSUME NEW c \in Commands
  PROVE  Spells(<<c>>, <<<<c>>>>)
<1>1. At(<<>> \o <<c>>, <<>>, <<c>>, "word")
  BY AtStart, AtToken
<1>2. <<c>> \in Seq(Symbol)
  BY Symbols
<1>3. <<>> \o <<c>> = <<c>>
  BY <1>2, ConcatEmptySeq
<1>4. Append(<<>>, <<c>>) = <<<<c>>>>
  OBVIOUS
<1> QED BY <1>1, <1>3, <1>4 DEF Spells

LEMMA SpellsEnd ==
  ASSUME NEW line, NEW ws, Spells(line, ws)
  PROVE  Search!MpdWords(line \o <<Search!LF>>) = ws
BY AtEnd DEF Spells

LEMMA LastOf ==
  ASSUME NEW S, NEW s \in Seq(S), NEW n \in Nat, Len(s) = n + 1
  PROVE  \E t \in Seq(S), x \in S : s = Append(t, x) /\ Len(t) = n
<1>1. s # <<>>
  OBVIOUS
<1>2. PICK t \in Seq(S), x \in S : s = Append(t, x)
  BY <1>1, SequenceEmptyOrAppend
<1>3. Len(s) = Len(t) + 1 /\ Len(t) \in Nat
  BY <1>2, AppendProperties, LenProperties
<1>4. Len(t) = n
  BY <1>3
<1> QED BY <1>2, <1>4

(* The commands for which the arguments come through.                     *)
SpellsWith(c, texts) == Spells(<<c>> \o ArgsOf(texts), <<<<c>>>> \o texts)

LEMMA SpellsArgs ==
  ASSUME NEW c \in Commands, NEW texts \in Seq(Seq(Symbol))
  PROVE  SpellsWith(c, texts)
<1> DEFINE Words == Seq(Symbol)
           Good(some) == SpellsWith(c, some)
           Known == {n \in Nat : \A some \in Seq(Words) : Len(some) = n => Good(some)}
<1>1. <<c>> \in Seq(Symbol) /\ <<<<c>>>> \in Seq(Seq(Symbol))
  BY Symbols
<1> HIDE DEF Words, Good, Known
<1>2. 0 \in Known
  <2> SUFFICES ASSUME NEW some \in Seq(Words), Len(some) = 0
               PROVE  Good(some)
    BY DEF Known
  <2>1. some = <<>>
    BY EmptySeq
  <2>2. <<c>> \o <<>> = <<c>> /\ <<<<c>>>> \o <<>> = <<<<c>>>>
    BY <1>1, ConcatEmptySeq
  <2> QED BY <2>1, <2>2, SpellsCommand, ArgsNone DEF SpellsWith, Good, Words
<1>3. \A n \in Nat : n \in Known => n + 1 \in Known
  <2> SUFFICES ASSUME NEW n \in Nat, n \in Known, NEW some \in Seq(Words), Len(some) = n + 1
               PROVE  Good(some)
    BY DEF Known
  <2>2. PICK t \in Seq(Words), x \in Words : some = Append(t, x) /\ Len(t) = n
    BY LastOf
  <2>4. Good(t)
    BY <2>2 DEF Known
  <2>5. Spells((<<c>> \o ArgsOf(t)) \o Arg(x), Append(<<<<c>>>> \o t, x))
    BY <2>4, SpellsArgument DEF SpellsWith, Good, Words
  <2>6. (<<c>> \o ArgsOf(t)) \o Arg(x) = <<c>> \o (ArgsOf(t) \o Arg(x))
    <3>1. ArgsOf(t) \in Seq(Symbol) /\ Arg(x) \in Seq(Symbol)
      BY ArgsAppended, QuotedIs DEF Arg, Words
    <3> HIDE <2>2, <2>4, <2>5
    <3> QED BY <1>1, <3>1, ConcatAssociative
  <2>7. Append(<<<<c>>>> \o t, x) = <<<<c>>>> \o Append(t, x)
    <3> DEFINE one == <<<<c>>>>
               new == <<x>>
    <3>1. one \in Seq(Words) /\ t \in Seq(Words) /\ x \in Words /\ new \in Seq(Words)
      BY <1>1, <2>2 DEF Words
    <3> HIDE DEF one
    <3>2. one \o t \in Seq(Words)
      BY <3>1, ConcatProperties
    <3>3. Append(one \o t, x) = (one \o t) \o new /\ Append(t, x) = t \o new
      BY <3>1, <3>2, AppendIsConcat
    <3> HIDE DEF new
    <3>4. (one \o t) \o new = one \o (t \o new)
      BY <3>1, ConcatAssociative
    <3> QED BY <3>3, <3>4 DEF one
  <2> QED BY <2>2, <2>5, <2>6, <2>7, ArgsAppended DEF SpellsWith, Good, Words
<1>4. Nat \subseteq Known
  <2> QED BY <1>2, <1>3, Inductive
<1>5. Len(texts) \in Nat
  OBVIOUS
<1> QED BY <1>4, <1>5 DEF Known, Good, Words

LEMMA ThreeJoined ==
  ASSUME NEW S, NEW s \in Seq(S), NEW t \in Seq(S), NEW u \in Seq(S)
  PROVE  (s \o t) \o u \in Seq(S) /\ Len((s \o t) \o u) = (Len(s) + Len(t)) + Len(u)
<1>1. s \o t \in Seq(S) /\ Len(s \o t) = Len(s) + Len(t)
  BY ConcatProperties
<1> QED BY <1>1, ConcatProperties

(* A line in the room its parts were measured for.                         *)
LEMMA LineIs ==
  ASSUME NEW c \in Commands, NEW texts \in Seq(Seq(Symbol)), NEW size \in Nat,
         Len(ArgsOf(texts)) <= size
  PROVE  Search!MpdWords(Search!Printed(Search!Room(c, size), Search!Line(c, texts))) = <<<<c>>>> \o texts
<1> DEFINE head == <<c>>
           tail == ArgsOf(texts)
           end == <<Search!LF>>
<1>1. /\ head \in Seq(Symbol) /\ tail \in Seq(Symbol) /\ end \in Seq(Symbol)
      /\ Len(head) = 1 /\ Len(end) = 1 /\ Len(tail) \in Nat
  <2>1. head \in Seq(Symbol) /\ Len(head) = 1
    BY Symbols
  <2>2. end \in Seq(Symbol) /\ Len(end) = 1
    BY Symbols
  <2>3. tail \in Seq(Symbol)
    BY ArgsAppended, Symbols, EmptySeq
  <2>4. Len(tail) \in Nat
    BY <2>3, LenProperties
  <2> QED BY <2>1, <2>2, <2>3, <2>4
<1>2. Len(tail) <= size
  OBVIOUS
<1>3. Search!Line(c, texts) = (head \o tail) \o end
  BY DEF Search!Line, ArgsOf, Arg
<1>4. Spells(head \o tail, <<<<c>>>> \o texts)
  BY SpellsArgs DEF SpellsWith
<1>5. Search!MpdWords((head \o tail) \o end) = <<<<c>>>> \o texts
  BY <1>4, SpellsEnd
<1>6. Search!Room(c, size) = 3 + size
  BY DEF Search!Room
<1> HIDE DEF head, tail, end
<1>8. (head \o tail) \o end \in Seq(Symbol) /\ Len((head \o tail) \o end) = (1 + Len(tail)) + 1
  <2>1. head \in Seq(Symbol) /\ tail \in Seq(Symbol) /\ end \in Seq(Symbol)
    BY <1>1
  <2>2. /\ (head \o tail) \o end \in Seq(Symbol)
        /\ Len((head \o tail) \o end) = (Len(head) + Len(tail)) + Len(end)
    BY <2>1, ThreeJoined
  <2> QED BY <1>1, <2>2
<1>9. Search!Room(c, size) \in Int /\ Len((head \o tail) \o end) <= Search!Room(c, size) - 1
  BY <1>1, <1>2, <1>6, <1>8
<1>10. Search!Printed(Search!Room(c, size), Search!Line(c, texts)) = (head \o tail) \o end
  BY <1>3, <1>8, <1>9, PrintedWhole
<1> QED BY <1>5, <1>10

LEMMA AppendedTo ==
  ASSUME NEW a, NEW b, NEW d
  PROVE  Append(<<a>>, b) = <<a, b>> /\ Append(<<a, b>>, d) = <<a, b, d>>
<1> DEFINE S == {a, b, d}
           one == <<a>>
           two == <<a, b>>
           three == <<a, b, d>>
<1>1. a \in S /\ b \in S /\ d \in S
  OBVIOUS
<1>2. one \in Seq(S) /\ Len(one) = 1 /\ one[1] = a
  BY <1>1
<1>3. two \in Seq(S) /\ Len(two) = 2 /\ two[1] = a /\ two[2] = b
  BY <1>1
<1>4. three \in Seq(S) /\ Len(three) = 3 /\ three[1] = a /\ three[2] = b /\ three[3] = d
  BY <1>1
<1> HIDE DEF S, one, two, three
<1>5. Append(one, b) = two
  <2>1. /\ Append(one, b) \in Seq(S) /\ Len(Append(one, b)) = 2
        /\ Append(one, b)[1] = a /\ Append(one, b)[2] = b
    <3>1. /\ Append(one, b) \in Seq(S) /\ Len(Append(one, b)) = Len(one) + 1
          /\ Append(one, b)[Len(one) + 1] = b /\ \A i \in 1..Len(one) : Append(one, b)[i] = one[i]
      <4>1. one \in Seq(S) /\ b \in S
        BY <1>1, <1>2
      <4> QED BY <4>1, AppendProperties
    <3>2. Len(one) + 1 = 2 /\ 1 \in 1..Len(one)
      BY <1>2
    <3> QED BY <1>2, <3>1, <3>2
  <2>2. \A i \in 1..Len(two) : Append(one, b)[i] = two[i]
    BY <1>3, <2>1
  <2> QED BY <1>3, <2>1, <2>2, SeqEqual
<1>6. Append(two, d) = three
  <2>1. /\ Append(two, d) \in Seq(S) /\ Len(Append(two, d)) = 3
        /\ Append(two, d)[1] = a /\ Append(two, d)[2] = b /\ Append(two, d)[3] = d
    <3>1. /\ Append(two, d) \in Seq(S) /\ Len(Append(two, d)) = Len(two) + 1
          /\ Append(two, d)[Len(two) + 1] = d /\ \A i \in 1..Len(two) : Append(two, d)[i] = two[i]
      <4>1. two \in Seq(S) /\ d \in S
        BY <1>1, <1>3
      <4> QED BY <4>1, AppendProperties
    <3>2. Len(two) + 1 = 3 /\ 1 \in 1..Len(two) /\ 2 \in 1..Len(two)
      BY <1>3
    <3> QED BY <1>3, <3>1, <3>2
  <2>2. \A i \in 1..Len(three) : Append(two, d)[i] = three[i]
    BY <1>4, <2>1
  <2> QED BY <1>4, <2>1, <2>2, SeqEqual
<1> QED BY <1>5, <1>6 DEF one, two, three

LEMMA SeqWithin ==
  ASSUME NEW A, NEW B, A \subseteq B, NEW s \in Seq(A)
  PROVE  s \in Seq(B)
OBVIOUS

LEMMA ArgLength ==
  ASSUME NEW name \in Seq(Symbol)
  PROVE  Len(Arg(name)) = Search!NameSize(name) /\ Search!NameSize(name) \in Nat /\ Arg(name) \in Seq(Symbol)
BY QuotedIs DEF Arg, Search!NameSize

LEMMA MoreArgs ==
  ASSUME NEW texts \in Seq(Seq(Symbol)), NEW name \in Seq(Symbol)
  PROVE  /\ Append(texts, name) \in Seq(Seq(Symbol))
         /\ Len(ArgsOf(texts)) \in Nat
         /\ Len(ArgsOf(Append(texts, name))) = Len(ArgsOf(texts)) + Search!NameSize(name)
<1>1. ArgsOf(texts) \in Seq(Symbol) /\ Arg(name) \in Seq(Symbol)
  BY ArgsAppended, ArgLength
<1>2. Len(ArgsOf(texts) \o Arg(name)) = Len(ArgsOf(texts)) + Len(Arg(name))
  BY <1>1, ConcatProperties
<1>3. Len(ArgsOf(texts)) \in Nat
  BY <1>1, LenProperties
<1>4. Append(texts, name) \in Seq(Seq(Symbol))
  BY AppendProperties
<1> QED BY <1>2, <1>3, <1>4, ArgsAppended, ArgLength

LEMMA OneArg ==
  ASSUME NEW a \in Seq(Symbol)
  PROVE  <<a>> \in Seq(Seq(Symbol)) /\ Len(ArgsOf(<<a>>)) = Search!NameSize(a)
<1>1. <<>> \in Seq(Seq(Symbol)) /\ Append(<<>>, a) = <<a>>
  OBVIOUS
<1>2. Len(ArgsOf(<<>>)) = 0
  BY ArgsNone
<1> DEFINE none == <<>>
<1>3. none \in Seq(Seq(Symbol)) /\ Append(none, a) = <<a>> /\ Len(ArgsOf(none)) = 0
  BY <1>1, <1>2
<1> HIDE DEF none
<1>4. /\ Append(none, a) \in Seq(Seq(Symbol))
      /\ Len(ArgsOf(Append(none, a))) = Len(ArgsOf(none)) + Search!NameSize(a)
  BY <1>3, MoreArgs
<1> QED BY <1>3, <1>4, ArgLength

LEMMA TwoArgs ==
  ASSUME NEW a \in Seq(Symbol), NEW b \in Seq(Symbol)
  PROVE  <<a, b>> \in Seq(Seq(Symbol)) /\ Len(ArgsOf(<<a, b>>)) = Search!NameSize(a) + Search!NameSize(b)
<1> DEFINE one == <<a>>
<1>1. one \in Seq(Seq(Symbol)) /\ Len(ArgsOf(one)) = Search!NameSize(a)
  BY OneArg
<1>2. Append(one, b) = <<a, b>>
  BY AppendedTo
<1> HIDE DEF one
<1> QED BY <1>1, <1>2, MoreArgs

LEMMA ThreeArgs ==
  ASSUME NEW a \in Seq(Symbol), NEW b \in Seq(Symbol), NEW d \in Seq(Symbol)
  PROVE  /\ <<a, b, d>> \in Seq(Seq(Symbol))
         /\ Len(ArgsOf(<<a, b, d>>)) = (Search!NameSize(a) + Search!NameSize(b)) + Search!NameSize(d)
<1> DEFINE two == <<a, b>>
<1>1. two \in Seq(Seq(Symbol)) /\ Len(ArgsOf(two)) = Search!NameSize(a) + Search!NameSize(b)
  BY TwoArgs
<1>2. Append(two, d) = <<a, b, d>>
  BY AppendedTo
<1> HIDE DEF two
<1> QED BY <1>1, <1>2, MoreArgs

-----------------------------------------------------------------------------
LEMMA Given ==
  /\ Phrases \subseteq Seq(Symbol) /\ Numbers \subseteq Seq(Symbol)
  /\ \A name \in Phrases : Search!NameSize(name) \in Nat
  /\ \A n \in Numbers : Search!NameSize(n) \in Nat /\ Search!NameSize(n) <= Search!NumberSize
  /\ Search!NumberSize \in Nat
<1>1. STRING \subseteq Symbol
  BY DEF Symbol
<1>2. Seq(STRING) \subseteq Seq(Symbol)
  BY <1>1, SeqWithin
<1>3. Phrases \subseteq Seq(Symbol) /\ Numbers \subseteq Seq(Symbol)
  BY <1>2, PhraseAssumption
<1>4. \A n \in Numbers : Search!NameSize(n) <= Search!NumberSize
  <2> SUFFICES ASSUME NEW n \in Numbers PROVE Search!NameSize(n) <= Search!NumberSize
    OBVIOUS
  <2>1. Plain(n) /\ Len(n) <= IntLen /\ IntLen \in Nat /\ Len(n) \in Nat
    BY <1>3, PhraseAssumption DEF Plain
  <2>2. Len(Search!Sanitize(n)) = Len(n)
    BY <1>3, <2>1, PlainLength
  <2> QED BY <2>1, <2>2 DEF Search!NameSize, Search!NumberSize
<1>5. Search!NumberSize \in Nat
  BY PhraseAssumption DEF Search!NumberSize
<1> QED BY <1>3, <1>4, <1>5, ArgLength

LEMMA ThreeOf ==
  ASSUME NEW a, NEW b, NEW d
  PROVE  <<a>> \o <<b, d>> = <<a, b, d>>
<1> DEFINE S == {a, b, d}
           one == <<a>>
           two == <<a, b>>
           other == <<b>>
           end == <<d>>
<1>1. /\ one \in Seq(S) /\ two \in Seq(S) /\ other \in Seq(S) /\ end \in Seq(S) /\ d \in S
  OBVIOUS
<1>2. <<b, d>> = other \o end /\ two = one \o other
  BY TwoOf
<1>3. <<a, b, d>> = Append(two, d)
  BY AppendedTo
<1> HIDE DEF S, two, other
<1>4. Append(two, d) = two \o end
  BY <1>1, AppendIsConcat
<1> HIDE DEF one, end
<1>5. (one \o other) \o end = one \o (other \o end)
  BY <1>1, ConcatAssociative
<1> QED BY <1>2, <1>3, <1>4, <1>5 DEF one

LEMMA TwoMore ==
  ASSUME NEW S, NEW s \in Seq(S), NEW a \in S, NEW b \in S
  PROVE  Append(Append(s, a), b) = s \o <<a, b>>
<1> DEFINE one == <<a>>
           other == <<b>>
           t == Append(s, a)
<1>1. one \in Seq(S) /\ other \in Seq(S)
  OBVIOUS
<1>2. one \o other = <<a, b>>
  BY TwoOf
<1>3. t = s \o one /\ t \in Seq(S)
  BY AppendIsConcat, AppendProperties
<1> HIDE DEF one, t
<1>4. Append(t, b) = t \o other
  BY <1>3, AppendIsConcat
<1> HIDE DEF other
<1>5. (s \o one) \o other = s \o (one \o other)
  BY <1>1, ConcatAssociative
<1> QED BY <1>2, <1>3, <1>4, <1>5 DEF t

LEMMA ListingIs ==
  ASSUME NEW tag \in Search!Tags
  PROVE  /\ Search!Listing(tag) \in Seq(Symbol) /\ Len(Search!Listing(tag)) = 3
         /\ Spells(Search!Listing(tag), <<<<"list">>, <<tag>>>>)
<1>1. "list" \in Commands /\ tag \in Commands \cup Search!Tags
  BY DEF Commands
<1>2. Spells(<<"list">>, <<<<"list">>>>)
  BY <1>1, SpellsCommand
<1>3. Spells(<<"list">> \o <<Search!Space, tag>>, Append(<<<<"list">>>>, <<tag>>))
  BY <1>1, <1>2, SpellsToken
<1>4. <<"list">> \o <<Search!Space, tag>> = Search!Listing(tag)
  BY ThreeOf DEF Search!Listing
<1>5. Append(<<<<"list">>>>, <<tag>>) = <<<<"list">>, <<tag>>>>
  BY AppendedTo
<1>6. Len(Search!Listing(tag)) = 3
  BY DEF Search!Listing
<1>7. Spells(Search!Listing(tag), <<<<"list">>, <<tag>>>>)
  BY <1>3, <1>4, <1>5
<1> QED BY <1>6, <1>7, SpellsIn

(* The constraint, and the end of a line, in the room they are given.      *)
LEMMA ConstraintIs ==
  ASSUME NEW line, NEW ws, Spells(line, ws), NEW tag \in Search!Tags, NEW name \in Seq(Symbol)
  PROVE  LET more == line \o <<Search!Space, tag>> \o <<Search!Space>> \o Search!Quoted(name)
         IN /\ Spells(more, ws \o <<<<tag>>, name>>)
            /\ Len(more) = Len(line) + Len(Search!Sanitize(name)) + 5
<1> DEFINE more == ((line \o <<Search!Space, tag>>) \o <<Search!Space>>) \o Search!Quoted(name)
           token == <<Search!Space, tag>>
           blank == <<Search!Space>>
           quoted == Search!Quoted(name)
<1>1. line \in Seq(Symbol) /\ ws \in Seq(Seq(Symbol)) /\ Len(line) \in Nat
  BY SpellsIn, LenProperties
<1>2. tag \in Commands \cup Search!Tags /\ tag \in Symbol /\ Search!Space \in Symbol
  BY Symbols
<1>3. /\ token \in Seq(Symbol) /\ blank \in Seq(Symbol) /\ Len(token) = 2 /\ Len(blank) = 1
  BY <1>2
<1>4. /\ quoted \in Seq(Symbol) /\ Len(quoted) = Len(Search!Sanitize(name)) + 2 /\ Len(Search!Sanitize(name)) \in Nat
  BY QuotedIs
<1>5. Spells(line \o token, Append(ws, <<tag>>))
  BY <1>2, SpellsToken
<1>6. Spells((line \o token) \o (blank \o quoted), Append(Append(ws, <<tag>>), name))
  BY <1>5, SpellsArgument DEF Arg
<1> HIDE DEF more, token, blank, quoted
<1>7. Append(Append(ws, <<tag>>), name) = ws \o <<<<tag>>, name>>
  <2>1. <<tag>> \in Seq(Symbol)
    BY <1>2
  <2> QED BY <1>1, <2>1, TwoMore
<1>8. line \o token \in Seq(Symbol) /\ Len(line \o token) = Len(line) + Len(token)
  BY <1>1, <1>3, ConcatProperties
<1>9. line \o token \in Seq(Symbol) /\ blank \in Seq(Symbol) /\ quoted \in Seq(Symbol)
  BY <1>3, <1>4, <1>8
<1>10. ((line \o token) \o blank) \o quoted = (line \o token) \o (blank \o quoted)
  BY <1>9, ConcatAssociative
<1>11. Len(((line \o token) \o blank) \o quoted) = (Len(line \o token) + Len(blank)) + Len(quoted)
  BY <1>9, ThreeJoined
<1>12. Len(((line \o token) \o blank) \o quoted) = Len(line) + Len(Search!Sanitize(name)) + 5
  BY <1>1, <1>3, <1>4, <1>8, <1>11
<1> QED BY <1>6, <1>7, <1>10, <1>12 DEF more, token, blank, quoted

LEMMA EndIs ==
  ASSUME NEW line, NEW ws, Spells(line, ws), NEW room \in Int, Len(line) + 2 <= room
  PROVE  Search!MpdWords(Search!Printed(room, line \o <<Search!LF>>)) = ws
<1> DEFINE end == <<Search!LF>>
<1>1. line \in Seq(Symbol) /\ end \in Seq(Symbol) /\ Len(end) = 1 /\ Len(line) \in Nat
  BY SpellsIn, Symbols, LenProperties
<1> HIDE DEF end
<1>2. line \o end \in Seq(Symbol) /\ Len(line \o end) = Len(line) + Len(end)
  BY <1>1, ConcatProperties
<1>3. Len(line \o end) <= room - 1
  BY <1>1, <1>2
<1>4. Search!Printed(room, line \o end) = line \o end
  BY <1>2, <1>3, PrintedWhole
<1> QED BY <1>4, SpellsEnd DEF end

Searching == Search!WordsArrive /\ (building # Search!Null => Spells(building, meant))

LEMMA SearchBegins == Search!Init => Searching
<1> SUFFICES ASSUME Search!Init PROVE Searching
  OBVIOUS
<1>1. sent.line = <<>> /\ sent.words = <<>> /\ building = Search!Null
  BY DEF Search!Init, Search!Nothing
<1>2. Search!MpdWords(<<>>) = <<>>
  BY AtStart
<1> QED BY <1>1, <1>2 DEF Searching, Search!WordsArrive

(* What is sent is either the line that was printed or what was sent.      *)
LEMMA SendKeeps ==
  ASSUME Searching, NEW line, NEW words, Search!Execute(line, words), Search!MpdWords(line) = words
  PROVE  Search!WordsArrive'
<1>1. CASE finished
  <2>1. sent' = [line |-> line, words |-> words]
    BY <1>1 DEF Search!Execute
  <2>2. sent'.line = line /\ sent'.words = words
    BY <2>1
  <2> QED BY <2>2 DEF Search!WordsArrive
<1>2. CASE ~finished
  <2>1. sent' = sent
    BY <1>2 DEF Search!Execute
  <2> QED BY <2>1 DEF Searching, Search!WordsArrive
<1> QED BY <1>1, <1>2

LEMMA CommandKeeps ==
  ASSUME Searching, NEW c \in Commands, NEW texts \in Seq(Seq(Symbol)), NEW size \in Nat,
         Len(ArgsOf(texts)) <= size, Search!SendCommand(c, texts, size)
  PROVE  Searching'
<1>1. Search!MpdWords(Search!Printed(Search!Room(c, size), Search!Line(c, texts))) = <<<<c>>>> \o texts
  BY LineIs
<1>2. Search!Execute(Search!Printed(Search!Room(c, size), Search!Line(c, texts)), <<<<c>>>> \o texts)
  BY DEF Search!SendCommand
<1>3. Search!WordsArrive'
  BY <1>1, <1>2, SendKeeps
<1>4. building' = building /\ meant' = meant
  BY DEF Search!SendCommand
<1> QED BY <1>3, <1>4 DEF Searching

LEMMA NumbersKeep == Searching /\ Search!SendNumbers => Searching'
<1> SUFFICES ASSUME Searching, Search!SendNumbers PROVE Searching'
  OBVIOUS
<1>1. CASE \E c \in Search!NumberCommands, n \in Numbers : Search!SendCommand(c, <<n>>, Search!NumberSize)
  <2>1. PICK c \in Search!NumberCommands, n \in Numbers : Search!SendCommand(c, <<n>>, Search!NumberSize)
    BY <1>1
  <2>2. /\ c \in Commands /\ n \in Seq(Symbol) /\ Search!NameSize(n) \in Nat /\ Search!NumberSize \in Nat
        /\ Search!NameSize(n) <= Search!NumberSize
    BY Given DEF Commands
  <2>3. <<n>> \in Seq(Seq(Symbol)) /\ Len(ArgsOf(<<n>>)) <= Search!NumberSize
    BY <2>2, OneArg
  <2> QED BY <2>1, <2>2, <2>3, CommandKeeps
<1>2. CASE \E c \in Search!MoveCommands, m, n \in Numbers :
             Search!SendCommand(c, <<m, n>>, Search!NumberSize + Search!NumberSize)
  <2>1. PICK c \in Search!MoveCommands, m \in Numbers, n \in Numbers :
          Search!SendCommand(c, <<m, n>>, Search!NumberSize + Search!NumberSize)
    BY <1>2
  <2>2. /\ c \in Commands /\ m \in Seq(Symbol) /\ n \in Seq(Symbol)
        /\ Search!NameSize(m) \in Nat /\ Search!NameSize(n) \in Nat /\ Search!NumberSize \in Nat
        /\ Search!NameSize(m) <= Search!NumberSize /\ Search!NameSize(n) <= Search!NumberSize
    BY Given DEF Commands
  <2>3. <<m, n>> \in Seq(Seq(Symbol)) /\ Len(ArgsOf(<<m, n>>)) = Search!NameSize(m) + Search!NameSize(n)
    BY <2>2, TwoArgs
  <2>4. Search!NumberSize + Search!NumberSize \in Nat /\ Len(ArgsOf(<<m, n>>)) <= Search!NumberSize + Search!NumberSize
    BY <2>2, <2>3
  <2> QED BY <2>1, <2>2, <2>3, <2>4, CommandKeeps
<1> QED BY <1>1, <1>2 DEF Search!SendNumbers

LEMMA NamesKeep == Searching /\ Search!SendNames => Searching'
<1> SUFFICES ASSUME Searching, Search!SendNames PROVE Searching'
  OBVIOUS
<1>1. ASSUME NEW c \in Search!BrowseCommands, NEW name \in Phrases, Search!SendCommand(c, <<name>>, Search!NameSize(name))
      PROVE  Searching'
  <2>1. c \in Commands /\ name \in Seq(Symbol) /\ Search!NameSize(name) \in Nat
    BY Given DEF Commands
  <2>2. <<name>> \in Seq(Seq(Symbol)) /\ Len(ArgsOf(<<name>>)) <= Search!NameSize(name)
    BY <2>1, OneArg
  <2> QED BY <1>1, <2>1, <2>2, CommandKeeps
<1>2. ASSUME NEW c \in Search!PlaylistCommands, NEW from \in Phrases, NEW to \in Phrases,
             Search!SendCommand(c, <<from, to>>, Search!NameSize(from) + Search!NameSize(to))
      PROVE  Searching'
  <2>1. /\ c \in Commands /\ from \in Seq(Symbol) /\ to \in Seq(Symbol)
        /\ Search!NameSize(from) \in Nat /\ Search!NameSize(to) \in Nat
    BY Given DEF Commands
  <2>2. /\ <<from, to>> \in Seq(Seq(Symbol))
        /\ Len(ArgsOf(<<from, to>>)) = Search!NameSize(from) + Search!NameSize(to)
    BY <2>1, TwoArgs
  <2>3. /\ Search!NameSize(from) + Search!NameSize(to) \in Nat
        /\ Len(ArgsOf(<<from, to>>)) <= Search!NameSize(from) + Search!NameSize(to)
    BY <2>1, <2>2
  <2> QED BY <1>2, <2>1, <2>2, <2>3, CommandKeeps
<1>3. ASSUME NEW name \in Phrases, NEW n \in Numbers,
             Search!SendCommand("playlistdelete", <<name, n>>, Search!NameSize(name) + Search!NumberSize)
      PROVE  Searching'
  <2>1. /\ "playlistdelete" \in Commands /\ name \in Seq(Symbol) /\ n \in Seq(Symbol)
        /\ Search!NameSize(name) \in Nat /\ Search!NameSize(n) \in Nat /\ Search!NumberSize \in Nat
        /\ Search!NameSize(n) <= Search!NumberSize
    BY Given DEF Commands
  <2>2. <<name, n>> \in Seq(Seq(Symbol)) /\ Len(ArgsOf(<<name, n>>)) = Search!NameSize(name) + Search!NameSize(n)
    BY <2>1, TwoArgs
  <2>3. Search!NameSize(name) + Search!NumberSize \in Nat /\ Len(ArgsOf(<<name, n>>)) <= Search!NameSize(name) + Search!NumberSize
    BY <2>1, <2>2
  <2> QED BY <1>3, <2>1, <2>2, <2>3, CommandKeeps
<1>4. ASSUME NEW name \in Phrases, NEW from \in Numbers, NEW to \in Numbers,
             Search!SendCommand("playlistmove", <<name, from, to>>, Search!NameSize(name) + Search!NumberSize + Search!NumberSize)
      PROVE  Searching'
  <2>1. /\ "playlistmove" \in Commands
        /\ name \in Seq(Symbol) /\ from \in Seq(Symbol) /\ to \in Seq(Symbol)
        /\ Search!NameSize(name) \in Nat /\ Search!NameSize(from) \in Nat /\ Search!NameSize(to) \in Nat
        /\ Search!NumberSize \in Nat /\ Search!NameSize(from) <= Search!NumberSize /\ Search!NameSize(to) <= Search!NumberSize
    BY Given DEF Commands
  <2>2. /\ <<name, from, to>> \in Seq(Seq(Symbol))
        /\ Len(ArgsOf(<<name, from, to>>)) = (Search!NameSize(name) + Search!NameSize(from)) + Search!NameSize(to)
    BY <2>1, ThreeArgs
  <2>3. /\ Search!NameSize(name) + Search!NumberSize + Search!NumberSize \in Nat
        /\ Len(ArgsOf(<<name, from, to>>)) <= Search!NameSize(name) + Search!NumberSize + Search!NumberSize
    BY <2>1, <2>2
  <2> QED BY <1>4, <2>1, <2>2, <2>3, CommandKeeps
<1> QED BY <1>1, <1>2, <1>3, <1>4 DEF Search!SendNames

LEMMA ListKeeps == Searching /\ Search!SendList => Searching'
<1> SUFFICES ASSUME Searching, Search!SendList PROVE Searching'
  OBVIOUS
<1>1. building' = building /\ meant' = meant
  BY DEF Search!SendList
<1>2. PICK tag \in Search!Tags :
       \/ Search!Execute(Search!Printed(Len(<<"list">>) + 1 + Len(<<tag>>) + 2, Search!Listing(tag) \o <<Search!LF>>),
                  <<<<"list">>, <<tag>>>>)
       \/ \E name \in Phrases :
            Search!Execute(Search!Printed(Len(<<"list">>) + 1 + Len(Search!Sanitize(name)) + 2 + Len(<<tag>>) + 3,
                            Search!Listing(tag) \o <<Search!Space>> \o Search!Quoted(name) \o <<Search!LF>>),
                    <<<<"list">>, <<tag>>, name>>)
  BY DEF Search!SendList
<1>3. /\ Spells(Search!Listing(tag), <<<<"list">>, <<tag>>>>) /\ Len(Search!Listing(tag)) = 3
      /\ Search!Listing(tag) \in Seq(Symbol)
  BY ListingIs
<1>4. Len(<<"list">>) = 1 /\ Len(<<tag>>) = 1
  OBVIOUS
<1>5. CASE Search!Execute(Search!Printed(Len(<<"list">>) + 1 + Len(<<tag>>) + 2, Search!Listing(tag) \o <<Search!LF>>),
                   <<<<"list">>, <<tag>>>>)
  <2> DEFINE room == Len(<<"list">>) + 1 + Len(<<tag>>) + 2
             words == <<<<"list">>, <<tag>>>>
  <2>1. room \in Int /\ Len(Search!Listing(tag)) + 2 <= room
    BY <1>3, <1>4
  <2> HIDE DEF room
  <2>2. Search!MpdWords(Search!Printed(room, Search!Listing(tag) \o <<Search!LF>>)) = words
    BY <1>3, <2>1, EndIs
  <2>3. Search!Execute(Search!Printed(room, Search!Listing(tag) \o <<Search!LF>>), words)
    BY <1>5 DEF room
  <2> HIDE DEF words
  <2>4. Search!WordsArrive'
    BY <2>2, <2>3, SendKeeps
  <2> QED BY <1>1, <2>4 DEF Searching
<1>6. ASSUME NEW name \in Phrases,
             Search!Execute(Search!Printed(Len(<<"list">>) + 1 + Len(Search!Sanitize(name)) + 2 + Len(<<tag>>) + 3,
                             Search!Listing(tag) \o <<Search!Space>> \o Search!Quoted(name) \o <<Search!LF>>),
                     <<<<"list">>, <<tag>>, name>>)
      PROVE  Searching'
  <2> DEFINE room == Len(<<"list">>) + 1 + Len(Search!Sanitize(name)) + 2 + Len(<<tag>>) + 3
             words == <<<<"list">>, <<tag>>, name>>
             line == (Search!Listing(tag) \o <<Search!Space>>) \o Search!Quoted(name)
  <2>1. name \in Seq(Symbol)
    BY Given
  <2>2. Len(Search!Sanitize(name)) \in Nat /\ Search!Quoted(name) \in Seq(Symbol) /\ Arg(name) \in Seq(Symbol)
        /\ Len(Arg(name)) = Len(Search!Sanitize(name)) + 3
    BY <2>1, QuotedIs DEF Arg
  <2>3. line = Search!Listing(tag) \o Arg(name)
    <3> DEFINE blank == <<Search!Space>>
    <3>1. Search!Listing(tag) \in Seq(Symbol) /\ blank \in Seq(Symbol) /\ Search!Quoted(name) \in Seq(Symbol)
      BY <1>3, <2>2, Symbols
    <3>2. Arg(name) = blank \o Search!Quoted(name)
      BY DEF Arg
    <3> HIDE DEF blank
    <3>3. (Search!Listing(tag) \o blank) \o Search!Quoted(name) = Search!Listing(tag) \o (blank \o Search!Quoted(name))
      BY <3>1, ConcatAssociative
    <3> QED BY <3>2, <3>3 DEF blank
  <2>4. Spells(line, Append(<<<<"list">>, <<tag>>>>, name))
    BY <1>3, <2>1, <2>3, SpellsArgument
  <2>5. Append(<<<<"list">>, <<tag>>>>, name) = words
    BY AppendedTo
  <2>6. Len(line) = Len(Search!Listing(tag)) + Len(Arg(name))
    BY <1>3, <2>2, <2>3, ConcatProperties
  <2> HIDE DEF line
  <2>7. room \in Int /\ Len(line) + 2 <= room
    BY <1>3, <1>4, <2>2, <2>6
  <2>8. Search!Execute(Search!Printed(room, line \o <<Search!LF>>), words)
    BY <1>6 DEF line
  <2> HIDE DEF words, room
  <2>9. Spells(line, words)
    BY <2>4, <2>5
  <2>10. Search!MpdWords(Search!Printed(room, line \o <<Search!LF>>)) = words
    BY <2>7, <2>9, EndIs
  <2>11. Search!WordsArrive'
    BY <2>8, <2>10, SendKeeps
  <2> QED BY <1>1, <2>11 DEF Searching
<1> QED BY <1>2, <1>5, <1>6

LEMMA StartsKeep == Searching /\ (Search!StartSearch \/ Search!StartFieldSearch) => Searching'
<1> SUFFICES ASSUME Searching, Search!StartSearch \/ Search!StartFieldSearch PROVE Searching'
  OBVIOUS
<1>1. PICK line, words : Search!Begun(line, words) /\ Spells(line, words)
  <2>1. CASE Search!StartSearch
    <3>1. PICK c \in {"find", "search", "playlistfind", "playlistsearch", "count"} :
            Search!Begun(<<c>>, <<<<c>>>>)
      BY <2>1 DEF Search!StartSearch
    <3>2. c \in Commands
      BY DEF Commands
    <3> QED BY <3>1, <3>2, SpellsCommand
  <2>2. CASE Search!StartFieldSearch
    <3>1. PICK tag \in Search!Tags : Search!Begun(Search!Listing(tag), <<<<"list">>, <<tag>>>>)
      BY <2>2 DEF Search!StartFieldSearch
    <3> QED BY <3>1, ListingIs
  <2> QED BY <2>1, <2>2
<1>2. building' = line /\ meant' = words /\ sent' = sent
  BY <1>1 DEF Search!Begun
<1> QED BY <1>1, <1>2 DEF Searching, Search!WordsArrive

LEMMA ConstraintKeeps ==
  ASSUME Searching, NEW tag \in Search!Tags, NEW name \in Phrases, Search!AddConstraintSearch(tag, name)
  PROVE  Searching'
<1>1. /\ Spells(building, meant) /\ sent' = sent
      /\ building' = Search!Printed(Search!ConstraintRoom(tag, name),
                            building \o <<Search!Space, tag>> \o <<Search!Space>> \o Search!Quoted(name))
      /\ meant' = meant \o <<<<tag>>, name>>
  BY DEF Search!AddConstraintSearch, Searching
<1>2. name \in Seq(Symbol) /\ Len(Search!Sanitize(name)) \in Nat /\ Len(building) \in Nat
  <2>1. name \in Seq(Symbol)
    BY Given
  <2>2. building \in Seq(Symbol)
    BY <1>1, SpellsIn
  <2> QED BY <2>1, <2>2, QuotedIs, LenProperties
<1> DEFINE more == building \o <<Search!Space, tag>> \o <<Search!Space>> \o Search!Quoted(name)
<1>3. Spells(more, meant \o <<<<tag>>, name>>) /\ Len(more) = Len(building) + Len(Search!Sanitize(name)) + 5
  BY <1>1, <1>2, ConstraintIs
<1>4. building' = Search!Printed(Search!ConstraintRoom(tag, name), more)
  BY <1>1
<1> HIDE DEF more
<1>5. Len(<<tag>>) = 1
  OBVIOUS
<1>6. Search!ConstraintRoom(tag, name) \in Int /\ Len(more) <= Search!ConstraintRoom(tag, name) - 1
  BY <1>2, <1>3, <1>5 DEF Search!ConstraintRoom
<1>7. more \in Seq(Symbol)
  BY <1>3, SpellsIn
<1>8. building' = more
  BY <1>4, <1>6, <1>7, PrintedWhole
<1> QED BY <1>1, <1>3, <1>8 DEF Searching, Search!WordsArrive

LEMMA CommitKeeps == Searching /\ Search!CommitSearch => Searching'
<1> SUFFICES ASSUME Searching, Search!CommitSearch PROVE Searching'
  OBVIOUS
<1>1. Spells(building, meant) /\ Search!Execute(Append(building, Search!LF), meant) /\ building' = Search!Null
  BY DEF Search!CommitSearch, Searching
<1>2. Append(building, Search!LF) = building \o <<Search!LF>>
  <2>1. building \in Seq(Symbol) /\ Search!LF \in Symbol
    BY <1>1, SpellsIn, Symbols
  <2> QED BY <2>1, AppendIsConcat
<1>3. Search!MpdWords(Append(building, Search!LF)) = meant
  BY <1>1, <1>2, SpellsEnd
<1>4. Search!WordsArrive'
  BY <1>1, <1>3, SendKeeps
<1> QED BY <1>1, <1>4 DEF Searching

LEMMA FinishKeeps == Searching /\ Search!FinishCommand => Searching'
<1> SUFFICES ASSUME Searching, Search!FinishCommand PROVE Searching'
  OBVIOUS
<1>1. sent'.line = <<>> /\ sent'.words = <<>> /\ building' = building /\ meant' = meant
  BY DEF Search!FinishCommand, Search!Nothing
<1>2. Search!MpdWords(<<>>) = <<>>
  BY AtStart
<1> QED BY <1>1, <1>2 DEF Searching, Search!WordsArrive

THEOREM Searches == Search!Spec => []Searching
<1>1. Searching /\ [Search!Next]_Search!vars => Searching'
  <2> SUFFICES ASSUME Searching, [Search!Next]_Search!vars PROVE Searching'
    OBVIOUS
  <2>1. CASE Search!SendNumbers
    BY <2>1, NumbersKeep
  <2>2. CASE Search!SendNames
    BY <2>2, NamesKeep
  <2>3. CASE Search!SendList
    BY <2>3, ListKeeps
  <2>4. CASE Search!StartSearch \/ Search!StartFieldSearch
    BY <2>4, StartsKeep
  <2>5. CASE Search!CommitSearch
    BY <2>5, CommitKeeps
  <2>6. CASE Search!FinishCommand
    BY <2>6, FinishKeeps
  <2>7. ASSUME NEW tag \in Search!Tags, NEW name \in Phrases, Search!AddConstraintSearch(tag, name)
        PROVE  Searching'
    BY <2>7, ConstraintKeeps
  <2>8. CASE UNCHANGED Search!vars
    BY <2>8 DEF Search!vars, Searching, Search!WordsArrive
  <2> QED BY <2>1, <2>2, <2>3, <2>4, <2>5, <2>6, <2>7, <2>8 DEF Search!Next
<1> QED BY <1>1, SearchBegins, PTL DEF Search!Spec

(* In MoreTools, what runs as search is Search, and the others never become it. *)
LEMMA SearchAlone ==
  /\ MoreSpec /\ which = "search" => Search!Spec
  /\ MoreSpec /\ ~(which = "search") => []~(which = "search")
<1>1. MoreInit /\ which = "search" => Search!Init
  BY DEF MoreInit
<1>2. which = "search" /\ [MoreNext]_ofMore => (which = "search")' /\ [Search!Next]_Search!vars
  BY DEF MoreNext, ofMore, ofSearch, Search!vars
<1>3. ~(which = "search") /\ [MoreNext]_ofMore => ~(which = "search")'
  BY DEF MoreNext, ofMore
<1> QED BY <1>1, <1>2, <1>3, PTL DEF MoreSpec, Search!Spec

(* MPD reads the words that were meant, whatever characters they are of,   *)
(* however many constraints there are and whatever was sent in between.    *)
THEOREM BringsWords == MoreSpec => []WordsArrive
<1>1. Searching => Search!WordsArrive
  BY DEF Searching
<1> QED BY <1>1, Searches, SearchAlone, PTL DEF WordsArrive

-----------------------------------------------------------------------------
(* Mpd-state: a restore takes effect in the step it ends successfully      *)
(* with, or not at all.                                                    *)
Restoring == {"clear", "line", "songs", "outputs", "end"}

(* From the beginning of the list to its end MPD collects commands, unless *)
(* the beginning may have been lost, with the connection or by a timeout.  *)
Collecting == place \in Restoring /\ ~lost /\ ~dropped => listOpen

(* How often others have changed something is counted.                     *)
Counted == changes \in Nat

Atomic == Collecting /\ Counted

(* A call of the library never begins a list or ends one that goes on, and *)
(* while one is collected it does nothing to MPD.                          *)
LEMMA CallKeepsList ==
  ASSUME NEW c, State!Calls(c)
  PROVE  /\ listOpen' => listOpen
         /\ listOpen /\ ~lost' => listOpen'
         /\ lost => lost' /\ server' = server
         /\ dropped => dropped'
         /\ listOpen => server' = server
BY DEF State!Calls, State!mpd

(* The actions that make one call, and where they leave the loop.          *)
OneCall == State!Clear \/ State!ReadSetting \/ State!ReadSong \/ State!ReadOutput \/ State!Seek

LEMMA CallMade ==
  ASSUME OneCall
  PROVE  place \in Restoring /\ changes' = changes /\ \E c : State!Calls(c)
<1>1. CASE State!Clear
  BY <1>1 DEF State!Clear, Restoring
<1>2. CASE State!ReadSetting
  BY <1>2 DEF State!ReadSetting, Restoring
<1>3. CASE State!ReadSong
  BY <1>3 DEF State!ReadSong, Restoring
<1>4. CASE State!ReadOutput
  BY <1>4 DEF State!ReadOutput, Restoring
<1>5. CASE State!Seek
  BY <1>5 DEF State!Seek, Restoring
<1> QED BY <1>1, <1>2, <1>3, <1>4, <1>5 DEF OneCall

(* Everything else in the loop, and everything before it, leaves MPD and   *)
(* its list alone.                                                         *)
Leaves ==
  \/ State!PrintStatus \/ State!PrintPlaylist \/ State!PrintOutputs \/ State!FileChanges
  \/ State!ReadCurrent \/ State!ReadBegin \/ State!ReadEnd

LEMMA NothingSent ==
  ASSUME Leaves
  PROVE  /\ UNCHANGED State!mpd
         /\ place \notin Restoring => place' \notin Restoring
         /\ changes' \in {changes, changes + 1}
<1>1. CASE State!PrintStatus
  BY <1>1 DEF State!PrintStatus, State!Prints, Restoring
<1>2. CASE State!PrintPlaylist
  BY <1>2 DEF State!PrintPlaylist, State!Prints, Restoring
<1>3. CASE State!PrintOutputs
  BY <1>3 DEF State!PrintOutputs, State!Prints, Restoring
<1>4. CASE State!FileChanges
  BY <1>4 DEF State!FileChanges, Restoring
<1>5. CASE State!ReadCurrent
  BY <1>5 DEF State!ReadCurrent, Restoring
<1>6. CASE State!ReadBegin
  BY <1>6 DEF State!ReadBegin, Restoring
<1>7. CASE State!ReadEnd
  BY <1>7 DEF State!ReadEnd, Restoring
<1> QED BY <1>1, <1>2, <1>3, <1>4, <1>5, <1>6, <1>7 DEF Leaves

LEMMA StateSteps ==
  ASSUME State!Next
  PROVE  Leaves \/ OneCall \/ State!ListBegin \/ State!ReadState \/ State!ListEnd \/ State!OtherClient
BY DEF State!Next, Leaves, OneCall

(* The inductive invariant.  After mpd_sendCommandListBegin                *)
(* (mpd-state.c:219) every path through the three loops of restore keeps   *)
(* the list open, or has lost the connection or a command.                 *)
LEMMA AtomicBegins == State!Init => Atomic
BY DEF State!Init, Atomic, Collecting, Restoring, Counted

LEMMA AtomicKept == ASSUME Atomic, [State!Next]_(State!vars) PROVE Atomic'
<1> USE DEF Atomic
<1>1. CASE Leaves
  <2>1. UNCHANGED <<listOpen, lost, dropped>>
    BY <1>1, NothingSent DEF State!mpd
  <2>2. place' \in Restoring => place \in Restoring
    BY <1>1, NothingSent
  <2>3. Counted'
    BY <1>1, NothingSent DEF Counted
  <2> QED BY <2>1, <2>2, <2>3 DEF Collecting
<1>2. CASE OneCall
  <2>1. place \in Restoring /\ changes' = changes
    BY <1>2, CallMade
  <2>2. (listOpen /\ ~lost' => listOpen') /\ (lost => lost') /\ (dropped => dropped')
    BY <1>2, CallMade, CallKeepsList
  <2> QED BY <2>1, <2>2 DEF Collecting, Counted
<1>3. CASE State!ListBegin
  BY <1>3 DEF State!ListBegin, Collecting, Counted, State!Begins
<1>4. CASE State!ReadState
  BY <1>4 DEF State!ReadState, Collecting, Counted, Restoring
<1>5. CASE State!ListEnd
  BY <1>5 DEF State!ListEnd, Collecting, Counted, Restoring
<1>6. CASE State!OtherClient
  BY <1>6 DEF State!OtherClient, Collecting, Counted
<1>7. CASE UNCHANGED State!vars
  BY <1>7 DEF State!vars, State!mpd, Collecting, Counted
<1> QED BY <1>1, <1>2, <1>3, <1>4, <1>5, <1>6, <1>7, StateSteps

(* While a restore goes on MPD collects its commands, unless the beginning *)
(* of the list may have been lost.                                         *)
THEOREM Collects == State!Spec => []Collecting
<1>1. Atomic => Collecting
  BY DEF Atomic
<1> QED BY <1>1, AtomicBegins, AtomicKept, PTL DEF State!Spec

(* A restore changes MPD only in the step it ends successfully with, if no *)
(* command timed out, which might be the list's beginning.                 *)
LEMMA AtTheEnd == Atomic /\ [State!Next]_(State!vars) => State!OnlyAtTheEnd
<1> SUFFICES ASSUME Collecting, Counted, State!Next,
                    server' # server, changes' = changes, ~dropped
             PROVE  exit' = 0
  BY DEF State!vars, State!mpd, Atomic, State!OnlyAtTheEnd
<1>1. CASE Leaves
  BY <1>1, NothingSent DEF State!mpd
<1>2. CASE OneCall
  <2>1. place \in Restoring
    BY <1>2, CallMade
  <2>2. (listOpen => server' = server) /\ (lost => server' = server)
    BY <1>2, CallMade, CallKeepsList
  <2> QED BY <2>1, <2>2 DEF Collecting
<1>3. CASE State!ListBegin
  BY <1>3 DEF State!ListBegin
<1>4. CASE State!ReadState
  BY <1>4 DEF State!ReadState
<1>5. CASE State!ListEnd
  BY <1>5 DEF State!ListEnd
<1>6. CASE State!OtherClient
  <2>1. changes' = changes + 1
    BY <1>6 DEF State!OtherClient
  <2> QED BY <2>1 DEF Counted
<1> QED BY <1>1, <1>2, <1>3, <1>4, <1>5, <1>6, StateSteps

(* In MoreTools, what runs as mpd-state is State, and the others never become it. *)
LEMMA StateAlone ==
  /\ MoreSpec /\ which = "mpd-state" => State!Spec
  /\ MoreSpec /\ ~(which = "mpd-state") => []~(which = "mpd-state")
<1>1. MoreInit /\ which = "mpd-state" => State!Init
  BY DEF MoreInit
<1>2. which = "mpd-state" /\ [MoreNext]_ofMore => (which = "mpd-state")' /\ [State!Next]_(State!vars)
  BY DEF MoreNext, ofMore, ofState, State!vars, State!mpd, State!switches
<1>3. ~(which = "mpd-state") /\ [MoreNext]_ofMore => ~(which = "mpd-state")'
  BY DEF MoreNext, ofMore
<1> QED BY <1>1, <1>2, <1>3, PTL DEF MoreSpec, State!Spec

(* A restore changes MPD only in the step it ends successfully with, if no *)
(* command timed out, whatever the songs, the outputs and the file are.    *)
THEOREM RestoresAtTheEnd == MoreSpec => ChangesAtTheEnd
<1>1. Collecting /\ Counted <=> Atomic
  BY DEF Atomic
<1>2. Atomic /\ which = "mpd-state" /\ [MoreNext]_ofMore => [which = "mpd-state" => State!OnlyAtTheEnd]_ofMore
  BY AtTheEnd DEF MoreNext
<1>3. ~(which = "mpd-state") => [which = "mpd-state" => State!OnlyAtTheEnd]_ofMore
  OBVIOUS
<1> QED BY <1>2, <1>3, AtomicBegins, AtomicKept, StateAlone, PTL DEF MoreSpec, State!Spec, ChangesAtTheEnd

-----------------------------------------------------------------------------
(* Mpd-state: what a restore does to MPD is what it has read.              *)
Value    == Tracks \cup Devices \cup Int
Key      == {"state", "current", "setting", "song", "on", "off",
             "playlist_begin", "playlist_end", "outputs_begin", "outputs_end"}
FileLine == [key : Key, val : Value]
Server   == [playlist : Seq(Value), outputs : SUBSET Value, setting : Value, song : Value]
MpdCommand == [name : {"clear", "add", "setting", "on", "off", "seek"}, arg : Value]

(* What MPD is after some commands.                                        *)
LEMMA CommandIs ==
  ASSUME NEW name, NEW arg
  PROVE  State!Command(name, arg).name = name /\ State!Command(name, arg).arg = arg
BY DEF State!Command

LEMMA EffectIs ==
  ASSUME NEW s \in Server, NEW c \in MpdCommand
  PROVE  /\ State!Effect(s, c) \in Server
         /\ State!Effect(s, c).playlist = IF c.name = "clear" THEN <<>>
                                    ELSE IF c.name = "add" THEN Append(s.playlist, c.arg) ELSE s.playlist
         /\ State!Effect(s, c).outputs = IF c.name = "on" THEN s.outputs \cup {c.arg}
                                   ELSE IF c.name = "off" THEN s.outputs \ {c.arg} ELSE s.outputs
<1>0. /\ s.playlist \in Seq(Value) /\ s.outputs \subseteq Value /\ s.setting \in Value /\ s.song \in Value
      /\ c.arg \in Value /\ -1 \in Value /\ <<>> \in Seq(Value)
  BY DEF Server, MpdCommand, Value
<1>1. CASE c.name = "clear"
  <2>1. State!Effect(s, c) = [s EXCEPT !.playlist = <<>>, !.song = -1]
    BY <1>1 DEF State!Effect
  <2> QED BY <1>0, <1>1, <2>1 DEF Server
<1>2. CASE c.name = "add"
  <2>1. State!Effect(s, c) = [s EXCEPT !.playlist = Append(@, c.arg)]
    BY <1>2 DEF State!Effect
  <2>2. Append(s.playlist, c.arg) \in Seq(Value)
    BY <1>0
  <2> QED BY <1>0, <1>2, <2>1, <2>2 DEF Server
<1>3. CASE c.name = "setting"
  <2>1. State!Effect(s, c) = [s EXCEPT !.setting = c.arg]
    BY <1>3 DEF State!Effect
  <2> QED BY <1>0, <1>3, <2>1 DEF Server
<1>4. CASE c.name = "on"
  <2>1. State!Effect(s, c) = [s EXCEPT !.outputs = @ \cup {c.arg}]
    BY <1>4 DEF State!Effect
  <2> QED BY <1>0, <1>4, <2>1 DEF Server
<1>5. CASE c.name = "off"
  <2>1. State!Effect(s, c) = [s EXCEPT !.outputs = @ \ {c.arg}]
    BY <1>5 DEF State!Effect
  <2> QED BY <1>0, <1>5, <2>1 DEF Server
<1>6. CASE c.name = "seek"
  <2>1. State!Effect(s, c) = [s EXCEPT !.song = c.arg] \/ State!Effect(s, c) = s
    BY <1>6 DEF State!Effect
  <2> QED BY <1>0, <1>6, <2>1 DEF Server
<1> QED BY <1>1, <1>2, <1>3, <1>4, <1>5, <1>6 DEF MpdCommand

DoneTo(f, s, commands) ==
  \A n \in 0..Len(commands) :
    f[n] \in Server /\ f[n] = IF n = 0 THEN s ELSE State!Effect(f[n - 1], commands[n])

LEMMA ExecuteIs ==
  ASSUME NEW s \in Server, NEW commands \in Seq(MpdCommand)
  PROVE  \E f : DoneTo(f, s, commands) /\ State!Execute(s, commands) = f[Len(commands)]
<1> DEFINE step == [x \in Server |-> [c \in MpdCommand |-> State!Effect(x, c)]]
           Is(f) == f = [n \in 0..Len(commands) |-> IF n = 0 THEN s ELSE State!Effect(f[n - 1], commands[n])]
<1>1. \A x \in Server, c \in MpdCommand : step[x][c] \in Server /\ step[x][c] = State!Effect(x, c)
  BY EffectIs
<1>2. Len(commands) \in Nat /\ \A n \in 1..Len(commands) : commands[n] \in MpdCommand
  OBVIOUS
<1>3. PICK h : Recurs(h, Server, s, step, commands)
  <2>1. Stays(step, Server, MpdCommand)
    BY <1>1 DEF Stays
  <2> HIDE DEF step, Is
  <2> QED BY <2>1, Recursion
<1> HIDE DEF step
<1>4. DoneTo(h, s, commands)
  <2> SUFFICES ASSUME NEW n \in 0..Len(commands)
               PROVE  h[n] \in Server /\ h[n] = IF n = 0 THEN s ELSE State!Effect(h[n - 1], commands[n])
    BY DEF DoneTo
  <2>1. h[n] \in Server /\ h[n] = IF n = 0 THEN s ELSE step[h[n - 1]][commands[n]]
    BY <1>3 DEF Recurs
  <2>2. CASE n # 0
    <3>1. n \in 1..Len(commands) /\ n - 1 \in 0..Len(commands)
      BY <1>2, <2>2
    <3>2. h[n - 1] \in Server /\ commands[n] \in MpdCommand
      BY <1>2, <1>3, <3>1 DEF Recurs
    <3> QED BY <1>1, <2>1, <2>2, <3>2
  <2> QED BY <2>1, <2>2
<1>5. Is([n \in 0..Len(commands) |-> h[n]])
  <2>1. \A n \in 0..Len(commands) : h[n] = IF n = 0 THEN s ELSE State!Effect(h[n - 1], commands[n])
    BY <1>4 DEF DoneTo
  <2>2. \A n \in 0..Len(commands) : n # 0 => n - 1 \in 0..Len(commands)
    BY <1>2
  <2> QED BY <2>1, <2>2
<1> DEFINE g == CHOOSE f : Is(f)
<1>6. Is(g)
  <2> HIDE DEF Is
  <2> QED BY <1>5
<1>7. State!Execute(s, commands) = g[Len(commands)]
  BY DEF State!Execute
<1> HIDE DEF g
<1>8. \A n \in 0..Len(commands) : g[n] = IF n = 0 THEN s ELSE State!Effect(g[n - 1], commands[n])
  BY <1>6
<1> HIDE DEF Is
<1>9. \A n \in 0..Len(commands) : g[n] = h[n]
  <2>1. g[0] = h[0] /\ GoOnAlike(g, h, Len(commands))
    BY <1>2, <1>4, <1>8 DEF GoOnAlike, DoneTo
  <2> QED BY <1>2, <2>1, AlikeTo DEF Alike
<1>10. g[Len(commands)] = h[Len(commands)]
  BY <1>2, <1>9
<1> QED BY <1>4, <1>7, <1>10

LEMMA ExecuteNone == ASSUME NEW s \in Server PROVE State!Execute(s, <<>>) = s
<1>1. <<>> \in Seq(MpdCommand) /\ Len(<<>>) = 0
  OBVIOUS
<1>2. PICK f : DoneTo(f, s, <<>>) /\ State!Execute(s, <<>>) = f[Len(<<>>)]
  BY <1>1, ExecuteIs
<1> QED BY <1>1, <1>2 DEF DoneTo

LEMMA ExecuteAppended ==
  ASSUME NEW s \in Server, NEW commands \in Seq(MpdCommand), NEW c \in MpdCommand
  PROVE  /\ State!Execute(s, commands) \in Server
         /\ State!Execute(s, Append(commands, c)) = State!Effect(State!Execute(s, commands), c)
<1> DEFINE t == Append(commands, c)
<1>1. /\ t \in Seq(MpdCommand) /\ Len(t) = Len(commands) + 1 /\ Len(commands) \in Nat
      /\ t[Len(commands) + 1] = c /\ \A n \in 1..Len(commands) : t[n] = commands[n]
  OBVIOUS
<1> HIDE DEF t
<1>2. PICK f : DoneTo(f, s, commands) /\ State!Execute(s, commands) = f[Len(commands)]
  BY ExecuteIs
<1>3. PICK g : DoneTo(g, s, t) /\ State!Execute(s, t) = g[Len(t)]
  BY <1>1, ExecuteIs
<1>4. \A n \in 0..Len(commands) : g[n] = f[n]
  <2>1. g[0] = f[0]
    BY <1>1, <1>2, <1>3 DEF DoneTo
  <2>2. GoOnAlike(g, f, Len(commands))
    BY <1>1, <1>2, <1>3 DEF GoOnAlike, DoneTo
  <2> QED BY <1>1, <2>1, <2>2, AlikeTo DEF Alike
<1>5. g[Len(t)] = State!Effect(f[Len(commands)], c)
  <2>1. Len(t) \in 0..Len(t) /\ Len(t) # 0 /\ Len(t) - 1 = Len(commands) /\ Len(commands) \in 0..Len(commands)
    BY <1>1
  <2>2. g[Len(t)] = State!Effect(g[Len(commands)], t[Len(t)])
    BY <1>3, <2>1 DEF DoneTo
  <2> QED BY <1>1, <1>4, <2>1, <2>2
<1>6. f[Len(commands)] \in Server
  BY <1>1, <1>2 DEF DoneTo
<1> QED BY <1>2, <1>3, <1>5, <1>6 DEF t

(* The songs of a file, up to a line.                                      *)
SongsTo(f, lines) ==
  \A n \in 0..Len(lines) :
    /\ f[n] \in Seq(Value)
    /\ f[n] = IF n = 0 THEN <<>>
              ELSE IF lines[n].key = "song" THEN Append(f[n - 1], lines[n].val) ELSE f[n - 1]

LEMMA SavedSongsIs ==
  ASSUME saved \in Seq(FileLine)
  PROVE  \E f : SongsTo(f, saved) /\ State!SavedSongs = f[Len(saved)]
<1> DEFINE Next1(x, l) == IF l.key = "song" THEN Append(x, l.val) ELSE x
           step == [x \in Seq(Value) |-> [l \in FileLine |-> Next1(x, l)]]
           Is(f) == f = [n \in 0..Len(saved) |->
                           IF n = 0 THEN <<>>
                           ELSE IF saved[n].key = "song" THEN Append(f[n - 1], saved[n].val) ELSE f[n - 1]]
<1>1. \A x \in Seq(Value), l \in FileLine : step[x][l] \in Seq(Value) /\ step[x][l] = Next1(x, l)
  <2>1. \A x \in Seq(Value), l \in FileLine : Next1(x, l) \in Seq(Value)
    BY DEF FileLine
  <2> QED BY <2>1
<1>2. Len(saved) \in Nat /\ \A n \in 1..Len(saved) : saved[n] \in FileLine
  OBVIOUS
<1>3. PICK h : Recurs(h, Seq(Value), <<>>, step, saved)
  <2>1. Stays(step, Seq(Value), FileLine)
    BY <1>1 DEF Stays
  <2>2. <<>> \in Seq(Value)
    OBVIOUS
  <2> HIDE DEF step, Is
  <2> QED BY <2>1, <2>2, Recursion
<1> HIDE DEF step
<1>4. SongsTo(h, saved)
  <2> SUFFICES ASSUME NEW n \in 0..Len(saved)
               PROVE  h[n] \in Seq(Value) /\ h[n] = IF n = 0 THEN <<>> ELSE Next1(h[n - 1], saved[n])
    BY DEF SongsTo
  <2>1. h[n] \in Seq(Value) /\ h[n] = IF n = 0 THEN <<>> ELSE step[h[n - 1]][saved[n]]
    BY <1>3 DEF Recurs
  <2>2. CASE n # 0
    <3>1. n \in 1..Len(saved) /\ n - 1 \in 0..Len(saved)
      BY <1>2, <2>2
    <3>2. h[n - 1] \in Seq(Value) /\ saved[n] \in FileLine
      BY <1>2, <1>3, <3>1 DEF Recurs
    <3> HIDE DEF Next1
    <3> QED BY <1>1, <2>1, <2>2, <3>2
  <2> QED BY <2>1, <2>2
<1>5. Is([n \in 0..Len(saved) |-> h[n]])
  <2>1. \A n \in 0..Len(saved) :
          h[n] = IF n = 0 THEN <<>>
                 ELSE IF saved[n].key = "song" THEN Append(h[n - 1], saved[n].val) ELSE h[n - 1]
    BY <1>4 DEF SongsTo
  <2>2. \A n \in 0..Len(saved) : n # 0 => n - 1 \in 0..Len(saved)
    BY <1>2
  <2> QED BY <2>1, <2>2
<1> DEFINE g == CHOOSE f : Is(f)
<1>6. Is(g)
  <2> HIDE DEF Is
  <2> QED BY <1>5
<1>7. State!SavedSongs = g[Len(saved)]
  BY DEF State!SavedSongs
<1> HIDE DEF g
<1>8. \A n \in 0..Len(saved) :
        g[n] = IF n = 0 THEN <<>>
               ELSE IF saved[n].key = "song" THEN Append(g[n - 1], saved[n].val) ELSE g[n - 1]
  BY <1>6
<1> HIDE DEF Is
<1>9. \A n \in 0..Len(saved) : g[n] = h[n]
  <2>1. g[0] = h[0] /\ GoOnAlike(g, h, Len(saved))
    BY <1>2, <1>4, <1>8 DEF GoOnAlike, SongsTo
  <2> QED BY <1>2, <2>1, AlikeTo DEF Alike
<1>10. g[Len(saved)] = h[Len(saved)]
  BY <1>2, <1>9
<1> QED BY <1>4, <1>7, <1>10


(* The lines of a file that says which outputs are enabled, or says        *)
(* nothing of them.                                                        *)
LinesOf(enabled) ==
  {l \in FileLine : (l.key = "on" => l.val \in enabled) /\ (l.key = "off" => l.val \notin enabled)}
PlainLines == {l \in FileLine : l.key \notin {"on", "off"}}

LEMMA EntryIs ==
  ASSUME NEW k \in Key, NEW v \in Value
  PROVE  /\ State!Entry(k, v) \in FileLine /\ State!Entry(k, v).key = k /\ State!Entry(k, v).val = v
         /\ k \notin {"on", "off"} => State!Entry(k, v) \in PlainLines
BY DEF State!Entry, FileLine, PlainLines

LEMMA PlainOf == ASSUME NEW enabled PROVE PlainLines \subseteq LinesOf(enabled)
BY DEF PlainLines, LinesOf

LEMMA LinesToo == ASSUME NEW A, NEW B, A \subseteq B, NEW s \in Seq(A) PROVE s \in Seq(B)
OBVIOUS

(* What is printed of lines of one kind are lines of that kind.            *)
LEMMA PiecesOf ==
  ASSUME NEW B, NEW lines \in Seq(B), NEW piece \in State!Prefixes(lines)
  PROVE  piece \in Seq(B)
<1>1. PICK l \in 0..Len(lines) : piece = SubSeq(lines, 1, l)
  BY DEF State!Prefixes
<1>2. l \in Int /\ 1 \in Int /\ \A i \in 1..l : lines[i] \in B
  OBVIOUS
<1>3. SubSeq(lines, 1, l) \in Seq(B)
  BY <1>2, SubSeqProperties
<1> QED BY <1>1, <1>3

LEMMA SectionOf ==
  ASSUME NEW enabled, NEW lines \in Seq(LinesOf(enabled)), NEW begin, NEW end,
         begin \in Key \ {"on", "off"}, end \in Key \ {"on", "off"}
  PROVE  State!Section(begin, lines, end) \in Seq(LinesOf(enabled))
<1>1. State!Entry(begin, 0) \in LinesOf(enabled) /\ State!Entry(end, 0) \in LinesOf(enabled)
  BY EntryIs, PlainOf DEF Value
<1> DEFINE B == LinesOf(enabled)
           first == <<State!Entry(begin, 0)>>
           last  == <<State!Entry(end, 0)>>
<1>2. first \in Seq(B) /\ last \in Seq(B) /\ lines \in Seq(B)
  BY <1>1
<1>3. State!Section(begin, lines, end) = first \o lines \o last
  BY DEF State!Section
<1> HIDE DEF B, first, last
<1>4. first \o lines \in Seq(B)
  BY <1>2, ConcatProperties
<1>5. first \o lines \o last \in Seq(B)
  BY <1>2, <1>4, ConcatProperties
<1> QED BY <1>3, <1>5 DEF B

LEMMA SectionPlain ==
  ASSUME NEW lines \in Seq(PlainLines), NEW begin, NEW end,
         begin \in Key \ {"on", "off"}, end \in Key \ {"on", "off"}
  PROVE  State!Section(begin, lines, end) \in Seq(PlainLines)
<1>1. State!Entry(begin, 0) \in PlainLines /\ State!Entry(end, 0) \in PlainLines
  BY EntryIs DEF Value
<1> DEFINE first == <<State!Entry(begin, 0)>>
           last  == <<State!Entry(end, 0)>>
<1>2. first \in Seq(PlainLines) /\ last \in Seq(PlainLines)
  BY <1>1
<1>3. State!Section(begin, lines, end) = first \o lines \o last
  BY DEF State!Section
<1> HIDE DEF first, last
<1>4. first \o lines \in Seq(PlainLines)
  BY <1>2, ConcatProperties
<1>5. first \o lines \o last \in Seq(PlainLines)
  BY <1>2, <1>4, ConcatProperties
<1> QED BY <1>3, <1>5

(* What is printed of each part.                                           *)
LEMMA StatusPlain == ASSUME server \in Server PROVE State!StatusLines \in Seq(PlainLines)
<1>1. server.song \in Value /\ server.setting \in Value /\ 0 \in Value
  BY DEF Server, Value
<1> DEFINE current == IF server.song = -1 THEN 0 ELSE server.song
<1>2. current \in Value
  BY <1>1
<1> HIDE DEF current
<1>3. /\ State!Entry("state", 0) \in PlainLines /\ State!Entry("current", current) \in PlainLines
      /\ State!Entry("setting", server.setting) \in PlainLines
  BY <1>1, <1>2, EntryIs DEF Key
<1>4. State!StatusLines = <<State!Entry("state", 0), State!Entry("current", current), State!Entry("setting", server.setting)>>
  BY DEF State!StatusLines, current
<1> QED BY <1>3, <1>4

LEMMA SongsPlain == ASSUME server \in Server PROVE State!SongLines \in Seq(PlainLines)
<1>1. server.playlist \in Seq(Value)
  BY DEF Server
<1>2. \A v \in Value : State!Entry("song", v) \in PlainLines
  BY EntryIs DEF Key
<1>3. DOMAIN server.playlist = 1..Len(server.playlist) /\ Len(server.playlist) \in Nat
  BY <1>1
<1>4. \A i \in 1..Len(server.playlist) : State!Entry("song", server.playlist[i]) \in PlainLines
  BY <1>1, <1>2
<1>5. [i \in 1..Len(server.playlist) |-> State!Entry("song", server.playlist[i])] \in [1..Len(server.playlist) -> PlainLines]
  BY <1>4
<1>6. State!SongLines = [i \in 1..Len(server.playlist) |-> State!Entry("song", server.playlist[i])]
  BY <1>3 DEF State!SongLines
<1> QED BY <1>3, <1>5, <1>6

LEMMA AsFiniteSets ==
  ASSUME NEW S, NEW f
  PROVE  State!Cardinality(S) = Cardinality(S) /\ (State!IsInjective(f) <=> IsInjective(f))
BY DEF State!Cardinality, Cardinality, State!IsInjective, IsInjective

LEMMA OutputsListed == ASSUME server \in Server PROVE State!OutputLines \in Seq(LinesOf(server.outputs))
<1> DEFINE L == {State!OutputLine(o) : o \in Devices}
<1>1. L \subseteq LinesOf(server.outputs)
  <2> SUFFICES ASSUME NEW o \in Devices PROVE State!OutputLine(o) \in LinesOf(server.outputs)
    OBVIOUS
  <2>1. o \in Value
    BY DEF Value
  <2>2. /\ o \in server.outputs => State!OutputLine(o) = State!Entry("on", o)
        /\ o \notin server.outputs => State!OutputLine(o) = State!Entry("off", o)
    BY DEF State!OutputLine
  <2>3. \A k \in {"on", "off"} :
          State!Entry(k, o) \in FileLine /\ State!Entry(k, o).key = k /\ State!Entry(k, o).val = o
    BY <2>1, EntryIs DEF Key
  <2> QED BY <2>2, <2>3 DEF LinesOf
<1>2. IsFiniteSet(L)
  <2> DEFINE g == [o \in Devices |-> State!OutputLine(o)]
  <2>1. g \in Surjection(Devices, L)
    BY DEF Surjection
  <2> HIDE DEF g, L
  <2> QED BY <2>1, StateAssumption, FS_Surjection
<1> HIDE DEF L
<1>3. Cardinality(L) \in Nat /\ ExistsBijection(1..Cardinality(L), L)
  BY <1>2, FS_CardinalityType
<1>4. \E f \in [1..Cardinality(L) -> L] : IsInjective(f)
  BY <1>3 DEF ExistsBijection, Bijection, Injection, IsInjective
<1>5. State!SetToSeq(L) \in [1..Cardinality(L) -> L]
  BY <1>4, AsFiniteSets DEF State!SetToSeq
<1>6. State!OutputLines = State!SetToSeq(L)
  BY DEF State!OutputLines, L
<1>7. State!SetToSeq(L) \in Seq(L)
  BY <1>3, <1>5
<1> QED BY <1>1, <1>6, <1>7, LinesToo


(* The inductive invariant.  The lines of the file say of each output that *)
(* it was enabled, or that it was not; those that are read before the      *)
(* outputs are printed say nothing of them.                                *)
Saving == {"saveState", "savePlaylist", "saveOutputs"}

Written ==
  /\ saved \in Seq(FileLine)
  /\ place \in Saving => saved \in Seq(PlainLines)
  /\ \E enabled \in SUBSET Value : saved \in Seq(LinesOf(enabled))

Kinds ==
  /\ server \in Server /\ listed \in Seq(MpdCommand) /\ songnum \in Value /\ nextLine \in Nat \ {0}
  /\ place \in Saving \cup {"saved", "clear"} => nextLine = 1 /\ listed = <<>>

(* What MPD, whatever it is, makes of the list: the songs before the next  *)
(* line come behind those it has, or in their place, and the outputs of    *)
(* the lines before the next are as they say.                              *)
Reading == {"line", "songs", "outputs", "end"}

Before(s) == IF "playlist" \notin skips /\ ~add THEN <<>> ELSE s.playlist
Behind(songs) == IF State!AddsSongs THEN songs ELSE <<>>
Adds(s, commands, before, songs) == State!Execute(s, commands).playlist = before \o Behind(songs)

ListsSongs ==
  \A f : SongsTo(f, saved) => \A s \in Server : Adds(s, listed, Before(s), f[nextLine - 1])

Obeys(line, s) ==
  /\ line.key = "on" => line.val \in s.outputs
  /\ line.key = "off" => line.val \notin s.outputs

ListsOutputs ==
  "outputs" \notin skips =>
    \A s \in Server, i \in 1..Len(saved) : i < nextLine => Obeys(saved[i], State!Execute(s, listed))

Sent ==
  /\ place \in Reading => nextLine <= Len(saved) + 1
  /\ place = "end" => nextLine = Len(saved) + 1
  /\ place \in Reading /\ ~lost /\ ~dropped => ListsSongs /\ ListsOutputs

Saves == Kinds /\ Written /\ Sent

LEMMA SavesBegins == State!Init => Saves
<1> SUFFICES ASSUME State!Init PROVE Saves
  OBVIOUS
<1>1. server \in Server
  <2>1. \A n \in 0..MaxPlaylist : [1..n -> Tracks] \subseteq Seq(Value)
    <3> SUFFICES ASSUME NEW n \in 0..MaxPlaylist, NEW p \in [1..n -> Tracks] PROVE p \in Seq(Value)
      OBVIOUS
    <3>1. n \in Nat /\ Tracks \subseteq Value
      BY StateAssumption DEF Value
    <3> QED BY <3>1
  <2>2. /\ \A p \in UNION {[1..n -> Tracks] : n \in 0..MaxPlaylist} : p \in Seq(Value)
        /\ SUBSET Devices \subseteq SUBSET Value /\ {0, 1} \subseteq Value
        /\ -1..MaxPlaylist - 1 \subseteq Value
    BY <2>1, StateAssumption DEF Value
  <2>3. server \in State!Servers
    BY DEF State!Init
  <2> DEFINE P == UNION {[1..n -> Tracks] : n \in 0..MaxPlaylist}
  <2>4. /\ server.playlist \in P /\ server.outputs \in SUBSET Devices /\ server.setting \in {0, 1}
        /\ server.song \in -1..MaxPlaylist - 1
        /\ server = [playlist |-> server.playlist, outputs |-> server.outputs,
                     setting |-> server.setting, song |-> server.song]
    BY <2>3 DEF State!Servers
  <2> HIDE DEF P
  <2>5. server.playlist \in Seq(Value)
    BY <2>2, <2>4 DEF P
  <2> QED BY <2>2, <2>4, <2>5 DEF Server
<1>2. listed = <<>> /\ saved = <<>> /\ songnum = 0 /\ nextLine = 1 /\ place = "saveState"
  BY DEF State!Init
<1>3. <<>> \in Seq(FileLine) /\ <<>> \in Seq(PlainLines) /\ <<>> \in Seq(LinesOf({})) /\ <<>> \in Seq(MpdCommand)
  OBVIOUS
<1>4. {} \in SUBSET Value /\ 0 \in Value
  BY DEF Value
<1> QED BY <1>1, <1>2, <1>3, <1>4 DEF Saves, Kinds, Written, Sent, Saving, Reading

(* What is printed behind the file, or cut off it, leaves it a file.       *)
LEMMA WrittenBehind ==
  ASSUME NEW enabled \in SUBSET Value, NEW old \in Seq(PlainLines), NEW lines \in Seq(LinesOf(enabled))
  PROVE  old \o lines \in Seq(FileLine) /\ old \o lines \in Seq(LinesOf(enabled))
<1>1. LinesOf(enabled) \subseteq FileLine /\ PlainLines \subseteq LinesOf(enabled)
  BY PlainOf DEF LinesOf
<1>2. old \in Seq(LinesOf(enabled))
  BY <1>1, LinesToo
<1>3. old \o lines \in Seq(LinesOf(enabled))
  BY <1>2, ConcatProperties
<1> QED BY <1>1, <1>3, LinesToo

(* Each part prints lines that say how the outputs are, or, but for the    *)
(* last, nothing of them.                                                  *)
LEMMA PrintsPlain ==
  ASSUME Kinds, NEW lines,
         \/ lines = State!StatusLines \/ lines = <<>>
         \/ \E piece \in State!Prefixes(State!SongLines) : lines = State!Section("playlist_begin", piece, "playlist_end")
         \/ lines = State!Section("playlist_begin", State!SongLines, "playlist_end")
  PROVE  lines \in Seq(PlainLines)
<1>1. State!StatusLines \in Seq(PlainLines) /\ <<>> \in Seq(PlainLines)
  BY StatusPlain DEF Kinds
<1>2. State!SongLines \in Seq(PlainLines)
  BY SongsPlain DEF Kinds
<1>3. {"playlist_begin", "playlist_end"} \subseteq Key \ {"on", "off"}
  BY DEF Key
<1>4. \A piece \in Seq(PlainLines) : State!Section("playlist_begin", piece, "playlist_end") \in Seq(PlainLines)
  BY <1>3, SectionPlain
<1>5. \A piece \in State!Prefixes(State!SongLines) : piece \in Seq(PlainLines)
  BY <1>2, PiecesOf
<1> QED BY <1>1, <1>2, <1>4, <1>5

LEMMA PrintsOutputs ==
  ASSUME Kinds, NEW lines,
         \/ \E piece \in State!Prefixes(State!OutputLines) : lines = State!Section("outputs_begin", piece, "outputs_end")
         \/ lines = State!Section("outputs_begin", State!OutputLines, "outputs_end")
  PROVE  \E enabled \in SUBSET Value : lines \in Seq(LinesOf(enabled))
<1> DEFINE enabled == server.outputs
<1>1. enabled \in SUBSET Value
  BY DEF Kinds, Server
<1>2. State!OutputLines \in Seq(LinesOf(enabled))
  BY OutputsListed DEF Kinds
<1> HIDE DEF enabled
<1>3. {"outputs_begin", "outputs_end"} \subseteq Key \ {"on", "off"}
  BY DEF Key
<1>4. \A piece \in Seq(LinesOf(enabled)) : State!Section("outputs_begin", piece, "outputs_end") \in Seq(LinesOf(enabled))
  BY <1>3, SectionOf
<1>5. \A piece \in State!Prefixes(State!OutputLines) : piece \in Seq(LinesOf(enabled))
  BY <1>2, PiecesOf
<1> QED BY <1>1, <1>2, <1>4, <1>5

LEMMA WrittenKept ==
  ASSUME Kinds, Written, State!Next
  PROVE  Written'
<1>1. CASE State!PrintStatus \/ State!PrintPlaylist
  <2>1. saved \in Seq(PlainLines) /\ place \in Saving
    BY <1>1 DEF Written, State!PrintStatus, State!PrintPlaylist, State!Prints, Saving
  <2>2. \/ saved' = saved
        \/ \E lines : saved' = saved \o lines /\ lines \in Seq(PlainLines)
    <3>1. CASE State!PrintStatus
      BY <3>1, PrintsPlain DEF State!PrintStatus, State!Prints, State!PrintLines
    <3>2. CASE State!PrintPlaylist
      BY <3>2, PrintsPlain DEF State!PrintPlaylist, State!Prints, State!PrintLines, State!Sections
    <3> QED BY <1>1, <3>1, <3>2
  <2>3. saved' \in Seq(PlainLines)
    BY <2>1, <2>2, ConcatProperties
  <2>4. {} \in SUBSET Value /\ PlainLines \subseteq FileLine /\ PlainLines \subseteq LinesOf({})
    BY PlainOf DEF PlainLines
  <2>5. saved' \in Seq(FileLine) /\ saved' \in Seq(LinesOf({}))
    BY <2>3, <2>4, LinesToo
  <2> QED BY <2>3, <2>4, <2>5 DEF Written
<1>2. CASE State!PrintOutputs
  <2>1. saved \in Seq(PlainLines) /\ place' \notin Saving
    BY <1>2 DEF Written, State!PrintOutputs, State!Prints, Saving
  <2>2. \/ saved' = saved
        \/ \E lines : saved' = saved \o lines /\ \E enabled \in SUBSET Value : lines \in Seq(LinesOf(enabled))
    BY <1>2, PrintsOutputs DEF State!PrintOutputs, State!Prints, State!PrintLines, State!Sections
  <2>3. CASE saved' = saved
    BY <2>1, <2>3 DEF Written
  <2>4. CASE \E lines : saved' = saved \o lines /\ \E enabled \in SUBSET Value : lines \in Seq(LinesOf(enabled))
    <3>1. PICK lines : saved' = saved \o lines /\ \E enabled \in SUBSET Value : lines \in Seq(LinesOf(enabled))
      BY <2>4
    <3>2. PICK enabled \in SUBSET Value : lines \in Seq(LinesOf(enabled))
      BY <3>1
    <3>3. saved' \in Seq(FileLine) /\ saved' \in Seq(LinesOf(enabled))
      BY <2>1, <3>1, <3>2, WrittenBehind
    <3> QED BY <2>1, <3>3 DEF Written
  <2> QED BY <2>2, <2>3, <2>4
<1>3. CASE State!FileChanges
  <2>1. PICK enabled \in SUBSET Value : saved \in Seq(LinesOf(enabled))
    BY DEF Written
  <2>2. saved' \in State!Prefixes(saved) \/ (saved # <<>> /\ saved' = Tail(saved))
    BY <1>3 DEF State!FileChanges
  <2>3. \A B : saved \in Seq(B) => saved' \in Seq(B)
    <3> SUFFICES ASSUME NEW B, saved \in Seq(B) PROVE saved' \in Seq(B)
      OBVIOUS
    <3>1. CASE saved' \in State!Prefixes(saved)
      BY <3>1, PiecesOf
    <3>2. CASE saved # <<>> /\ saved' = Tail(saved)
      BY <3>2, HeadTailProperties
    <3> QED BY <2>2, <3>1, <3>2
  <2>4. place' \notin Saving
    BY <1>3 DEF State!FileChanges, Saving
  <2> QED BY <2>1, <2>3, <2>4 DEF Written
<1>4. CASE State!ListBegin \/ State!Clear \/ State!ReadState \/ State!ReadSetting \/ State!ReadCurrent \/ State!ReadBegin \/ State!ReadSong
             \/ State!ReadOutput \/ State!ReadEnd \/ State!Seek \/ State!ListEnd
  <2>1. saved' = saved /\ place' \notin Saving
    BY <1>4 DEF State!ListBegin, State!Clear, State!ReadState, State!ReadSetting, State!ReadCurrent, State!ReadBegin, State!ReadSong,
                State!ReadOutput, State!ReadEnd, State!Seek, State!ListEnd, Saving
  <2> QED BY <2>1 DEF Written
<1>5. CASE State!OtherClient
  <2>1. saved' = saved /\ place' = place
    BY <1>5 DEF State!OtherClient
  <2> QED BY <2>1 DEF Written
<1> QED BY <1>1, <1>2, <1>3, <1>4, <1>5 DEF State!Next


(* A call gives MPD a command or adds it to the list.                      *)
LEMMA CallKinds ==
  ASSUME Kinds, NEW c \in MpdCommand \cup {State!Nothing}, State!Calls(c)
  PROVE  server' \in Server /\ listed' \in Seq(MpdCommand)
<1>1. server \in Server /\ listed \in Seq(MpdCommand)
  BY DEF Kinds
<1>2. ASSUME c # State!Nothing PROVE State!Effect(server, c) \in Server /\ Append(listed, c) \in Seq(MpdCommand)
  <2>1. c \in MpdCommand
    BY <1>2
  <2>2. Append(listed, c) \in Seq(MpdCommand)
    BY <1>1, <2>1
  <2>3. \A s \in Server, d \in MpdCommand : State!Effect(s, d) \in Server
    BY EffectIs
  <2> QED BY <1>1, <2>1, <2>2, <2>3
<1>3. /\ server' = server \/ (c # State!Nothing /\ server' = State!Effect(server, c))
      /\ listed' = listed \/ listed' = <<>> \/ (c # State!Nothing /\ listed' = Append(listed, c))
  BY DEF State!Calls, State!mpd
<1>4. <<>> \in Seq(MpdCommand)
  OBVIOUS
<1> QED BY <1>1, <1>2, <1>3, <1>4

LEMMA CallInList ==
  ASSUME NEW c, State!Calls(c), listOpen, ~lost', ~dropped'
  PROVE  ~lost /\ ~dropped /\ (IF c = State!Nothing THEN listed' = listed ELSE listed' = Append(listed, c))
<1>1. ~lost /\ ~dropped
  BY CallKeepsList
<1>2. CASE c = State!Nothing
  BY <1>2 DEF State!Calls, State!mpd
<1>3. CASE c # State!Nothing
  <2>1. listed' = Append(listed, c)
    BY <1>1, <1>3 DEF State!Calls
  <2> QED BY <1>1, <1>3, <2>1
<1> QED BY <1>1, <1>2, <1>3

(* The line that is read.                                                  *)
LEMMA LineAt ==
  ASSUME Written, nextLine \in 1..Len(saved)
  PROVE  saved[nextLine] \in FileLine /\ State!Val \in Value
<1>1. saved \in Seq(FileLine)
  BY DEF Written
<1>2. saved[nextLine] \in FileLine
  BY <1>1
<1> QED BY <1>2 DEF FileLine, State!Val

(* The commands that the actions give.                                     *)
LEMMA CommandGiven ==
  ASSUME Kinds, Written, OneCall
  PROVE  \E c \in MpdCommand \cup {State!Nothing} : State!Calls(c)
<1>1. \A name \in {"clear", "add", "setting", "on", "off", "seek"}, v \in Value : State!Command(name, v) \in MpdCommand
  BY DEF State!Command, MpdCommand
<1>2. 0 \in Value /\ songnum \in Value
  BY DEF Kinds, Value
<1>3. nextLine \in 1..Len(saved) => State!Val \in Value
  BY LineAt
<1>4. CASE State!Clear
  BY <1>1, <1>2, <1>4 DEF State!Clear
<1>5. CASE State!ReadSetting
  <2>1. nextLine \in 1..Len(saved)
    BY <1>5 DEF State!ReadSetting, State!Reads, Kinds, Written
  <2> QED BY <1>1, <1>3, <1>5, <2>1 DEF State!ReadSetting
<1>6. CASE State!ReadSong
  <2>1. nextLine \in 1..Len(saved)
    BY <1>6 DEF State!ReadSong, State!Reads, Kinds, Written
  <2> QED BY <1>1, <1>3, <1>6, <2>1 DEF State!ReadSong
<1>7. CASE State!ReadOutput
  <2>1. nextLine \in 1..Len(saved) /\ saved[nextLine].key \in {"on", "off"}
    BY <1>7 DEF State!ReadOutput, State!Reads, Kinds, Written
  <2> QED BY <1>1, <1>3, <1>7, <2>1 DEF State!ReadOutput
<1>8. CASE State!Seek
  BY <1>1, <1>2, <1>8 DEF State!Seek
<1> QED BY <1>4, <1>5, <1>6, <1>7, <1>8 DEF OneCall

LEMMA ExecuteKinds ==
  ASSUME NEW s \in Server, NEW commands \in Seq(MpdCommand)
  PROVE  State!Execute(s, commands) \in Server
<1>1. PICK f : DoneTo(f, s, commands) /\ State!Execute(s, commands) = f[Len(commands)]
  BY ExecuteIs
<1>2. Len(commands) \in 0..Len(commands)
  OBVIOUS
<1> QED BY <1>1, <1>2 DEF DoneTo

LEMMA KindsKept == ASSUME Kinds, Written, State!Next PROVE Kinds'
<1>0. server \in Server /\ listed \in Seq(MpdCommand) /\ songnum \in Value /\ nextLine \in Nat \ {0} /\ <<>> \in Seq(MpdCommand)
  BY DEF Kinds
<1>1. CASE State!PrintStatus \/ State!PrintPlaylist \/ State!PrintOutputs \/ State!FileChanges
  <2>1. UNCHANGED <<server, listed, songnum, nextLine>> /\ place \in Saving \cup {"saved"}
    BY <1>1 DEF State!PrintStatus, State!PrintPlaylist, State!PrintOutputs, State!FileChanges, State!Prints, State!mpd, Saving
  <2> QED BY <1>0, <2>1 DEF Kinds
<1>2. CASE State!ListBegin
  <2>1. UNCHANGED <<server, listed, songnum, nextLine>> /\ place = "saved"
    BY <1>2 DEF State!ListBegin
  <2> QED BY <1>0, <2>1 DEF Kinds
<1>3. CASE OneCall
  <2>1. server' \in Server /\ listed' \in Seq(MpdCommand)
    BY <1>3, CommandGiven, CallKinds
  <2>2. songnum' = songnum /\ nextLine' \in {nextLine, nextLine + 1} /\ place' \notin Saving \cup {"saved", "clear"}
    BY <1>3 DEF OneCall, State!Clear, State!ReadSetting, State!ReadSong, State!ReadOutput, State!Seek, State!Reads, Saving
  <2> QED BY <1>0, <2>1, <2>2 DEF Kinds
<1>4. CASE State!ReadCurrent
  <2>1. nextLine \in 1..Len(saved)
    BY <1>4 DEF State!ReadCurrent, State!Reads, Kinds, Written
  <2>2. songnum' \in Value
    BY <1>4, <2>1, LineAt DEF State!ReadCurrent
  <2>3. UNCHANGED <<server, listed>> /\ nextLine' = nextLine + 1 /\ place' = "line"
    BY <1>4 DEF State!ReadCurrent, State!Reads, State!mpd
  <2> QED BY <1>0, <2>2, <2>3 DEF Kinds, Saving
<1>5. CASE State!ReadBegin \/ State!ReadEnd
  <2>1. UNCHANGED <<server, listed, songnum>> /\ nextLine' = nextLine + 1 /\ place' \in {"line", "songs", "outputs"}
    BY <1>5 DEF State!ReadBegin, State!ReadEnd, State!Reads, State!mpd
  <2> QED BY <1>0, <2>1 DEF Kinds, Saving
<1>6. CASE State!ReadState
  <2>1. server' = server /\ listed' = <<>> /\ songnum' = songnum /\ nextLine' = nextLine + 1 /\ place' = "done"
    BY <1>6 DEF State!ReadState, State!Reads
  <2> QED BY <1>0, <2>1 DEF Kinds, Saving
<1>7. CASE State!ListEnd
  <2>1. server' \in Server
    <3>1. \A n \in 0..Len(listed) : SubSeq(listed, 1, n) \in Seq(MpdCommand)
      BY <1>0
    <3>2. \A n \in 0..Len(listed) : State!Execute(server, SubSeq(listed, 1, n)) \in Server
      BY <1>0, <3>1, ExecuteKinds
    <3> QED BY <1>0, <1>7, <3>2 DEF State!ListEnd
  <2>2. listed' = <<>> /\ songnum' = songnum /\ nextLine' = nextLine /\ place' = "done"
    BY <1>7 DEF State!ListEnd
  <2> QED BY <1>0, <2>1, <2>2 DEF Kinds, Saving
<1>8. CASE State!OtherClient
  <2>1. State!OthersCommands \subseteq MpdCommand
    BY DEF State!OthersCommands, MpdCommand, State!Command, Value
  <2>2. server' \in Server
    BY <1>0, <1>8, <2>1, EffectIs DEF State!OtherClient
  <2>3. UNCHANGED <<listed, songnum, nextLine, place>>
    BY <1>8 DEF State!OtherClient
  <2> QED BY <1>0, <2>2, <2>3 DEF Kinds
<1> QED BY <1>1, <1>2, <1>3, <1>4, <1>5, <1>6, <1>7, <1>8 DEF State!Next, OneCall

(* What a command does behind others.                                      *)
Lists(c, commands, more) ==
  IF c = State!Nothing THEN more = commands ELSE c \in MpdCommand /\ more = Append(commands, c)

LEMMA ListsPlaylist ==
  ASSUME NEW s \in Server, NEW commands \in Seq(MpdCommand), NEW more \in Seq(MpdCommand), NEW c,
         Lists(c, commands, more)
  PROVE  State!Execute(s, more).playlist =
           IF c.name = "clear" THEN <<>>
           ELSE IF c.name = "add" THEN Append(State!Execute(s, commands).playlist, c.arg)
           ELSE State!Execute(s, commands).playlist
<1>1. CASE c = State!Nothing
  BY <1>1, CommandIs DEF State!Nothing, Lists
<1>2. CASE c # State!Nothing
  <2>1. c \in MpdCommand /\ more = Append(commands, c) /\ State!Execute(s, commands) \in Server
    BY <1>2, ExecuteKinds DEF Lists
  <2>2. State!Execute(s, more) = State!Effect(State!Execute(s, commands), c)
    BY <2>1, ExecuteAppended
  <2>3. PICK x \in Server : x = State!Execute(s, commands)
    BY <2>1
  <2>4. State!Effect(x, c).playlist = IF c.name = "clear" THEN <<>>
                             ELSE IF c.name = "add" THEN Append(x.playlist, c.arg) ELSE x.playlist
    BY <2>1, EffectIs
  <2> QED BY <2>2, <2>3, <2>4
<1> QED BY <1>1, <1>2

LEMMA ListsEnabled ==
  ASSUME NEW s \in Server, NEW commands \in Seq(MpdCommand), NEW more \in Seq(MpdCommand), NEW c,
         Lists(c, commands, more)
  PROVE  State!Execute(s, more).outputs =
           IF c.name = "on" THEN State!Execute(s, commands).outputs \cup {c.arg}
           ELSE IF c.name = "off" THEN State!Execute(s, commands).outputs \ {c.arg}
           ELSE State!Execute(s, commands).outputs
<1>1. CASE c = State!Nothing
  BY <1>1, CommandIs DEF State!Nothing, Lists
<1>2. CASE c # State!Nothing
  <2>1. c \in MpdCommand /\ more = Append(commands, c) /\ State!Execute(s, commands) \in Server
    BY <1>2, ExecuteKinds DEF Lists
  <2>2. State!Execute(s, more) = State!Effect(State!Execute(s, commands), c)
    BY <2>1, ExecuteAppended
  <2>3. PICK x \in Server : x = State!Execute(s, commands)
    BY <2>1
  <2>4. State!Effect(x, c).outputs = IF c.name = "on" THEN x.outputs \cup {c.arg}
                            ELSE IF c.name = "off" THEN x.outputs \ {c.arg} ELSE x.outputs
    BY <2>1, EffectIs
  <2> QED BY <2>2, <2>3, <2>4
<1> QED BY <1>1, <1>2


LEMMA AppendedBehind ==
  ASSUME NEW a \in Seq(Value), NEW b \in Seq(Value), NEW v \in Value
  PROVE  Append(a \o b, v) = a \o Append(b, v)
<1>1. a \o b \in Seq(Value) /\ <<v>> \in Seq(Value)
  BY ConcatProperties
<1>2. Append(a \o b, v) = (a \o b) \o <<v>> /\ Append(b, v) = b \o <<v>>
  BY <1>1, AppendIsConcat
<1>3. (a \o b) \o <<v>> = a \o (b \o <<v>>)
  BY <1>1, ConcatAssociative
<1> QED BY <1>2, <1>3

(* What a line gives MPD to do.                                            *)
Gives(line, c) ==
  /\ c.name # "clear"
  /\ IF State!AddsSongs /\ line.key = "song" THEN c.name = "add" /\ c.arg = line.val ELSE c.name # "add"
  /\ "outputs" \notin skips =>
       IF line.key \in {"on", "off"} THEN c.name = line.key /\ c.arg = line.val ELSE c.name \notin {"on", "off"}

LineStep == State!ReadSetting \/ State!ReadCurrent \/ State!ReadBegin \/ State!ReadSong \/ State!ReadOutput \/ State!ReadEnd

LEMMA LineGives ==
  ASSUME Kinds, Written, LineStep
  PROVE  /\ nextLine \in 1..Len(saved) /\ nextLine' = nextLine + 1 /\ UNCHANGED <<saved, skips, add>>
         /\ place \in Reading /\ place' \in Reading \ {"end"}
         /\ \E c \in MpdCommand \cup {State!Nothing} : State!Calls(c) /\ Gives(saved[nextLine], c)
<1>1. /\ nextLine \in 1..Len(saved) /\ nextLine' = nextLine + 1 /\ UNCHANGED <<saved, skips, add>>
      /\ place \in Reading /\ place' \in Reading \ {"end"}
  <2>1. nextLine <= Len(saved) /\ nextLine' = nextLine + 1 /\ UNCHANGED <<saved, skips, add>>
    BY DEF LineStep, State!ReadSetting, State!ReadCurrent, State!ReadBegin, State!ReadSong, State!ReadOutput, State!ReadEnd, State!Reads, State!switches
  <2>2. place \in {"line", "songs", "outputs"} /\ place' \in {"line", "songs", "outputs"}
    BY DEF LineStep, State!ReadSetting, State!ReadCurrent, State!ReadBegin, State!ReadSong, State!ReadOutput, State!ReadEnd
  <2>3. nextLine \in 1..Len(saved)
    BY <2>1 DEF Kinds, Written
  <2> QED BY <2>1, <2>2, <2>3 DEF Reading
<1>2. State!Val \in Value /\ \A name \in {"add", "setting", "on", "off"} : State!Command(name, State!Val) \in MpdCommand
  BY <1>1, LineAt DEF State!Command, MpdCommand
<1>3. /\ \A name : State!Command(name, State!Val).name = name /\ State!Command(name, State!Val).arg = saved[nextLine].val
      /\ State!Nothing.name = "none"
  BY CommandIs DEF State!Nothing, State!Val
<1>4. UNCHANGED State!mpd => State!Calls(State!Nothing)
  BY DEF State!Calls
<1>5. CASE State!ReadSetting
  <2>1. saved[nextLine].key = "setting"
    BY <1>5 DEF State!ReadSetting, State!Reads
  <2>2. State!Calls(IF "state" \notin skips THEN State!Command("setting", State!Val) ELSE State!Nothing)
    BY <1>5 DEF State!ReadSetting
  <2>3. Gives(saved[nextLine], State!Command("setting", State!Val)) /\ Gives(saved[nextLine], State!Nothing)
    BY <1>3, <2>1 DEF Gives
  <2> QED BY <1>1, <1>2, <2>2, <2>3
<1>6. CASE State!ReadCurrent \/ State!ReadBegin \/ State!ReadEnd
  <2>1. saved[nextLine].key \notin {"song", "on", "off"} /\ UNCHANGED State!mpd
    BY <1>6 DEF State!ReadCurrent, State!ReadBegin, State!ReadEnd, State!Reads
  <2>2. Gives(saved[nextLine], State!Nothing)
    BY <1>3, <2>1 DEF Gives
  <2> QED BY <1>1, <1>4, <2>1, <2>2
<1>7. CASE State!ReadSong
  <2>1. saved[nextLine].key = "song"
    BY <1>7 DEF State!ReadSong, State!Reads
  <2>2. State!Calls(IF State!AddsSongs THEN State!Command("add", State!Val) ELSE State!Nothing)
    BY <1>7 DEF State!ReadSong
  <2>3. IF State!AddsSongs THEN Gives(saved[nextLine], State!Command("add", State!Val)) ELSE Gives(saved[nextLine], State!Nothing)
    BY <1>3, <2>1 DEF Gives
  <2> QED BY <1>1, <1>2, <2>2, <2>3
<1>8. CASE State!ReadOutput
  <2>1. saved[nextLine].key \in {"on", "off"}
    BY <1>8 DEF State!ReadOutput, State!Reads
  <2>2. State!Calls(IF State!SetsOutputs THEN State!Command(saved[nextLine].key, State!Val) ELSE State!Nothing)
    BY <1>8 DEF State!ReadOutput
  <2>3. IF State!SetsOutputs THEN Gives(saved[nextLine], State!Command(saved[nextLine].key, State!Val)) ELSE Gives(saved[nextLine], State!Nothing)
    BY <1>3, <2>1 DEF Gives, State!SetsOutputs
  <2> QED BY <1>1, <1>2, <2>1, <2>2, <2>3
<1> QED BY <1>5, <1>6, <1>7, <1>8 DEF LineStep

(* With the next line the list does what the lines up to it say.           *)
LEMMA SongsOn ==
  ASSUME NEW s \in Server, NEW commands \in Seq(MpdCommand), NEW more \in Seq(MpdCommand), NEW c,
         Lists(c, commands, more),
         NEW lines \in Seq(FileLine), NEW n \in 1..Len(lines), Gives(lines[n], c),
         NEW f, SongsTo(f, lines), NEW m, m = n - 1, NEW b \in Seq(Value),
         Adds(s, commands, b, f[m])
  PROVE  Adds(s, more, b, f[n])
<1>1. State!Execute(s, more).playlist =
        IF c.name = "clear" THEN <<>>
        ELSE IF c.name = "add" THEN Append(State!Execute(s, commands).playlist, c.arg)
        ELSE State!Execute(s, commands).playlist
  BY ListsPlaylist
<1>2. n \in 0..Len(lines) /\ n # 0 /\ m = n - 1 /\ m \in 0..Len(lines) /\ lines[n] \in FileLine
  OBVIOUS
<1>3. /\ f[m] \in Seq(Value)
      /\ f[n] = IF lines[n].key = "song" THEN Append(f[m], lines[n].val) ELSE f[m]
  BY <1>2 DEF SongsTo
<1>4. CASE State!AddsSongs /\ lines[n].key = "song"
  <2>1. c.name = "add" /\ c.arg = lines[n].val
    BY <1>4 DEF Gives
  <2>2. lines[n].val \in Value
    BY <1>2 DEF FileLine
  <2>3. Append(b \o f[m], lines[n].val) = b \o Append(f[m], lines[n].val)
    BY <1>3, <2>2, AppendedBehind
  <2> QED BY <1>1, <1>3, <1>4, <2>1, <2>3 DEF Behind, Adds
<1>5. CASE ~(State!AddsSongs /\ lines[n].key = "song")
  <2>1. c.name # "add" /\ c.name # "clear"
    BY <1>5 DEF Gives
  <2>2. Behind(f[n]) = Behind(f[m])
    BY <1>3, <1>5 DEF Behind
  <2> QED BY <1>1, <2>1, <2>2 DEF Adds
<1> QED BY <1>4, <1>5

LEMMA OutputsOn ==
  ASSUME NEW s \in Server, NEW commands \in Seq(MpdCommand), NEW more \in Seq(MpdCommand), NEW c,
         Lists(c, commands, more),
         NEW enabled, NEW lines \in Seq(LinesOf(enabled)), NEW n \in 1..Len(lines), Gives(lines[n], c),
         "outputs" \notin skips,
         \A i \in 1..Len(lines) : i < n => Obeys(lines[i], State!Execute(s, commands))
  PROVE  \A i \in 1..Len(lines) : i < n + 1 => Obeys(lines[i], State!Execute(s, more))
<1>1. State!Execute(s, more).outputs =
        IF c.name = "on" THEN State!Execute(s, commands).outputs \cup {c.arg}
        ELSE IF c.name = "off" THEN State!Execute(s, commands).outputs \ {c.arg}
        ELSE State!Execute(s, commands).outputs
  BY ListsEnabled
<1>2. IF lines[n].key \in {"on", "off"} THEN c.name = lines[n].key /\ c.arg = lines[n].val
                                       ELSE c.name \notin {"on", "off"}
  BY DEF Gives
<1>3. \A i \in 1..Len(lines) : lines[i] \in LinesOf(enabled)
  OBVIOUS
<1> SUFFICES ASSUME NEW i \in 1..Len(lines), i < n + 1
             PROVE  Obeys(lines[i], State!Execute(s, more))
  OBVIOUS
<1>4. i < n \/ i = n
  OBVIOUS
<1>5. CASE i = n
  BY <1>1, <1>2, <1>5 DEF Obeys
<1>6. CASE i < n
  <2>1. Obeys(lines[i], State!Execute(s, commands))
    BY <1>6
  <2>2. lines[i] \in LinesOf(enabled) /\ lines[n] \in LinesOf(enabled)
    BY <1>3
  <2> QED BY <1>1, <1>2, <2>1, <2>2 DEF Obeys, LinesOf
<1> QED BY <1>4, <1>5, <1>6

LEMMA SentKept == ASSUME Kinds, Written, Sent, Collecting, Kinds', State!Next PROVE Sent'
<1>0. /\ server \in Server /\ listed \in Seq(MpdCommand) /\ listed' \in Seq(MpdCommand)
      /\ nextLine \in Nat \ {0} /\ nextLine' \in Nat \ {0} /\ saved \in Seq(FileLine) /\ Len(saved) \in Nat
  BY DEF Kinds, Written
<1>1. CASE State!PrintStatus \/ State!PrintPlaylist \/ State!PrintOutputs \/ State!FileChanges \/ State!ListBegin \/ State!ReadState \/ State!ListEnd
  <2>1. place' \notin Reading
    BY <1>1 DEF State!PrintStatus, State!PrintPlaylist, State!PrintOutputs, State!Prints, State!FileChanges, State!ListBegin, State!ReadState,
                State!ListEnd, Reading
  <2> QED BY <2>1 DEF Sent, Reading
<1>2. CASE State!OtherClient
  <2>1. UNCHANGED <<place, nextLine, saved, listed, lost, dropped, skips, add>>
    BY <1>2 DEF State!OtherClient, State!switches
  <2> QED BY <2>1 DEF Sent, ListsSongs, ListsOutputs, Before, Behind, State!AddsSongs, Adds
<1>3. CASE State!Clear
  <2>1. place = "clear" /\ place' = "line" /\ UNCHANGED <<saved, skips, add, nextLine>> /\ nextLine = 1 /\ listed = <<>>
    BY <1>3 DEF State!Clear, State!switches, Kinds
  <2> DEFINE c == IF "playlist" \notin skips /\ ~add THEN State!Command("clear", 0) ELSE State!Nothing
  <2>2. State!Calls(c)
    BY <1>3 DEF State!Clear
  <2>3. nextLine' <= Len(saved') + 1 /\ place' # "end"
    BY <1>0, <2>1
  <2> SUFFICES ASSUME ~lost', ~dropped' PROVE ListsSongs' /\ ListsOutputs'
    BY <2>3 DEF Sent
  <2>4. c \in MpdCommand \cup {State!Nothing} /\ c.name \in {"clear", "none"} /\ (c.name = "clear" <=> "playlist" \notin skips /\ ~add)
    BY CommandIs DEF MpdCommand, State!Command, State!Nothing, Value
  <2> HIDE DEF c
  <2>5. IF c = State!Nothing THEN listed' = listed ELSE listed' = Append(listed, c)
    <3>1. ~lost /\ ~dropped
      BY <2>2, CallKeepsList
    <3>2. listOpen
      BY <2>1, <3>1 DEF Collecting, Restoring
    <3> QED BY <2>2, <3>2, CallInList
  <2>6. Lists(c, listed, listed')
    BY <2>4, <2>5 DEF Lists
  <2>7. ListsSongs'
    <3>0. nextLine' - 1 = 0
      BY <2>1
    <3> SUFFICES ASSUME NEW f, SongsTo(f, saved), NEW s \in Server
                 PROVE  Adds(s, listed', Before(s), f[0])
      BY <2>1, <3>0 DEF ListsSongs, Before, Behind, State!AddsSongs, Adds
    <3>1. f[0] = <<>>
      BY <1>0 DEF SongsTo
    <3>2. State!Execute(s, listed) = s /\ s.playlist \in Seq(Value)
      BY <2>1, ExecuteNone DEF Server
    <3>3. State!Execute(s, listed').playlist = IF c.name = "clear" THEN <<>>
                                       ELSE IF c.name = "add" THEN Append(State!Execute(s, listed).playlist, c.arg)
                                       ELSE State!Execute(s, listed).playlist
      BY <1>0, <2>6, ListsPlaylist
    <3>4. State!Execute(s, listed').playlist = Before(s) /\ Before(s) \in Seq(Value)
      BY <2>4, <3>2, <3>3 DEF Before
    <3>5. Behind(f[0]) = <<>>
      BY <3>1 DEF Behind
    <3> QED BY <3>4, <3>5, ConcatEmptySeq DEF Adds
  <2>8. ListsOutputs'
    BY <2>1 DEF ListsOutputs
  <2> QED BY <2>7, <2>8
<1>4. CASE LineStep
  <2>1. /\ nextLine \in 1..Len(saved) /\ nextLine' = nextLine + 1 /\ UNCHANGED <<saved, skips, add>>
        /\ place \in Reading /\ place' \in Reading \ {"end"}
    BY <1>4, LineGives
  <2>2. PICK c \in MpdCommand \cup {State!Nothing} : State!Calls(c) /\ Gives(saved[nextLine], c)
    BY <1>4, LineGives
  <2>3. nextLine' <= Len(saved') + 1 /\ place' # "end"
    BY <2>1
  <2> SUFFICES ASSUME ~lost', ~dropped' PROVE ListsSongs' /\ ListsOutputs'
    BY <2>3 DEF Sent
  <2>4. ~lost /\ ~dropped
    BY <2>2, CallKeepsList
  <2>5. listOpen
    BY <2>1, <2>4 DEF Collecting, Restoring, Reading
  <2>6. IF c = State!Nothing THEN listed' = listed ELSE listed' = Append(listed, c)
    BY <2>2, <2>5, CallInList
  <2>7. Lists(c, listed, listed')
    BY <2>6 DEF Lists
  <2>8. ListsSongs /\ ListsOutputs
    BY <2>1, <2>4 DEF Sent
  <2>9. ListsSongs'
    <3>0. nextLine' - 1 = nextLine
      BY <1>0, <2>1
    <3> SUFFICES ASSUME NEW f, SongsTo(f, saved), NEW s \in Server
                 PROVE  Adds(s, listed', Before(s), f[nextLine])
      BY <2>1, <3>0 DEF ListsSongs, Before, Behind, State!AddsSongs, Adds
    <3>1. Adds(s, listed, Before(s), f[nextLine - 1])
      BY <2>8 DEF ListsSongs
    <3>2. Before(s) \in Seq(Value)
      BY DEF Before, Server
    <3>3. nextLine \in 1..Len(saved) /\ Gives(saved[nextLine], c)
      BY <2>1, <2>2
    <3>4. PICK b \in Seq(Value) : b = Before(s)
      BY <3>2
    <3>5. PICK n, m : n = nextLine /\ m = n - 1 /\ Adds(s, listed, b, f[m])
      BY <3>1, <3>4
    <3>6. listed \in Seq(MpdCommand) /\ listed' \in Seq(MpdCommand) /\ saved \in Seq(FileLine)
      BY <1>0
    <3>7. n \in 1..Len(saved) /\ Gives(saved[n], c) /\ m = n - 1 /\ Adds(s, listed, b, f[m])
      BY <3>3, <3>5
    <3>8. Adds(s, listed', b, f[n])
      BY <2>7, <3>6, <3>7, SongsOn
    <3> QED BY <3>4, <3>5, <3>8
  <2>10. ListsOutputs'
    <3> SUFFICES ASSUME "outputs" \notin skips, NEW s \in Server
                 PROVE  \A i \in 1..Len(saved) : i < nextLine + 1 => Obeys(saved[i], State!Execute(s, listed'))
      BY <2>1 DEF ListsOutputs
    <3>1. \A i \in 1..Len(saved) : i < nextLine => Obeys(saved[i], State!Execute(s, listed))
      BY <2>8 DEF ListsOutputs
    <3>2. PICK enabled \in SUBSET Value : saved \in Seq(LinesOf(enabled))
      BY DEF Written
    <3> QED BY <1>0, <2>1, <2>2, <2>7, <3>1, <3>2, OutputsOn
  <2> QED BY <2>9, <2>10
<1>5. CASE State!Seek
  <2>1. place \in Reading /\ place' = "end" /\ nextLine > Len(saved) /\ UNCHANGED <<saved, skips, add, nextLine>>
    BY <1>5 DEF State!Seek, State!switches, Reading
  <2>2. nextLine' = Len(saved') + 1
    BY <1>0, <2>1 DEF Sent
  <2> DEFINE c == IF "state" \notin skips THEN State!Command("seek", songnum) ELSE State!Nothing
  <2>3. State!Calls(c)
    BY <1>5 DEF State!Seek
  <2>4. c \in MpdCommand \cup {State!Nothing} /\ c.name \in {"seek", "none"}
    BY CommandIs DEF MpdCommand, State!Command, State!Nothing, Kinds
  <2> HIDE DEF c
  <2> SUFFICES ASSUME ~lost', ~dropped' PROVE ListsSongs' /\ ListsOutputs'
    BY <1>0, <2>2 DEF Sent
  <2>5. ~lost /\ ~dropped
    BY <2>3, CallKeepsList
  <2>6. listOpen
    BY <2>1, <2>5 DEF Collecting, Restoring, Reading
  <2>7. IF c = State!Nothing THEN listed' = listed ELSE listed' = Append(listed, c)
    BY <2>3, <2>6, CallInList
  <2>8. Lists(c, listed, listed')
    BY <2>4, <2>7 DEF Lists
  <2>9. ListsSongs /\ ListsOutputs
    BY <2>1, <2>5 DEF Sent
  <2>10. \A s \in Server : /\ State!Execute(s, listed').playlist = State!Execute(s, listed).playlist
                           /\ State!Execute(s, listed').outputs = State!Execute(s, listed).outputs
    <3> SUFFICES ASSUME NEW s \in Server
                 PROVE  /\ State!Execute(s, listed').playlist = State!Execute(s, listed).playlist
                        /\ State!Execute(s, listed').outputs = State!Execute(s, listed).outputs
      OBVIOUS
    <3>1. State!Execute(s, listed').playlist =
            IF c.name = "clear" THEN <<>>
            ELSE IF c.name = "add" THEN Append(State!Execute(s, listed).playlist, c.arg)
            ELSE State!Execute(s, listed).playlist
      BY <1>0, <2>8, ListsPlaylist
    <3>2. State!Execute(s, listed').outputs =
            IF c.name = "on" THEN State!Execute(s, listed).outputs \cup {c.arg}
            ELSE IF c.name = "off" THEN State!Execute(s, listed).outputs \ {c.arg}
            ELSE State!Execute(s, listed).outputs
      BY <1>0, <2>8, ListsEnabled
    <3> QED BY <2>4, <3>1, <3>2
  <2>11. ListsSongs'
    <3> SUFFICES ASSUME NEW f, SongsTo(f, saved), NEW s \in Server
                 PROVE  Adds(s, listed', Before(s), f[nextLine - 1])
      BY <2>1 DEF ListsSongs, Before, Behind, State!AddsSongs, Adds
    <3>1. Adds(s, listed, Before(s), f[nextLine - 1])
      BY <2>9 DEF ListsSongs
    <3> QED BY <2>10, <3>1 DEF Adds
  <2>12. ListsOutputs'
    BY <2>1, <2>9, <2>10 DEF ListsOutputs, Obeys
  <2> QED BY <2>11, <2>12
<1> QED BY <1>1, <1>2, <1>3, <1>4, <1>5 DEF State!Next, LineStep

(* When the list has ended without an error every output is as the file    *)
(* says, and with -p its songs are those of the whole file behind the ones *)
(* there were.                                                             *)
LEMMA RestoredThen == ASSUME Saves PROVE State!AllAsRead
<1> SUFFICES ASSUME State!Complete PROVE
      /\ "outputs" \notin skips =>
           \A l \in State!ToSet(saved) : /\ l.key = "on" => l.val \in server.outputs'
                                 /\ l.key = "off" => l.val \notin server.outputs'
      /\ server.playlist' = IF "playlist" \in skips THEN server.playlist \o State!SavedSongs
                            ELSE IF add THEN server.playlist ELSE <<>>
  BY DEF State!AllAsRead
<1>1. /\ place = "end" /\ ~lost /\ ~dropped /\ server' = State!Execute(server, listed)
      /\ server \in Server /\ nextLine = Len(saved) + 1 /\ ListsSongs /\ ListsOutputs
      /\ saved \in Seq(FileLine) /\ Len(saved) \in Nat
  BY DEF State!Complete, Saves, Kinds, Written, Sent, Reading
<1>2. \E f : SongsTo(f, saved) /\ State!SavedSongs = f[Len(saved)]
  BY <1>1, SavedSongsIs
<1>3. server'.playlist = Before(server) \o Behind(State!SavedSongs)
  BY <1>1, <1>2 DEF ListsSongs, Adds
<1>4. /\ "playlist" \in skips => Before(server) = server.playlist /\ Behind(State!SavedSongs) = State!SavedSongs
      /\ "playlist" \notin skips => Behind(State!SavedSongs) = <<>>
      /\ "playlist" \notin skips /\ add => Before(server) = server.playlist
      /\ "playlist" \notin skips /\ ~add => Before(server) = <<>>
  <2>1. "playlist" \in skips => Before(server) = server.playlist
    BY DEF Before
  <2>2. "playlist" \notin skips /\ add => Before(server) = server.playlist
    BY Zenon DEF Before
  <2>3. "playlist" \notin skips /\ ~add => Before(server) = <<>>
    BY Zenon DEF Before
  <2>4. IF State!AddsSongs THEN Behind(State!SavedSongs) = State!SavedSongs ELSE Behind(State!SavedSongs) = <<>>
    BY DEF Behind
  <2> QED BY <2>1, <2>2, <2>3, <2>4 DEF State!AddsSongs
<1>5. ASSUME "outputs" \notin skips, NEW l \in State!ToSet(saved)
      PROVE  /\ l.key = "on" => l.val \in server.outputs'
             /\ l.key = "off" => l.val \notin server.outputs'
  <2>1. PICK i \in 1..Len(saved) : l = saved[i]
    BY <1>1, <1>5 DEF State!ToSet
  <2>2. i < nextLine
    BY <1>1
  <2>3. Obeys(saved[i], State!Execute(server, listed))
    BY <1>1, <1>5, <2>2 DEF ListsOutputs
  <2>4. PICK x : x = server' /\ x = State!Execute(server, listed)
    BY <1>1
  <2>5. Obeys(l, x)
    BY <2>1, <2>3, <2>4
  <2> QED BY <2>4, <2>5 DEF Obeys
<1>6. \A t \in Seq(Value) : t \o <<>> = t
  BY ConcatEmptySeq
<1>7. Before(server) \in Seq(Value)
  BY <1>1 DEF Before, Server
<1>8. server.playlist' = IF "playlist" \in skips THEN server.playlist \o State!SavedSongs
                         ELSE IF add THEN server.playlist ELSE <<>>
  <2>1. CASE "playlist" \in skips
    BY <1>3, <1>4, <2>1
  <2>2. CASE "playlist" \notin skips
    <3>1. server.playlist' = Before(server)
      BY <1>3, <1>4, <1>6, <1>7, <2>2
    <3>2. CASE add
      BY <1>4, <2>2, <3>1, <3>2, Zenon
    <3>3. CASE ~add
      BY <1>4, <2>2, <3>1, <3>3, Zenon
    <3> QED BY <3>2, <3>3
  <2> QED BY <2>1, <2>2
<1> QED BY <1>5, <1>8

(* Whatever was lost or refused, a command in the list switches an output  *)
(* only if -o is not given, and then to what a line of the file says.      *)
Says(o, enabled) == "outputs" \notin skips /\ State!Entry(IF enabled THEN "on" ELSE "off", o) \in State!ToSet(saved)
Asked(c) == c.name \in {"on", "off"} => Says(c.arg, c.name = "on")
AllAsked == \A i \in 1..Len(listed) : Asked(listed[i])
Follows(s, t) == \A o : ~(o \in t.outputs <=> o \in s.outputs) => Says(o, o \in t.outputs)

LEMMA EffectFollows ==
  ASSUME NEW s \in Server, NEW t \in Server, NEW c \in MpdCommand, Asked(c), Follows(s, t)
  PROVE  Follows(s, State!Effect(t, c))
<1>1. State!Effect(t, c).outputs = IF c.name = "on" THEN t.outputs \cup {c.arg}
                             ELSE IF c.name = "off" THEN t.outputs \ {c.arg} ELSE t.outputs
  BY EffectIs
<1>2. PICK u : u = State!Effect(t, c)
  OBVIOUS
<1> SUFFICES ASSUME NEW o, ~(o \in u.outputs <=> o \in s.outputs) PROVE Says(o, o \in u.outputs)
  BY <1>2 DEF Follows
<1>3. CASE o \in u.outputs <=> o \in t.outputs
  BY <1>3 DEF Follows, Says
<1>4. CASE ~(o \in u.outputs <=> o \in t.outputs)
  <2>1. o = c.arg /\ c.name \in {"on", "off"} /\ (o \in u.outputs <=> c.name = "on")
    BY <1>1, <1>2, <1>4
  <2> QED BY <2>1 DEF Asked, Says
<1> QED BY <1>3, <1>4

LEMMA ExecuteFollows ==
  ASSUME NEW s \in Server, NEW commands \in Seq(MpdCommand), \A i \in 1..Len(commands) : Asked(commands[i])
  PROVE  Follows(s, State!Execute(s, commands))
<1>1. PICK f : DoneTo(f, s, commands) /\ State!Execute(s, commands) = f[Len(commands)]
  BY ExecuteIs
<1>2. Len(commands) \in Nat /\ \A n \in 1..Len(commands) : commands[n] \in MpdCommand
  OBVIOUS
<1> DEFINE Good == {n \in Nat : n <= Len(commands) => Follows(s, f[n])}
<1>3. 0 \in Good
  <2>1. f[0] = s
    BY <1>1, <1>2 DEF DoneTo
  <2> QED BY <2>1 DEF Follows
<1>4. ASSUME NEW n \in Nat, n \in Good PROVE n + 1 \in Good
  <2> SUFFICES ASSUME n + 1 <= Len(commands) PROVE Follows(s, f[n + 1])
    OBVIOUS
  <2>1. n \in 0..Len(commands) /\ n + 1 \in 1..Len(commands) /\ n + 1 \in 0..Len(commands) /\ (n + 1) - 1 = n /\ n + 1 # 0
    BY <1>2
  <2>2. f[n] \in Server /\ f[n + 1] = State!Effect(f[n], commands[n + 1])
    BY <1>1, <2>1 DEF DoneTo
  <2>3. Follows(s, f[n]) /\ Asked(commands[n + 1]) /\ commands[n + 1] \in MpdCommand
    BY <1>2, <1>4, <2>1
  <2>4. PICK t \in Server, c \in MpdCommand : t = f[n] /\ c = commands[n + 1] /\ Asked(c) /\ Follows(s, t)
    BY <2>2, <2>3
  <2>5. Follows(s, State!Effect(t, c))
    BY <2>4, EffectFollows
  <2> QED BY <2>2, <2>4, <2>5
<1>5. Nat \subseteq Good
  <2> HIDE DEF Good
  <2> QED BY <1>3, <1>4, Inductive
<1> QED BY <1>1, <1>2, <1>5

(* What a call asks for is in the file.                                    *)
LEMMA CallAsked ==
  ASSUME Kinds, Written, OneCall
  PROVE  \E c \in MpdCommand \cup {State!Nothing} : State!Calls(c) /\ Asked(c)
<1>1. \A name \in {"clear", "add", "setting", "on", "off", "seek"}, v \in Value :
        /\ State!Command(name, v) \in MpdCommand
        /\ State!Command(name, v).name = name /\ State!Command(name, v).arg = v
  BY DEF State!Command, MpdCommand
<1>2. \A name, v : State!Command(name, v).name = name
  BY DEF State!Command
<1>3. CASE ~State!ReadOutput
  <2>1. \E c \in MpdCommand \cup {State!Nothing} : State!Calls(c) /\ c.name \notin {"on", "off"}
    <3>1. 0 \in Value /\ songnum \in Value /\ State!Nothing.name \notin {"on", "off"}
      BY <1>2 DEF Kinds, Value, State!Nothing
    <3>2. nextLine \in 1..Len(saved) => State!Val \in Value
      BY LineAt
    <3>3. CASE State!Clear
      BY <1>1, <3>1, <3>3 DEF State!Clear
    <3>4. CASE State!ReadSetting
      <4>1. nextLine \in 1..Len(saved)
        BY <3>4 DEF State!ReadSetting, State!Reads, Kinds, Written
      <4> QED BY <1>1, <3>1, <3>2, <3>4, <4>1 DEF State!ReadSetting
    <3>5. CASE State!ReadSong
      <4>1. nextLine \in 1..Len(saved)
        BY <3>5 DEF State!ReadSong, State!Reads, Kinds, Written
      <4> QED BY <1>1, <3>1, <3>2, <3>5, <4>1 DEF State!ReadSong
    <3>6. CASE State!Seek
      BY <1>1, <3>1, <3>6 DEF State!Seek
    <3> QED BY <1>3, <3>3, <3>4, <3>5, <3>6 DEF OneCall
  <2> QED BY <2>1 DEF Asked
<1>4. CASE State!ReadOutput
  <2>1. nextLine \in 1..Len(saved) /\ saved[nextLine].key \in {"on", "off"}
    BY <1>4 DEF State!ReadOutput, State!Reads, Kinds, Written
  <2>2. State!Calls(IF State!SetsOutputs THEN State!Command(saved[nextLine].key, State!Val) ELSE State!Nothing)
    BY <1>4 DEF State!ReadOutput
  <2>3. CASE ~State!SetsOutputs
    BY <1>2, <2>2, <2>3 DEF Asked, State!Nothing
  <2>4. CASE State!SetsOutputs
    <3>1. saved[nextLine] \in FileLine /\ State!Val \in Value
      BY <2>1, LineAt
    <3>2. PICK key \in {"on", "off"}, val \in Value :
            key = saved[nextLine].key /\ val = saved[nextLine].val /\ State!Entry(key, val) = saved[nextLine]
      BY <2>1, <3>1 DEF State!Val, State!Entry, FileLine
    <3>3. State!Entry(key, val) \in State!ToSet(saved)
      BY <2>1, <3>2 DEF State!ToSet, Written
    <3>4. Says(val, key = "on")
      BY <2>4, <3>3 DEF Says, State!SetsOutputs
    <3>5. State!Command(key, val) \in MpdCommand /\ Asked(State!Command(key, val))
      BY <1>1, <3>4 DEF Asked
    <3> QED BY <2>2, <2>4, <3>2, <3>5 DEF State!Val
  <2> QED BY <2>3, <2>4
<1> QED BY <1>3, <1>4

(* The commands in the list have been asked for.                           *)
LEMMA AskedBegins == State!Init => AllAsked
BY DEF State!Init, AllAsked

LEMMA AskedKept == ASSUME Kinds, Written, AllAsked, [State!Next]_(State!vars) PROVE AllAsked'
<1>0. listed \in Seq(MpdCommand)
  BY DEF Kinds
<1>1. CASE UNCHANGED <<listed, saved, skips>>
  BY <1>1 DEF AllAsked, Asked, Says
<1>2. CASE listed' = <<>>
  BY <1>2 DEF AllAsked
<1>3. CASE OneCall
  <2>1. UNCHANGED <<saved, skips>>
    BY <1>3 DEF OneCall, State!Clear, State!ReadSetting, State!ReadSong, State!ReadOutput, State!Seek, State!switches
  <2>2. PICK c \in MpdCommand \cup {State!Nothing} : State!Calls(c) /\ Asked(c)
    BY <1>3, CallAsked
  <2>3. CASE listed' = Append(listed, c)
    <3>1. \A i \in 1..Len(listed') : listed'[i] = c \/ (i \in 1..Len(listed) /\ listed'[i] = listed[i])
      BY <1>0, <2>3
    <3> QED BY <2>1, <2>2, <3>1 DEF AllAsked, Asked, Says
  <2>4. listed' \in {listed, <<>>, Append(listed, c)}
    BY <2>2 DEF State!Calls, State!mpd
  <2> QED BY <1>1, <1>2, <2>1, <2>3, <2>4
<1>4. CASE State!PrintStatus \/ State!PrintPlaylist \/ State!PrintOutputs \/ State!FileChanges \/ State!ListBegin
  <2>1. listed' = listed /\ place \in Saving \cup {"saved"}
    BY <1>4 DEF State!PrintStatus, State!PrintPlaylist, State!PrintOutputs, State!FileChanges, State!ListBegin,
                State!Prints, State!mpd, Saving
  <2> QED BY <1>2, <2>1 DEF Kinds
<1>5. CASE State!ReadCurrent \/ State!ReadBegin \/ State!ReadEnd \/ State!OtherClient
  BY <1>1, <1>5 DEF State!ReadCurrent, State!ReadBegin, State!ReadEnd, State!OtherClient, State!mpd, State!switches
<1>6. CASE State!ReadState \/ State!ListEnd
  BY <1>2, <1>6 DEF State!ReadState, State!ListEnd
<1>7. CASE UNCHANGED State!vars
  BY <1>1, <1>7 DEF State!vars, State!mpd, State!switches
<1> QED BY <1>3, <1>4, <1>5, <1>6, <1>7 DEF State!Next, OneCall

(* So an output is switched only to what the file says.                    *)
LEMMA SwitchedThen ==
  ASSUME Counted, Kinds, Written, AllAsked, [State!Next]_(State!vars)
  PROVE  State!SwitchedAsRead
<1>1. SUFFICES ASSUME State!Next, changes' = changes, server' # server
               PROVE  server' \in Server /\ Follows(server, server')
  <2>1. Follows(server, server') =>
          \A o \in Devices : (o \in server.outputs') # (o \in server.outputs) =>
            "outputs" \notin skips /\ State!Entry(IF o \in server.outputs' THEN "on" ELSE "off", o) \in State!ToSet(saved)
    BY DEF Follows, Says
  <2>2. UNCHANGED State!vars => server' = server
    BY DEF State!vars, State!mpd
  <2> QED BY <2>1, <2>2 DEF State!SwitchedAsRead
<1>2. server \in Server /\ listed \in Seq(MpdCommand)
  BY DEF Kinds
<1>3. Follows(server, server)
  BY DEF Follows
<1>4. CASE OneCall
  <2>1. PICK c \in MpdCommand \cup {State!Nothing} : State!Calls(c) /\ Asked(c)
    BY <1>4, CallAsked
  <2>2. c \in MpdCommand /\ server' = State!Effect(server, c)
    BY <1>1, <2>1 DEF State!Calls, State!mpd
  <2>3. State!Effect(server, c) \in Server /\ Follows(server, State!Effect(server, c))
    BY <1>2, <1>3, <2>1, <2>2, EffectFollows, EffectIs
  <2>4. PICK t \in Server : t = State!Effect(server, c) /\ Follows(server, t)
    BY <2>3
  <2>5. server' = t
    BY <2>2, <2>4
  <2> QED BY <2>4, <2>5 DEF Follows
<1>5. CASE State!ListEnd
  <2>1. PICK n \in 0..Len(listed) : server' = State!Execute(server, SubSeq(listed, 1, n))
    BY <1>1, <1>5 DEF State!ListEnd
  <2>2. PICK commands : commands = SubSeq(listed, 1, n)
    OBVIOUS
  <2>3. commands \in Seq(MpdCommand) /\ \A i \in 1..Len(commands) : Asked(commands[i])
    BY <1>2, <2>1, <2>2 DEF AllAsked
  <2>4. PICK t \in Server : t = State!Execute(server, commands) /\ Follows(server, t)
    BY <1>2, <2>3, ExecuteFollows, ExecuteKinds
  <2>5. server' = t
    BY <2>1, <2>2, <2>4
  <2> QED BY <2>4, <2>5 DEF Follows
<1>6. CASE Leaves
  BY <1>1, <1>6, NothingSent DEF State!mpd
<1>7. CASE State!ListBegin \/ State!ReadState
  BY <1>1, <1>7 DEF State!ListBegin, State!ReadState
<1>8. CASE State!OtherClient
  BY <1>1, <1>8 DEF State!OtherClient, Counted
<1> QED BY <1>1, <1>4, <1>5, <1>6, <1>7, <1>8, StateSteps

(* The inductive invariant, with that of Atomic: the file says of every    *)
(* output one thing at most, and what the list does is what the lines up   *)
(* to the next one say, whatever it is executed on.                        *)
LEMMA SavesKept == ASSUME Atomic, Saves, [State!Next]_(State!vars) PROVE Saves'
<1>1. CASE State!Next
  <2>1. Kinds /\ Written /\ Sent /\ Collecting
    BY DEF Saves, Atomic
  <2>2. Written'
    BY <1>1, <2>1, WrittenKept
  <2>3. Kinds'
    BY <1>1, <2>1, KindsKept
  <2>4. Sent'
    BY <1>1, <2>1, <2>3, SentKept
  <2> QED BY <2>2, <2>3, <2>4 DEF Saves
<1>2. CASE UNCHANGED State!vars
  <2>1. UNCHANGED <<server, listed, lost, dropped, saved, skips, add, place, nextLine, songnum>>
    BY <1>2 DEF State!vars, State!mpd, State!switches
  <2>2. Kinds' /\ Written'
    BY <2>1 DEF Saves, Kinds, Written
  <2>3. Sent'
    BY <2>1 DEF Saves, Sent, ListsSongs, ListsOutputs, Before, Behind, Adds, State!AddsSongs
  <2> QED BY <2>2, <2>3 DEF Saves
<1> QED BY <1>1, <1>2

(* While a restore goes on, and nothing was lost, the list that MPD has    *)
(* collected does what the lines read so far say.                          *)
THEOREM Restores == State!Spec => []Saves
BY AtomicBegins, AtomicKept, SavesBegins, SavesKept, PTL DEF State!Spec

(* After a restore without errors the outputs are as the file says, unless *)
(* -o was given, and with -p the songs of the file are behind those there  *)
(* were; and whatever goes wrong, an output is switched to what the file   *)
(* says of it.                                                             *)
THEOREM RestoresAsRead == MoreSpec => RestoredAsRead
<1>1. Atomic /\ Saves => Counted /\ Kinds /\ Written
  BY DEF Atomic, Saves
<1>2. Atomic /\ Saves /\ AllAsked /\ which = "mpd-state" /\ [MoreNext]_ofMore
        => [which = "mpd-state" => State!AsRead]_ofMore
  <2> SUFFICES ASSUME Atomic, Saves, AllAsked, which = "mpd-state", MoreNext PROVE State!AsRead
    OBVIOUS
  <2>1. State!Next
    BY DEF MoreNext
  <2> QED BY <1>1, <2>1, RestoredThen, SwitchedThen DEF State!AsRead
<1>3. ~(which = "mpd-state") => [which = "mpd-state" => State!AsRead]_ofMore
  OBVIOUS
<1>4. Atomic /\ Saves /\ AllAsked /\ [State!Next]_(State!vars) => AllAsked'
  BY <1>1, AskedKept
<1> QED BY <1>2, <1>3, <1>4, AskedBegins, AtomicBegins, AtomicKept, SavesBegins, SavesKept, StateAlone,
           PTL DEF MoreSpec, State!Spec, RestoredAsRead

-----------------------------------------------------------------------------
(* Cutcom.                                                                 *)
(* Induction from the end of a sequence to its beginning.                  *)
LEMMA Backwards ==
  ASSUME NEW N \in Nat, NEW S, N + 1 \in S,
         \A i \in 1..N : (\A j \in i + 1..N + 1 : j \in S) => i \in S
  PROVE  1..N + 1 \subseteq S
<1> DEFINE From == {n \in Nat : n <= N => \A j \in N + 1 - n..N + 1 : j \in S}
<1>1. 0 \in From
  OBVIOUS
<1>2. \A n \in Nat : n \in From => n + 1 \in From
  <2> SUFFICES ASSUME NEW n \in Nat, n \in From, n + 1 <= N
               PROVE  \A j \in N + 1 - (n + 1)..N + 1 : j \in S
    OBVIOUS
  <2>1. \A j \in N + 1 - n..N + 1 : j \in S
    OBVIOUS
  <2>2. N - n \in 1..N /\ (N - n) + 1 = N + 1 - n
    OBVIOUS
  <2>3. N - n \in S
    BY <2>1, <2>2
  <2>4. \A j \in N + 1 - (n + 1)..N + 1 : j = N - n \/ j \in N + 1 - n..N + 1
    OBVIOUS
  <2> QED BY <2>1, <2>3, <2>4
<1>3. Nat \subseteq From
  <2> HIDE DEF From
  <2> QED BY <1>1, <1>2, Inductive
<1>4. N \in From
  BY <1>3
<1> QED BY <1>4

(* A set of natural numbers has a least one.                               *)
LEMMA LeastOf ==
  ASSUME NEW S, S \subseteq Nat, S # {}
  PROVE  \E m \in S : \A x \in S : m <= x
<1> DEFINE less == OpToRel(<, Nat)
<1>1. PICK m \in S : \A x \in S : ~ (<<x, m>> \in less)
  BY WFMin, NatLessThanWellFounded
<1>2. ASSUME NEW x \in S, x < m PROVE FALSE
  <2>1. <<x, m>> \in less
    BY <1>2, Z3 DEF OpToRel
  <2> QED BY <1>1, <2>1
<1> HIDE DEF less
<1>3. \A x \in S : m <= x
  <2> SUFFICES ASSUME NEW x \in S, x < m PROVE FALSE
    OBVIOUS
  <2> QED BY <1>2
<1> QED BY <1>3

(* cutcom.                                                                 *)
LEMMA MinIs ==
  ASSUME NEW S, NEW m \in S, S \subseteq Int, \A x \in S : m <= x
  PROVE  Comments!Min(S) = m
<1>1. \A x \in S : (\A y \in S : x <= y) => x = m
  OBVIOUS
<1> QED BY <1>1 DEF Comments!Min

LEMMA MinIn ==
  ASSUME NEW S, S \subseteq Nat, S # {}
  PROVE  Comments!Min(S) \in S
<1>1. PICK m \in S : \A x \in S : m <= x
  BY LeastOf
<1>2. S \subseteq Int
  OBVIOUS
<1>3. Comments!Min(S) = m
  BY <1>1, <1>2, MinIs
<1> QED BY <1>3

Text == Seq(Comments!Char)

LEMMA TextIs ==
  ASSUME NEW text \in Text
  PROVE  Len(text) \in Nat /\ \A i \in 1..Len(text) : text[i] \in Comments!Char
BY DEF Text

(* Every piece of a text ends behind its beginning, and in the text.       *)
LEMMA EndsIn ==
  ASSUME NEW text \in Text, NEW i \in 1..Len(text)
  PROVE  /\ Comments!LiteralEnd(text, i) \in i..Len(text)
         /\ i < Len(text) => Comments!LineEnd(text, i) \in i + 1..Len(text) + 1
         /\ Comments!BlockEnd(text, i) \in i..Len(text)
<1>0. Len(text) \in Nat
  BY TextIs
<1>1. Comments!LiteralEnd(text, i) \in i..Len(text)
  <2> DEFINE S == {j \in i + 1..Len(text) : text[j] = text[i] /\ ~Comments!Escaped(text, i, j)} \cup {Len(text)}
  <2>1. S # {} /\ S \subseteq i..Len(text) /\ S \subseteq Nat
    BY <1>0
  <2>2. Comments!LiteralEnd(text, i) = Comments!Min(S)
    BY DEF Comments!LiteralEnd
  <2> HIDE DEF S
  <2> QED BY <2>1, <2>2, MinIn
<1>2. ASSUME i < Len(text) PROVE Comments!LineEnd(text, i) \in i + 1..Len(text) + 1
  <2> DEFINE S == {j \in i + 2..Len(text) : text[j] = "\n"} \cup {Len(text) + 1}
  <2>1. S # {} /\ S \subseteq i + 1..Len(text) + 1 /\ S \subseteq Nat
    BY <1>0, <1>2
  <2>2. Comments!LineEnd(text, i) = Comments!Min(S)
    BY DEF Comments!LineEnd
  <2> HIDE DEF S
  <2> QED BY <2>1, <2>2, MinIn
<1>3. Comments!BlockEnd(text, i) \in i..Len(text)
  <2> DEFINE S == {j \in i + 3..Len(text) : text[j - 1] = Comments!Star /\ text[j] = Comments!Slash} \cup {Len(text)}
  <2>1. S # {} /\ S \subseteq i..Len(text) /\ S \subseteq Nat
    BY <1>0
  <2>2. Comments!BlockEnd(text, i) = Comments!Min(S)
    BY DEF Comments!BlockEnd
  <2> HIDE DEF S
  <2> QED BY <2>1, <2>2, MinIn
<1> QED BY <1>1, <1>2, <1>3

LEMMA PieceIs ==
  ASSUME NEW kept, NEW next
  PROVE  Comments!Piece(kept, next).kept = kept /\ Comments!Piece(kept, next).next = next
BY DEF Comments!Piece

Quotes == {"\"", "'"}

LEMMA PieceAtIs ==
  ASSUME NEW text, NEW i
  PROVE  /\ text[i] \in Quotes =>
              Comments!PieceAt(text, i) = Comments!Piece(SubSeq(text, i, Comments!LiteralEnd(text, i)), Comments!LiteralEnd(text, i) + 1)
         /\ text[i] \notin Quotes /\ Comments!Opens(text, i, Comments!Slash) =>
              Comments!PieceAt(text, i) = Comments!Piece(<<>>, Comments!LineEnd(text, i))
         /\ text[i] \notin Quotes /\ ~Comments!Opens(text, i, Comments!Slash) /\ Comments!Opens(text, i, Comments!Star) =>
              Comments!PieceAt(text, i) = Comments!Piece(<<>>, Comments!BlockEnd(text, i) + 1)
         /\ text[i] \notin Quotes /\ ~Comments!Opens(text, i, Comments!Slash) /\ ~Comments!Opens(text, i, Comments!Star) =>
              Comments!PieceAt(text, i) = Comments!Piece(<<text[i]>>, i + 1)
BY DEF Comments!PieceAt, Quotes

LEMMA PieceIn ==
  ASSUME NEW text \in Text, NEW i \in 1..Len(text)
  PROVE  Comments!PieceAt(text, i).kept \in Text /\ Comments!PieceAt(text, i).next \in i + 1..Len(text) + 1
<1>0. Len(text) \in Nat /\ text[i] \in Comments!Char
  BY TextIs
<1>e. <<>> \in Text
  BY DEF Text
<1> DEFINE Fits(piece) == piece.kept \in Text /\ piece.next \in i + 1..Len(text) + 1
<1>f. ASSUME NEW kept \in Text, NEW next \in i + 1..Len(text) + 1 PROVE Fits(Comments!Piece(kept, next))
  BY PieceIs
<1> HIDE DEF Fits
<1>1. CASE text[i] \in Quotes
  <2>1. Comments!LiteralEnd(text, i) \in i..Len(text)
    BY EndsIn
  <2>2. SubSeq(text, i, Comments!LiteralEnd(text, i)) \in Text
    BY <1>0, <2>1 DEF Text
  <2>3. Comments!LiteralEnd(text, i) + 1 \in i + 1..Len(text) + 1
    BY <1>0, <2>1
  <2>4. Comments!PieceAt(text, i) = Comments!Piece(SubSeq(text, i, Comments!LiteralEnd(text, i)), Comments!LiteralEnd(text, i) + 1)
    BY <1>1, PieceAtIs
  <2>5. Fits(Comments!Piece(SubSeq(text, i, Comments!LiteralEnd(text, i)), Comments!LiteralEnd(text, i) + 1))
    BY <1>f, <2>2, <2>3
  <2> QED BY <2>4, <2>5 DEF Fits
<1>2. CASE text[i] \notin Quotes /\ Comments!Opens(text, i, Comments!Slash)
  <2>1. Comments!LineEnd(text, i) \in i + 1..Len(text) + 1
    BY <1>2, EndsIn DEF Comments!Opens
  <2>2. Comments!PieceAt(text, i) = Comments!Piece(<<>>, Comments!LineEnd(text, i))
    BY <1>2, PieceAtIs
  <2>3. Fits(Comments!Piece(<<>>, Comments!LineEnd(text, i)))
    BY <1>e, <1>f, <2>1
  <2> QED BY <2>2, <2>3 DEF Fits
<1>3. CASE text[i] \notin Quotes /\ ~Comments!Opens(text, i, Comments!Slash) /\ Comments!Opens(text, i, Comments!Star)
  <2>1. Comments!BlockEnd(text, i) \in i..Len(text)
    BY EndsIn
  <2>2. Comments!BlockEnd(text, i) + 1 \in i + 1..Len(text) + 1
    BY <1>0, <2>1
  <2>3. Comments!PieceAt(text, i) = Comments!Piece(<<>>, Comments!BlockEnd(text, i) + 1)
    BY <1>3, PieceAtIs
  <2>4. Fits(Comments!Piece(<<>>, Comments!BlockEnd(text, i) + 1))
    BY <1>e, <1>f, <2>2
  <2> QED BY <2>3, <2>4 DEF Fits
<1>4. CASE text[i] \notin Quotes /\ ~Comments!Opens(text, i, Comments!Slash) /\ ~Comments!Opens(text, i, Comments!Star)
  <2>1. <<text[i]>> \in Text
    BY <1>0 DEF Text
  <2>2. i + 1 \in i + 1..Len(text) + 1
    BY <1>0
  <2>3. Comments!PieceAt(text, i) = Comments!Piece(<<text[i]>>, i + 1)
    BY <1>4, PieceAtIs
  <2>4. Fits(Comments!Piece(<<text[i]>>, i + 1))
    BY <1>f, <2>1, <2>2
  <2> QED BY <2>3, <2>4 DEF Fits
<1> QED BY <1>1, <1>2, <1>3, <1>4

(* What is left, from each character on.                                   *)
Left(text, f, i) == IF i > Len(text) THEN <<>> ELSE Comments!PieceAt(text, i).kept \o f[Comments!PieceAt(text, i).next]

LEMMA StripThere ==
  ASSUME NEW text \in Text
  PROVE  \E f : \A i \in 1..Len(text) + 1 : f[i] \in Text /\ f[i] = Left(text, f, i)
<1> DEFINE N == Len(text)
           From(n, f) == \A i \in n..N + 1 : f[i] \in Text /\ f[i] = Left(text, f, i)
           There == {n \in 1..N + 1 : \E f : From(n, f)}
<1>0. N \in Nat /\ Len(text) = N
  BY TextIs
<1> HIDE DEF N
<1>1. N + 1 \in There
  <2> DEFINE f == [i \in N + 1..N + 1 |-> <<>>]
  <2>1. <<>> \in Text
    BY DEF Text
  <2>2. \A i \in N + 1..N + 1 : i > N /\ f[i] = <<>>
    BY <1>0
  <2> HIDE DEF f
  <2>3. From(N + 1, f)
    BY <1>0, <2>1, <2>2 DEF Left
  <2> HIDE DEF From
  <2> QED BY <1>0, <2>3
<1>2. ASSUME NEW n \in 1..N, \A j \in n + 1..N + 1 : j \in There PROVE n \in There
  <2>1. n + 1 \in There
    <3>1. n + 1 \in n + 1..N + 1
      BY <1>0
    <3> HIDE DEF There
    <3> QED BY <1>2, <3>1
  <2>2. PICK g : From(n + 1, g)
    <3> HIDE DEF From
    <3> QED BY <2>1
  <2> DEFINE next == Comments!PieceAt(text, n).next
             now  == Comments!PieceAt(text, n).kept \o g[next]
             f == [i \in n..N + 1 |-> IF i = n THEN now ELSE g[i]]
  <2>3. next \in n + 1..N + 1 /\ Comments!PieceAt(text, n).kept \in Text
    BY <1>0, PieceIn
  <2>4. now \in Text
    <3>1. g[next] \in Text
      BY <2>2, <2>3
    <3> HIDE DEF next
    <3> QED BY <2>3, <3>1, ConcatProperties DEF Text
  <2>5. f[n] = now /\ \A i \in n + 1..N + 1 : f[i] = g[i]
    <3> HIDE DEF now, From, There
    <3>1. n \in n..N + 1 /\ \A i \in n + 1..N + 1 : i \in n..N + 1 /\ i # n
      BY <1>0
    <3> QED BY <3>1
  <2>6. n # N + 1 /\ ~(n > N)
    BY <1>0
  <2> HIDE DEF f, now
  <2>7. From(n, f)
    <3> SUFFICES ASSUME NEW i \in n..N + 1 PROVE f[i] \in Text /\ f[i] = Left(text, f, i)
      OBVIOUS
    <3>1. CASE i = n
      <4>1. f[next] = g[next]
        BY <2>3, <2>5
      <4>2. Left(text, f, n) = Comments!PieceAt(text, n).kept \o f[next]
        BY <1>0, <2>6 DEF Left
      <4> QED BY <2>4, <2>5, <3>1, <4>1, <4>2 DEF now
    <3>2. CASE i # n
      <4>1. i \in n + 1..N + 1
        BY <1>0, <3>2
      <4>2. g[i] \in Text /\ g[i] = Left(text, g, i)
        BY <2>2, <4>1
      <4>3. Left(text, f, i) = Left(text, g, i)
        <5>1. CASE i > Len(text)
          BY <5>1 DEF Left
        <5>2. CASE ~(i > Len(text))
          <6>1. i \in 1..Len(text)
            BY <1>0, <4>1, <5>2
          <6>2. Comments!PieceAt(text, i).next \in i + 1..N + 1
            BY <1>0, <6>1, PieceIn
          <6>3. Comments!PieceAt(text, i).next \in n + 1..N + 1
            BY <1>0, <4>1, <6>2
          <6>4. f[Comments!PieceAt(text, i).next] = g[Comments!PieceAt(text, i).next]
            BY <2>5, <6>3
          <6> QED BY <5>2, <6>4 DEF Left
        <5> QED BY <5>1, <5>2
      <4> QED BY <2>5, <4>1, <4>2, <4>3
    <3> QED BY <3>1, <3>2
  <2> HIDE DEF From
  <2> QED BY <1>0, <2>7
<1>3. 1..N + 1 \subseteq There
  <2> HIDE DEF There
  <2> QED BY <1>0, <1>1, <1>2, Backwards
<1>4. 1 \in There
  <2> HIDE DEF There
  <2> QED BY <1>0, <1>3
<1> QED BY <1>0, <1>4

LEMMA StrippedIs ==
  ASSUME NEW text \in Text
  PROVE  \A i \in 1..Len(text) + 1 :
           Comments!Stripped(text)[i] \in Text /\ Comments!Stripped(text)[i] = Left(text, Comments!Stripped(text), i)
<1> DEFINE N == Len(text)
           Is(f) == f = [i \in 1..N + 1 |->
                           IF i > Len(text) THEN <<>> ELSE Comments!PieceAt(text, i).kept \o f[Comments!PieceAt(text, i).next]]
           g == CHOOSE f : Is(f)
<1>0. N \in Nat
  BY TextIs
<1>1. PICK h : \A i \in 1..N + 1 : h[i] \in Text /\ h[i] = Left(text, h, i)
  BY StripThere
<1>2. Is([i \in 1..N + 1 |-> h[i]])
  <2> DEFINE f == [i \in 1..N + 1 |-> h[i]]
  <2>1. \A i \in 1..N + 1 : f[i] = h[i]
    OBVIOUS
  <2> HIDE DEF f
  <2>2. \A i \in 1..N + 1 : h[i] = Left(text, f, i)
    <3> SUFFICES ASSUME NEW i \in 1..N + 1 PROVE Left(text, h, i) = Left(text, f, i)
      BY <1>1
    <3>1. CASE i > Len(text)
      BY <3>1 DEF Left
    <3>2. CASE ~(i > Len(text))
      <4>1. i \in 1..Len(text)
        BY <1>0, <3>2
      <4>2. Comments!PieceAt(text, i).next \in i + 1..Len(text) + 1
        BY <4>1, PieceIn
      <4>3. Comments!PieceAt(text, i).next \in 1..N + 1
        BY <1>0, <4>1, <4>2
      <4> QED BY <2>1, <3>2, <4>3 DEF Left
    <3> QED BY <3>1, <3>2
  <2>3. \A i \in 1..N + 1 : h[i] = IF i > Len(text) THEN <<>> ELSE Comments!PieceAt(text, i).kept \o f[Comments!PieceAt(text, i).next]
    BY <2>2 DEF Left
  <2> HIDE DEF N
  <2> QED BY <2>3 DEF f
<1>3. Is(g)
  <2> HIDE DEF Is
  <2> QED BY <1>2
<1>4. Comments!Stripped(text) = g
  BY DEF Comments!Stripped
<1> HIDE DEF g
<1>5. \A i \in 1..N + 1 : g[i] = Left(text, g, i)
  BY <1>3 DEF Left
<1> DEFINE Good == {i \in 1..N + 1 : g[i] \in Text}
<1>6. N + 1 \in Good
  <2>1. g[N + 1] = <<>>
    BY <1>0, <1>5 DEF Left
  <2>2. <<>> \in Text
    BY DEF Text
  <2> QED BY <1>0, <2>1, <2>2
<1>7. ASSUME NEW i \in 1..N, \A j \in i + 1..N + 1 : j \in Good PROVE i \in Good
  <2>1. Comments!PieceAt(text, i).next \in i + 1..N + 1 /\ Comments!PieceAt(text, i).kept \in Text
    BY PieceIn
  <2>2. g[Comments!PieceAt(text, i).next] \in Text
    BY <1>7, <2>1
  <2>3. Comments!PieceAt(text, i).kept \o g[Comments!PieceAt(text, i).next] \in Text
    BY <2>1, <2>2, ConcatProperties DEF Text
  <2>4. i \in 1..N + 1 /\ ~(i > Len(text))
    BY <1>0
  <2>5. g[i] = Comments!PieceAt(text, i).kept \o g[Comments!PieceAt(text, i).next]
    <3>1. g[i] = Left(text, g, i)
      BY <1>5, <2>4
    <3> QED BY <2>4, <3>1 DEF Left
  <2>6. g[i] \in Text
    BY <2>3, <2>5
  <2> QED BY <2>4, <2>6
<1>8. 1..N + 1 \subseteq Good
  <2> HIDE DEF Good, N
  <2> QED BY <1>0, <1>6, <1>7, Backwards
<1> QED BY <1>4, <1>5, <1>8

(* What has been read of a text, if it begins so, leaves out what is not   *)
(* in kept; what comes of the rest begins at p.                            *)
Extends(text, front) ==
  text \in Text /\ Len(front) <= Len(text) /\ \A i \in 1..Len(front) : text[i] = front[i]
Leads(front, kept, p) == \A text : Extends(text, front) => Comments!Strip(text) = kept \o Comments!Stripped(text)[p]
Takes(front, p, kept, next) == \A text : Extends(text, front) => Comments!PieceAt(text, p) = Comments!Piece(kept, next)

LEMMA LeadsBegins == Leads(<<>>, <<>>, 1)
<1> SUFFICES ASSUME NEW text, Extends(text, <<>>) PROVE Comments!Strip(text) = <<>> \o Comments!Stripped(text)[1]
  BY DEF Leads
<1>1. text \in Text /\ Len(text) \in Nat
  BY TextIs DEF Extends
<1>2. Comments!Stripped(text)[1] \in Text
  BY <1>1, StrippedIs
<1>3. <<>> \o Comments!Stripped(text)[1] = Comments!Stripped(text)[1]
  BY <1>2 DEF Text
<1> QED BY <1>3 DEF Comments!Strip

LEMMA ExtendsMore ==
  ASSUME NEW front \in Text, NEW ch \in Comments!Char, NEW text, Extends(text, Append(front, ch))
  PROVE  Extends(text, front)
<1>1. Len(Append(front, ch)) = Len(front) + 1 /\ Len(front) \in Nat
      /\ \A i \in 1..Len(front) : Append(front, ch)[i] = front[i]
  BY AppendProperties, TextIs DEF Text
<1>2. text \in Text /\ Len(text) \in Nat
  BY TextIs DEF Extends
<1> QED BY <1>1, <1>2 DEF Extends

LEMMA LeadsMore ==
  ASSUME NEW front \in Text, NEW ch \in Comments!Char, NEW kept, NEW p, Leads(front, kept, p)
  PROVE  Leads(Append(front, ch), kept, p)
BY ExtendsMore DEF Leads

LEMMA Regrouped ==
  ASSUME NEW a \in Text, NEW b \in Text, NEW c \in Text
  PROVE  (a \o b) \o c = a \o (b \o c)
BY ConcatAssociative DEF Text

LEMMA LeadsOn ==
  ASSUME NEW front \in Text, NEW kept \in Text, NEW p \in 1..Len(front), Leads(front, kept, p),
         NEW more \in Text, NEW next \in 1..Len(front) + 1, Takes(front, p, more, next)
  PROVE  Leads(front, kept \o more, next)
<1> SUFFICES ASSUME NEW text, Extends(text, front)
             PROVE  Comments!Strip(text) = (kept \o more) \o Comments!Stripped(text)[next]
  BY DEF Leads
<1>1. text \in Text /\ Len(text) \in Nat /\ Len(front) \in Nat /\ Len(front) <= Len(text)
  BY TextIs DEF Extends
<1>2. p \in 1..Len(text) + 1 /\ next \in 1..Len(text) + 1 /\ ~(p > Len(text))
  BY <1>1
<1>3. Comments!Stripped(text)[p] = Left(text, Comments!Stripped(text), p) /\ Comments!Stripped(text)[next] \in Text
  BY <1>1, <1>2, StrippedIs
<1>4. Comments!PieceAt(text, p) = Comments!Piece(more, next)
  BY DEF Takes
<1>5. Comments!Stripped(text)[p] = more \o Comments!Stripped(text)[next]
  <2>1. Comments!PieceAt(text, p).kept = more /\ Comments!PieceAt(text, p).next = next
    BY <1>4, PieceIs
  <2> QED BY <1>2, <1>3, <2>1 DEF Left
<1>6. Comments!Strip(text) = kept \o Comments!Stripped(text)[p]
  BY DEF Leads
<1>7. kept \o (more \o Comments!Stripped(text)[next]) = (kept \o more) \o Comments!Stripped(text)[next]
  <2> DEFINE rest == Comments!Stripped(text)[next]
  <2>1. rest \in Text
    BY <1>3
  <2> HIDE DEF rest
  <2>2. (kept \o more) \o rest = kept \o (more \o rest)
    BY <2>1, Regrouped
  <2> QED BY <2>2 DEF rest
<1> QED BY <1>5, <1>6, <1>7

(* If the piece at the end goes to the end of what has been read, that is  *)
(* what is left if the text ends here.                                     *)
LEMMA LeadsToEnd ==
  ASSUME NEW front \in Text, NEW kept \in Text, Leads(front, kept, Len(front) + 1)
  PROVE  Comments!Strip(front) = kept
<1>1. Len(front) \in Nat /\ Extends(front, front)
  BY TextIs DEF Extends
<1>2. Comments!Stripped(front)[Len(front) + 1] = Left(front, Comments!Stripped(front), Len(front) + 1)
  BY <1>1, StrippedIs
<1>3. Comments!Stripped(front)[Len(front) + 1] = <<>>
  BY <1>1, <1>2 DEF Left
<1>4. kept \o <<>> = kept
  BY DEF Text
<1> QED BY <1>1, <1>3, <1>4 DEF Leads

LEMMA LeadsToLast ==
  ASSUME NEW front \in Text, NEW kept \in Text, NEW p \in 1..Len(front), Leads(front, kept, p),
         NEW more \in Text, Comments!PieceAt(front, p) = Comments!Piece(more, Len(front) + 1)
  PROVE  Comments!Strip(front) = kept \o more
<1>1. Len(front) \in Nat /\ Extends(front, front)
  BY TextIs DEF Extends
<1>2. /\ Comments!Stripped(front)[Len(front) + 1] = Left(front, Comments!Stripped(front), Len(front) + 1)
      /\ Comments!Stripped(front)[p] = Left(front, Comments!Stripped(front), p)
  BY <1>1, StrippedIs
<1>3. Comments!Stripped(front)[Len(front) + 1] = <<>>
  BY <1>1, <1>2 DEF Left
<1>4. Comments!Stripped(front)[p] = more \o <<>>
  <2>1. Comments!PieceAt(front, p).kept = more /\ Comments!PieceAt(front, p).next = Len(front) + 1
    BY PieceIs
  <2>2. ~(p > Len(front))
    BY <1>1
  <2> QED BY <1>2, <1>3, <2>1, <2>2 DEF Left
<1>5. more \o <<>> = more
  BY DEF Text
<1> QED BY <1>1, <1>4, <1>5 DEF Leads

(* Whether a character is escaped is known from those in front of it.      *)
Slashes(text, i, j) == {k \in i + 1..j - 1 : \A l \in k..j - 1 : text[l] = "\\"}

LEMMA SameCardinality == ASSUME NEW S PROVE Comments!Cardinality(S) = Cardinality(S)
BY DEF Comments!Cardinality, Cardinality

LEMMA EscapedIs ==
  ASSUME NEW text, NEW i, NEW j
  PROVE  Comments!Escaped(text, i, j) <=> Cardinality(Slashes(text, i, j)) % 2 = 1
BY SameCardinality DEF Comments!Escaped, Slashes

LEMMA EscapedAlike ==
  ASSUME NEW text, NEW other, NEW i \in Nat, NEW j \in Nat, \A l \in i + 1..j - 1 : text[l] = other[l]
  PROVE  Comments!Escaped(text, i, j) <=> Comments!Escaped(other, i, j)
<1>1. Slashes(text, i, j) = Slashes(other, i, j)
  BY DEF Slashes
<1> QED BY <1>1, EscapedIs

LEMMA EscapedFirst == ASSUME NEW text, NEW i \in Nat PROVE ~Comments!Escaped(text, i, i + 1)
<1>1. Slashes(text, i, i + 1) = {}
  BY DEF Slashes
<1>2. Cardinality(Slashes(text, i, i + 1)) = 0
  BY <1>1, FS_EmptySet
<1> QED BY <1>2, EscapedIs

LEMMA EscapedNext ==
  ASSUME NEW text, NEW i \in Nat, NEW j \in Nat, i < j
  PROVE  Comments!Escaped(text, i, j + 1) <=> text[j] = "\\" /\ ~Comments!Escaped(text, i, j)
<1> DEFINE before == Slashes(text, i, j)
           now == Slashes(text, i, j + 1)
<1>1. before \subseteq i + 1..j - 1 /\ j \notin before
  BY DEF Slashes
<1>2. IsFiniteSet(before) /\ Cardinality(before) \in Nat
  <2>1. IsFiniteSet(i + 1..j - 1)
    BY FS_Interval
  <2> HIDE DEF before
  <2> QED BY <1>1, <2>1, FS_Subset, FS_CardinalityType
<1>3. CASE text[j] = "\\"
  <2>1. now = before \cup {j}
    BY <1>3 DEF Slashes
  <2> HIDE DEF before, now
  <2>2. Cardinality(now) = Cardinality(before) + 1
    BY <1>1, <1>2, <2>1, FS_AddElement
  <2>3. Cardinality(now) % 2 = 1 <=> ~(Cardinality(before) % 2 = 1)
    BY <1>2, <2>2
  <2> QED BY <1>3, <2>3, EscapedIs DEF before, now
<1>4. CASE text[j] # "\\"
  <2>1. now = {}
    BY <1>4 DEF Slashes
  <2>2. Cardinality(now) = 0
    BY <2>1, FS_EmptySet
  <2> HIDE DEF now
  <2>3. ~(Cardinality(now) % 2 = 1)
    BY <2>2
  <2> QED BY <1>4, <2>3, EscapedIs DEF now
<1> QED BY <1>3, <1>4

(* What ends at the last character read is taken, whatever comes.          *)
LiteralOpen(front, p, m) == \A j \in p + 1..m : ~(front[j] = front[p] /\ ~Comments!Escaped(front, p, j))
LineOpen(front, p, m)    == \A j \in p + 2..m : front[j] # "\n"
BlockOpen(front, p, m)   == \A j \in p + 3..m : ~(front[j - 1] = Comments!Star /\ front[j] = Comments!Slash)

LEMMA TakesPlain ==
  ASSUME NEW front \in Text, NEW p \in 1..Len(front), front[p] \notin Quotes,
         front[p] = Comments!Slash => p < Len(front) /\ front[p + 1] \notin {Comments!Slash, Comments!Star}
  PROVE  Takes(front, p, <<front[p]>>, p + 1)
<1> SUFFICES ASSUME NEW text, Extends(text, front) PROVE Comments!PieceAt(text, p) = Comments!Piece(<<front[p]>>, p + 1)
  BY DEF Takes
<1>1. text \in Text /\ Len(text) \in Nat /\ Len(front) \in Nat /\ Len(front) <= Len(text)
  BY TextIs DEF Extends
<1>2. text[p] = front[p]
  BY DEF Extends
<1>3. p < Len(front) => text[p + 1] = front[p + 1]
  BY <1>1 DEF Extends
<1>4. ~Comments!Opens(text, p, Comments!Slash) /\ ~Comments!Opens(text, p, Comments!Star)
  BY <1>2, <1>3 DEF Comments!Opens
<1>5. text[p] \notin Quotes
  BY <1>2
<1>6. Comments!PieceAt(text, p) = Comments!Piece(<<text[p]>>, p + 1)
  BY <1>4, <1>5, PieceAtIs
<1> QED BY <1>2, <1>6

LEMMA SamePart ==
  ASSUME NEW front \in Text, NEW text, Extends(text, front), NEW p \in 1..Len(front)
  PROVE  SubSeq(text, p, Len(front)) = SubSeq(front, p, Len(front))
<1>1. text \in Text /\ Len(text) \in Nat /\ Len(front) \in Nat /\ Len(front) <= Len(text)
  BY TextIs DEF Extends
<1> DEFINE n == Len(front)
           a == SubSeq(text, p, n)
           b == SubSeq(front, p, n)
<1>2. a \in Seq(Comments!Char) /\ b \in Seq(Comments!Char) /\ Len(a) = n - p + 1 /\ Len(b) = n - p + 1
  BY <1>1, SubSeqProperties DEF Text
<1>3. \A i \in 1..n - p + 1 : a[i] = text[p + i - 1] /\ b[i] = front[p + i - 1]
  BY <1>1, SubSeqProperties DEF Text
<1>4. \A i \in 1..n - p + 1 : a[i] = b[i]
  <2> SUFFICES ASSUME NEW i \in 1..n - p + 1 PROVE a[i] = b[i]
    OBVIOUS
  <2>1. p + i - 1 \in 1..n
    BY <1>1
  <2>2. text[p + i - 1] = front[p + i - 1]
    BY <2>1 DEF Extends
  <2> HIDE DEF a, b, n
  <2> QED BY <1>3, <2>2
<1> HIDE DEF a, b, n
<1>5. a = b
  BY <1>2, <1>4, SeqEqual
<1> QED BY <1>5 DEF a, b, n

LEMMA TakesLiteral ==
  ASSUME NEW front \in Text, NEW p \in 1..Len(front), p < Len(front), front[p] \in Quotes,
         front[Len(front)] = front[p], ~Comments!Escaped(front, p, Len(front)), LiteralOpen(front, p, Len(front) - 1)
  PROVE  Takes(front, p, SubSeq(front, p, Len(front)), Len(front) + 1)
<1> DEFINE n == Len(front)
<1> SUFFICES ASSUME NEW text, Extends(text, front)
             PROVE  Comments!PieceAt(text, p) = Comments!Piece(SubSeq(front, p, n), n + 1)
  BY DEF Takes
<1>1. text \in Text /\ Len(text) \in Nat /\ n \in Nat /\ n <= Len(text)
  BY TextIs DEF Extends
<1>2. \A i \in 1..n : text[i] = front[i]
  BY DEF Extends
<1> DEFINE S == {j \in p + 1..Len(text) : text[j] = text[p] /\ ~Comments!Escaped(text, p, j)} \cup {Len(text)}
<1>3. \A j \in p + 1..n : Comments!Escaped(text, p, j) <=> Comments!Escaped(front, p, j)
  <2> SUFFICES ASSUME NEW j \in p + 1..n PROVE Comments!Escaped(text, p, j) <=> Comments!Escaped(front, p, j)
    OBVIOUS
  <2>1. \A l \in p + 1..j - 1 : text[l] = front[l]
    BY <1>1, <1>2
  <2>2. j \in Nat
    BY <1>1
  <2> QED BY <2>1, <2>2, EscapedAlike
<1>4. n \in S /\ S \subseteq Int
  BY <1>1, <1>2, <1>3
<1>5. \A x \in S : n <= x
  <2> SUFFICES ASSUME NEW x \in p + 1..n - 1, text[x] = text[p], ~Comments!Escaped(text, p, x) PROVE FALSE
    BY <1>1
  <2>1. x \in 1..n /\ x \in p + 1..n /\ p \in 1..n
    BY <1>1
  <2>2. front[x] = front[p] /\ ~Comments!Escaped(front, p, x)
    BY <1>2, <1>3, <2>1
  <2> QED BY <2>2 DEF LiteralOpen
<1>6. Comments!LiteralEnd(text, p) = Comments!Min(S)
  BY DEF Comments!LiteralEnd
<1> HIDE DEF S
<1>7. Comments!LiteralEnd(text, p) = n
  BY <1>4, <1>5, <1>6, MinIs
<1>8. SubSeq(text, p, n) = SubSeq(front, p, n)
  BY SamePart
<1>9. text[p] \in Quotes
  BY <1>1, <1>2
<1>10. Comments!PieceAt(text, p) = Comments!Piece(SubSeq(text, p, Comments!LiteralEnd(text, p)), Comments!LiteralEnd(text, p) + 1)
  BY <1>9, PieceAtIs
<1> QED BY <1>7, <1>8, <1>10

LEMMA TakesLine ==
  ASSUME NEW front \in Text, NEW p \in 1..Len(front), p + 1 < Len(front),
         front[p] = Comments!Slash, front[p + 1] = Comments!Slash,
         front[Len(front)] = "\n", LineOpen(front, p, Len(front) - 1)
  PROVE  Takes(front, p, <<>>, Len(front))
<1> DEFINE n == Len(front)
<1> SUFFICES ASSUME NEW text, Extends(text, front) PROVE Comments!PieceAt(text, p) = Comments!Piece(<<>>, n)
  BY DEF Takes
<1>1. text \in Text /\ Len(text) \in Nat /\ n \in Nat /\ n <= Len(text)
  BY TextIs DEF Extends
<1>2. \A i \in 1..n : text[i] = front[i]
  BY DEF Extends
<1> DEFINE S == {j \in p + 2..Len(text) : text[j] = "\n"} \cup {Len(text) + 1}
<1>4. n \in S /\ S \subseteq Int
  BY <1>1, <1>2
<1>5. \A x \in S : n <= x
  BY <1>1, <1>2 DEF LineOpen
<1>6. Comments!LineEnd(text, p) = Comments!Min(S)
  BY DEF Comments!LineEnd
<1> HIDE DEF S
<1>7. Comments!LineEnd(text, p) = n
  BY <1>4, <1>5, <1>6, MinIs
<1>8. text[p] = Comments!Slash /\ text[p + 1] = Comments!Slash /\ p < Len(text)
  <2>1. p \in 1..n /\ p + 1 \in 1..n
    BY <1>1
  <2> QED BY <1>1, <1>2, <2>1
<1>9. text[p] \notin Quotes /\ Comments!Opens(text, p, Comments!Slash)
  BY <1>8 DEF Comments!Opens, Quotes, Comments!Slash
<1>10. Comments!PieceAt(text, p) = Comments!Piece(<<>>, Comments!LineEnd(text, p))
  BY <1>9, PieceAtIs
<1> QED BY <1>7, <1>10

LEMMA TakesBlock ==
  ASSUME NEW front \in Text, NEW p \in 1..Len(front), p + 2 < Len(front),
         front[p] = Comments!Slash, front[p + 1] = Comments!Star,
         front[Len(front) - 1] = Comments!Star, front[Len(front)] = Comments!Slash, BlockOpen(front, p, Len(front) - 1)
  PROVE  Takes(front, p, <<>>, Len(front) + 1)
<1> DEFINE n == Len(front)
<1> SUFFICES ASSUME NEW text, Extends(text, front) PROVE Comments!PieceAt(text, p) = Comments!Piece(<<>>, n + 1)
  BY DEF Takes
<1>1. text \in Text /\ Len(text) \in Nat /\ n \in Nat /\ n <= Len(text)
  BY TextIs DEF Extends
<1>2. \A i \in 1..n : text[i] = front[i]
  BY DEF Extends
<1> DEFINE S == {j \in p + 3..Len(text) : text[j - 1] = Comments!Star /\ text[j] = Comments!Slash} \cup {Len(text)}
<1>4. n \in S /\ S \subseteq Int
  BY <1>1, <1>2
<1>5. \A x \in S : n <= x
  BY <1>1, <1>2 DEF BlockOpen
<1>6. Comments!BlockEnd(text, p) = Comments!Min(S)
  BY DEF Comments!BlockEnd
<1> HIDE DEF S
<1>7. Comments!BlockEnd(text, p) = n
  BY <1>4, <1>5, <1>6, MinIs
<1>8. text[p] = Comments!Slash /\ text[p + 1] = Comments!Star /\ p < Len(text)
  <2>1. p \in 1..n /\ p + 1 \in 1..n
    BY <1>1
  <2> QED BY <1>1, <1>2, <2>1
<1>9. text[p] \notin Quotes /\ ~Comments!Opens(text, p, Comments!Slash) /\ Comments!Opens(text, p, Comments!Star)
  BY <1>8 DEF Comments!Opens, Quotes, Comments!Slash, Comments!Star
<1>10. Comments!PieceAt(text, p) = Comments!Piece(<<>>, Comments!BlockEnd(text, p) + 1)
  BY <1>9, PieceAtIs
<1> QED BY <1>7, <1>10

(* The first row that has the character, in the tables there are.          *)
LEMMA FirstIs ==
  ASSUME NEW rows, NEW ch, NEW i \in DOMAIN rows, DOMAIN rows \subseteq Int,
         rows[i].ch \in {ch, "any"}, \A j \in DOMAIN rows : j < i => rows[j].ch \notin {ch, "any"}
  PROVE  Comments!First(rows, ch) = rows[i]
<1> DEFINE S == {j \in DOMAIN rows : rows[j].ch \in {ch, "any"}}
<1>1. i \in S /\ S \subseteq Int
  OBVIOUS
<1>2. \A j \in S : i <= j
  OBVIOUS
<1> HIDE DEF S
<1>3. Comments!Min(S) = i
  BY <1>1, <1>2, MinIs
<1> QED BY <1>3 DEF Comments!First, S

LEMMA FirstOfFour ==
  ASSUME NEW a, NEW b, NEW c, NEW d, NEW ch, d.ch = "any"
  PROVE  Comments!First(<<a, b, c, d>>, ch) =
           IF a.ch \in {ch, "any"} THEN a
           ELSE IF b.ch \in {ch, "any"} THEN b
           ELSE IF c.ch \in {ch, "any"} THEN c ELSE d
<1> DEFINE rows == <<a, b, c, d>>
<1>1. DOMAIN rows = 1..4 /\ rows[1] = a /\ rows[2] = b /\ rows[3] = c /\ rows[4] = d
  OBVIOUS
<1> HIDE DEF rows
<1>2. CASE a.ch \in {ch, "any"}
  <2>1. Comments!First(rows, ch) = rows[1]
    BY <1>1, <1>2, FirstIs
  <2> QED BY <1>1, <1>2, <2>1 DEF rows
<1>3. CASE a.ch \notin {ch, "any"} /\ b.ch \in {ch, "any"}
  <2>1. 2 \in DOMAIN rows /\ \A j \in DOMAIN rows : j < 2 => rows[j].ch \notin {ch, "any"}
    BY <1>1, <1>3
  <2>2. Comments!First(rows, ch) = rows[2]
    BY <1>1, <1>3, <2>1, FirstIs
  <2> QED BY <1>1, <1>3, <2>2 DEF rows
<1>4. CASE a.ch \notin {ch, "any"} /\ b.ch \notin {ch, "any"} /\ c.ch \in {ch, "any"}
  <2>1. 3 \in DOMAIN rows /\ \A j \in DOMAIN rows : j < 3 => rows[j].ch \notin {ch, "any"}
    BY <1>1, <1>4
  <2>2. Comments!First(rows, ch) = rows[3]
    BY <1>1, <1>4, <2>1, FirstIs
  <2> QED BY <1>1, <1>4, <2>2 DEF rows
<1>5. CASE a.ch \notin {ch, "any"} /\ b.ch \notin {ch, "any"} /\ c.ch \notin {ch, "any"}
  <2>1. 4 \in DOMAIN rows /\ \A j \in DOMAIN rows : j < 4 => rows[j].ch \notin {ch, "any"}
    BY <1>1, <1>5
  <2>2. Comments!First(rows, ch) = rows[4]
    BY <1>1, <2>1, FirstIs
  <2> QED BY <1>1, <1>5, <2>2 DEF rows
<1> QED BY <1>2, <1>3, <1>4, <1>5

LEMMA FirstOfThree ==
  ASSUME NEW a, NEW b, NEW c, NEW ch, c.ch = "any"
  PROVE  Comments!First(<<a, b, c>>, ch) = IF a.ch \in {ch, "any"} THEN a ELSE IF b.ch \in {ch, "any"} THEN b ELSE c
<1> DEFINE rows == <<a, b, c>>
<1>1. DOMAIN rows = 1..3 /\ rows[1] = a /\ rows[2] = b /\ rows[3] = c
  OBVIOUS
<1> HIDE DEF rows
<1>2. CASE a.ch \in {ch, "any"}
  <2>1. Comments!First(rows, ch) = rows[1]
    BY <1>1, <1>2, FirstIs
  <2> QED BY <1>1, <1>2, <2>1 DEF rows
<1>3. CASE a.ch \notin {ch, "any"} /\ b.ch \in {ch, "any"}
  <2>1. 2 \in DOMAIN rows /\ \A j \in DOMAIN rows : j < 2 => rows[j].ch \notin {ch, "any"}
    BY <1>1, <1>3
  <2>2. Comments!First(rows, ch) = rows[2]
    BY <1>1, <1>3, <2>1, FirstIs
  <2> QED BY <1>1, <1>3, <2>2 DEF rows
<1>4. CASE a.ch \notin {ch, "any"} /\ b.ch \notin {ch, "any"}
  <2>1. 3 \in DOMAIN rows /\ \A j \in DOMAIN rows : j < 3 => rows[j].ch \notin {ch, "any"}
    BY <1>1, <1>4
  <2>2. Comments!First(rows, ch) = rows[3]
    BY <1>1, <2>1, FirstIs
  <2> QED BY <1>1, <1>4, <2>2 DEF rows
<1> QED BY <1>2, <1>3, <1>4

LEMMA FirstOfTwo ==
  ASSUME NEW a, NEW b, NEW ch, b.ch = "any"
  PROVE  Comments!First(<<a, b>>, ch) = IF a.ch \in {ch, "any"} THEN a ELSE b
<1> DEFINE rows == <<a, b>>
<1>1. DOMAIN rows = 1..2 /\ rows[1] = a /\ rows[2] = b
  OBVIOUS
<1> HIDE DEF rows
<1>2. CASE a.ch \in {ch, "any"}
  <2>1. Comments!First(rows, ch) = rows[1]
    BY <1>1, <1>2, FirstIs
  <2> QED BY <1>1, <1>2, <2>1 DEF rows
<1>3. CASE a.ch \notin {ch, "any"}
  <2>1. 2 \in DOMAIN rows /\ \A j \in DOMAIN rows : j < 2 => rows[j].ch \notin {ch, "any"}
    BY <1>1, <1>3
  <2>2. Comments!First(rows, ch) = rows[2]
    BY <1>1, <2>1, FirstIs
  <2> QED BY <1>1, <1>3, <2>2 DEF rows
<1> QED BY <1>2, <1>3

LEMMA FirstOfOne ==
  ASSUME NEW a, NEW ch, a.ch = "any"
  PROVE  Comments!First(<<a>>, ch) = a
<1> DEFINE rows == <<a>>
<1>1. DOMAIN rows = 1..1 /\ rows[1] = a
  OBVIOUS
<1> HIDE DEF rows
<1>2. Comments!First(rows, ch) = rows[1]
  BY <1>1, FirstIs
<1> QED BY <1>1, <1>2 DEF rows

LEMMA RowIs ==
  ASSUME NEW ch, NEW print, NEW pre, NEW new
  PROVE  LET row == Comments!Row(ch, print, pre, new)
         IN row.ch = ch /\ row.print = print /\ row.pre = pre /\ row.new = new
BY DEF Comments!Row

(* The table, read row by row.                                             *)
LEMMA FuncText ==
  ASSUME NEW ch \in Comments!Char
  PROVE  /\ ch = Comments!Slash => Comments!Func("text", ch) = Comments!Row(Comments!Slash, FALSE, <<>>, "slash")
         /\ ch = "\"" => Comments!Func("text", ch) = Comments!Row("\"", TRUE, <<>>, "string")
         /\ ch = "'" => Comments!Func("text", ch) = Comments!Row("'", TRUE, <<>>, "char")
         /\ ch # Comments!Slash /\ ch # "\"" /\ ch # "'" => Comments!Func("text", ch) = Comments!Row("any", TRUE, <<>>, "text")
<1> DEFINE a == Comments!Row(Comments!Slash, FALSE, <<>>, "slash")
           b == Comments!Row("\"", TRUE, <<>>, "string")
           c == Comments!Row("'", TRUE, <<>>, "char")
           d == Comments!Row("any", TRUE, <<>>, "text")
<1>1. Comments!Func("text", ch) = Comments!First(<<a, b, c, d>>, ch)
  BY DEF Comments!Func, Comments!Rows
<1>2. a.ch = Comments!Slash /\ b.ch = "\"" /\ c.ch = "'" /\ d.ch = "any"
  BY DEF Comments!Row
<1>3. ch # "any"
  BY DEF Comments!Char, Comments!Slash, Comments!Star
<1> HIDE DEF a, b, c, d
<1>4. d.ch = "any"
  BY <1>2
<1>5. Comments!First(<<a, b, c, d>>, ch) =
        IF a.ch \in {ch, "any"} THEN a
        ELSE IF b.ch \in {ch, "any"} THEN b
        ELSE IF c.ch \in {ch, "any"} THEN c ELSE d
  BY <1>4, FirstOfFour
<1>6. /\ (ch = Comments!Slash => Comments!Func("text", ch) = a)
      /\ (ch = "\"" => Comments!Func("text", ch) = b)
      /\ (ch = "'" => Comments!Func("text", ch) = c)
      /\ (ch # Comments!Slash /\ ch # "\"" /\ ch # "'" => Comments!Func("text", ch) = d)
  BY <1>1, <1>2, <1>3, <1>5 DEF Comments!Slash, Comments!Star
<1> QED BY <1>6 DEF a, b, c, d

LEMMA FuncString ==
  ASSUME NEW ch \in Comments!Char
  PROVE  /\ ch = "\"" => Comments!Func("string", ch) = Comments!Row("\"", TRUE, <<>>, "text")
         /\ ch = "\\" => Comments!Func("string", ch) = Comments!Row("\\", TRUE, <<>>, "string_bs")
         /\ ch # "\"" /\ ch # "\\" => Comments!Func("string", ch) = Comments!Row("any", TRUE, <<>>, "string")
<1> DEFINE a == Comments!Row("\"", TRUE, <<>>, "text")
           b == Comments!Row("\\", TRUE, <<>>, "string_bs")
           c == Comments!Row("any", TRUE, <<>>, "string")
<1>1. Comments!Func("string", ch) = Comments!First(<<a, b, c>>, ch)
  BY DEF Comments!Func, Comments!Rows
<1>2. a.ch = "\"" /\ b.ch = "\\" /\ c.ch = "any"
  BY DEF Comments!Row
<1>3. ch # "any"
  BY DEF Comments!Char, Comments!Slash, Comments!Star
<1> HIDE DEF a, b, c
<1>4. c.ch = "any"
  BY <1>2
<1>5. Comments!First(<<a, b, c>>, ch) =
        IF a.ch \in {ch, "any"} THEN a ELSE IF b.ch \in {ch, "any"} THEN b ELSE c
  BY <1>4, FirstOfThree
<1>6. /\ (ch = "\"" => Comments!Func("string", ch) = a)
      /\ (ch = "\\" => Comments!Func("string", ch) = b)
      /\ (ch # "\"" /\ ch # "\\" => Comments!Func("string", ch) = c)
  BY <1>1, <1>2, <1>3, <1>5 DEF Comments!Slash, Comments!Star
<1> QED BY <1>6 DEF a, b, c

LEMMA FuncStringBs ==
  ASSUME NEW ch \in Comments!Char
  PROVE  Comments!Func("string_bs", ch) = Comments!Row("any", TRUE, <<>>, "string")
<1> DEFINE a == Comments!Row("any", TRUE, <<>>, "string")
<1>1. Comments!Func("string_bs", ch) = Comments!First(<<a>>, ch)
  BY DEF Comments!Func, Comments!Rows
<1>2. a.ch = "any"
  BY DEF Comments!Row
<1>3. ch # "any"
  BY DEF Comments!Char, Comments!Slash, Comments!Star
<1> HIDE DEF a
<1> QED BY <1>1, <1>2, FirstOfOne DEF a

LEMMA FuncChar ==
  ASSUME NEW ch \in Comments!Char
  PROVE  /\ ch = "'" => Comments!Func("char", ch) = Comments!Row("'", TRUE, <<>>, "text")
         /\ ch = "\\" => Comments!Func("char", ch) = Comments!Row("\\", TRUE, <<>>, "char_bs")
         /\ ch # "'" /\ ch # "\\" => Comments!Func("char", ch) = Comments!Row("any", TRUE, <<>>, "char")
<1> DEFINE a == Comments!Row("'", TRUE, <<>>, "text")
           b == Comments!Row("\\", TRUE, <<>>, "char_bs")
           c == Comments!Row("any", TRUE, <<>>, "char")
<1>1. Comments!Func("char", ch) = Comments!First(<<a, b, c>>, ch)
  BY DEF Comments!Func, Comments!Rows
<1>2. a.ch = "'" /\ b.ch = "\\" /\ c.ch = "any"
  BY DEF Comments!Row
<1>3. ch # "any"
  BY DEF Comments!Char, Comments!Slash, Comments!Star
<1> HIDE DEF a, b, c
<1>4. c.ch = "any"
  BY <1>2
<1>5. Comments!First(<<a, b, c>>, ch) =
        IF a.ch \in {ch, "any"} THEN a ELSE IF b.ch \in {ch, "any"} THEN b ELSE c
  BY <1>4, FirstOfThree
<1>6. /\ (ch = "'" => Comments!Func("char", ch) = a)
      /\ (ch = "\\" => Comments!Func("char", ch) = b)
      /\ (ch # "'" /\ ch # "\\" => Comments!Func("char", ch) = c)
  BY <1>1, <1>2, <1>3, <1>5 DEF Comments!Slash, Comments!Star
<1> QED BY <1>6 DEF a, b, c

LEMMA FuncCharBs ==
  ASSUME NEW ch \in Comments!Char
  PROVE  Comments!Func("char_bs", ch) = Comments!Row("any", TRUE, <<>>, "char")
<1> DEFINE a == Comments!Row("any", TRUE, <<>>, "char")
<1>1. Comments!Func("char_bs", ch) = Comments!First(<<a>>, ch)
  BY DEF Comments!Func, Comments!Rows
<1>2. a.ch = "any"
  BY DEF Comments!Row
<1>3. ch # "any"
  BY DEF Comments!Char, Comments!Slash, Comments!Star
<1> HIDE DEF a
<1> QED BY <1>1, <1>2, FirstOfOne DEF a

LEMMA FuncSlash ==
  ASSUME NEW ch \in Comments!Char
  PROVE  /\ ch = Comments!Slash => Comments!Func("slash", ch) = Comments!Row(Comments!Slash, FALSE, <<>>, "line_comm")
         /\ ch = Comments!Star => Comments!Func("slash", ch) = Comments!Row(Comments!Star, FALSE, <<>>, "block_comm")
         /\ ch # Comments!Slash /\ ch # Comments!Star => Comments!Func("slash", ch) = Comments!Row("any", TRUE, <<Comments!Slash>>, "text")
<1> DEFINE a == Comments!Row(Comments!Slash, FALSE, <<>>, "line_comm")
           b == Comments!Row(Comments!Star, FALSE, <<>>, "block_comm")
           c == Comments!Row("any", TRUE, <<Comments!Slash>>, "text")
<1>1. Comments!Func("slash", ch) = Comments!First(<<a, b, c>>, ch)
  BY DEF Comments!Func, Comments!Rows
<1>2. a.ch = Comments!Slash /\ b.ch = Comments!Star /\ c.ch = "any"
  BY DEF Comments!Row
<1>3. ch # "any"
  BY DEF Comments!Char, Comments!Slash, Comments!Star
<1> HIDE DEF a, b, c
<1>4. c.ch = "any"
  BY <1>2
<1>5. Comments!First(<<a, b, c>>, ch) =
        IF a.ch \in {ch, "any"} THEN a ELSE IF b.ch \in {ch, "any"} THEN b ELSE c
  BY <1>4, FirstOfThree
<1>6. /\ (ch = Comments!Slash => Comments!Func("slash", ch) = a)
      /\ (ch = Comments!Star => Comments!Func("slash", ch) = b)
      /\ (ch # Comments!Slash /\ ch # Comments!Star => Comments!Func("slash", ch) = c)
  BY <1>1, <1>2, <1>3, <1>5 DEF Comments!Slash, Comments!Star
<1> QED BY <1>6 DEF a, b, c

LEMMA FuncLineComm ==
  ASSUME NEW ch \in Comments!Char
  PROVE  /\ ch = "\n" => Comments!Func("line_comm", ch) = Comments!Row("\n", TRUE, <<>>, "text")
         /\ ch # "\n" => Comments!Func("line_comm", ch) = Comments!Row("any", FALSE, <<>>, "line_comm")
<1> DEFINE a == Comments!Row("\n", TRUE, <<>>, "text")
           b == Comments!Row("any", FALSE, <<>>, "line_comm")
<1>1. Comments!Func("line_comm", ch) = Comments!First(<<a, b>>, ch)
  BY DEF Comments!Func, Comments!Rows
<1>2. a.ch = "\n" /\ b.ch = "any"
  BY DEF Comments!Row
<1>3. ch # "any"
  BY DEF Comments!Char, Comments!Slash, Comments!Star
<1> HIDE DEF a, b
<1>4. b.ch = "any"
  BY <1>2
<1>5. Comments!First(<<a, b>>, ch) =
        IF a.ch \in {ch, "any"} THEN a ELSE b
  BY <1>4, FirstOfTwo
<1>6. /\ (ch = "\n" => Comments!Func("line_comm", ch) = a)
      /\ (ch # "\n" => Comments!Func("line_comm", ch) = b)
  BY <1>1, <1>2, <1>3, <1>5 DEF Comments!Slash, Comments!Star
<1> QED BY <1>6 DEF a, b

LEMMA FuncBlockComm ==
  ASSUME NEW ch \in Comments!Char
  PROVE  /\ ch = Comments!Star => Comments!Func("block_comm", ch) = Comments!Row(Comments!Star, FALSE, <<>>, "star")
         /\ ch # Comments!Star => Comments!Func("block_comm", ch) = Comments!Row("any", FALSE, <<>>, "block_comm")
<1> DEFINE a == Comments!Row(Comments!Star, FALSE, <<>>, "star")
           b == Comments!Row("any", FALSE, <<>>, "block_comm")
<1>1. Comments!Func("block_comm", ch) = Comments!First(<<a, b>>, ch)
  BY DEF Comments!Func, Comments!Rows
<1>2. a.ch = Comments!Star /\ b.ch = "any"
  BY DEF Comments!Row
<1>3. ch # "any"
  BY DEF Comments!Char, Comments!Slash, Comments!Star
<1> HIDE DEF a, b
<1>4. b.ch = "any"
  BY <1>2
<1>5. Comments!First(<<a, b>>, ch) =
        IF a.ch \in {ch, "any"} THEN a ELSE b
  BY <1>4, FirstOfTwo
<1>6. /\ (ch = Comments!Star => Comments!Func("block_comm", ch) = a)
      /\ (ch # Comments!Star => Comments!Func("block_comm", ch) = b)
  BY <1>1, <1>2, <1>3, <1>5 DEF Comments!Slash, Comments!Star
<1> QED BY <1>6 DEF a, b

LEMMA FuncStar ==
  ASSUME NEW ch \in Comments!Char
  PROVE  /\ ch = Comments!Slash => Comments!Func("star", ch) = Comments!Row(Comments!Slash, FALSE, <<>>, "text")
         /\ ch # Comments!Slash => Comments!Func("star", ch) = Comments!Row("any", FALSE, <<>>, "block_comm")
<1> DEFINE a == Comments!Row(Comments!Slash, FALSE, <<>>, "text")
           b == Comments!Row("any", FALSE, <<>>, "block_comm")
<1>1. Comments!Func("star", ch) = Comments!First(<<a, b>>, ch)
  BY DEF Comments!Func, Comments!Rows
<1>2. a.ch = Comments!Slash /\ b.ch = "any"
  BY DEF Comments!Row
<1>3. ch # "any"
  BY DEF Comments!Char, Comments!Slash, Comments!Star
<1> HIDE DEF a, b
<1>4. b.ch = "any"
  BY <1>2
<1>5. Comments!First(<<a, b>>, ch) =
        IF a.ch \in {ch, "any"} THEN a ELSE b
  BY <1>4, FirstOfTwo
<1>6. /\ (ch = Comments!Slash => Comments!Func("star", ch) = a)
      /\ (ch # Comments!Slash => Comments!Func("star", ch) = b)
  BY <1>1, <1>2, <1>3, <1>5 DEF Comments!Slash, Comments!Star
<1> QED BY <1>6 DEF a, b

(* What a character does, by what its row says.                            *)
LEMMA Effect ==
  ASSUME NEW ch \in Comments!Char, Comments!Getc(ch), output \in Text,
         NEW any, NEW print \in BOOLEAN, NEW pre \in Text, NEW next, Comments!Func(state, ch) = Comments!Row(any, print, pre, next)
  PROVE  /\ state' = next
         /\ output' = (output \o pre) \o IF print THEN <<ch>> ELSE <<>>
<1>1. Comments!Func(state, ch).print = print /\ Comments!Func(state, ch).pre = pre /\ Comments!Func(state, ch).new = next
  BY RowIs
<1> QED BY <1>1 DEF Comments!Getc

LEMMA Copied ==
  ASSUME NEW ch \in Comments!Char, Comments!Getc(ch), output \in Text,
         NEW any, NEW next, Comments!Func(state, ch) = Comments!Row(any, TRUE, <<>>, next)
  PROVE  state' = next /\ output' = output \o <<ch>>
<1>1. <<>> \in Text /\ output \o <<>> = output
  BY DEF Text
<1>2. state' = next /\ output' = (output \o <<>>) \o <<ch>>
  BY <1>1, Effect
<1> QED BY <1>1, <1>2

LEMMA Dropped ==
  ASSUME NEW ch \in Comments!Char, Comments!Getc(ch), output \in Text,
         NEW any, NEW next, Comments!Func(state, ch) = Comments!Row(any, FALSE, <<>>, next)
  PROVE  state' = next /\ output' = output
<1>1. <<>> \in Text /\ output \o <<>> = output
  BY DEF Text
<1>2. state' = next /\ output' = (output \o <<>>) \o <<>>
  BY <1>1, Effect
<1> QED BY <1>1, <1>2

LEMMA InputGrows ==
  ASSUME NEW ch \in Comments!Char, Comments!Getc(ch), input \in Text
  PROVE  /\ input' = Append(input, ch) /\ input' \in Text
         /\ Len(input) \in Nat /\ Len(input') = Len(input) + 1 /\ input'[Len(input) + 1] = ch
         /\ \A i \in 1..Len(input) : input'[i] = input[i]
<1>1. input' = Append(input, ch)
  BY DEF Comments!Getc
<1> QED BY <1>1, AppendProperties, TextIs DEF Text

(* The inductive invariant: up to some character the text has been dealt   *)
(* with, whatever comes; there begins what state says.                     *)
Excluded == Comments!Has(Comments!Star, Comments!Star) \/ Comments!Has(Comments!Slash, "\"") \/ Comments!Has(Comments!Slash, "'")

InText(kept, p)  == state = "text" /\ p = Len(input) + 1 /\ output = kept
InSlash(kept, p) == state = "slash" /\ p = Len(input) /\ input[p] = Comments!Slash /\ output = kept
InLiteral(kept, p) ==
  /\ p <= Len(input)
  /\ \/ state \in {"string", "string_bs"} /\ input[p] = "\""
     \/ state \in {"char", "char_bs"} /\ input[p] = "'"
  /\ output = kept \o SubSeq(input, p, Len(input))
  /\ LiteralOpen(input, p, Len(input))
  /\ Comments!Escaped(input, p, Len(input) + 1) <=> state \in {"string_bs", "char_bs"}
InLine(kept, p) ==
  /\ state = "line_comm" /\ p < Len(input) /\ input[p] = Comments!Slash /\ input[p + 1] = Comments!Slash
  /\ LineOpen(input, p, Len(input)) /\ output = kept
InBlock(kept, p) ==
  /\ state \in {"block_comm", "star"} /\ p < Len(input) /\ input[p] = Comments!Slash /\ input[p + 1] = Comments!Star
  /\ BlockOpen(input, p, Len(input)) /\ output = kept
  /\ state = "star" <=> p + 1 < Len(input) /\ input[Len(input)] = Comments!Star

Begun(kept, p) ==
  /\ kept \in Text /\ p \in 1..Len(input) + 1 /\ Leads(input, kept, p)
  /\ InText(kept, p) \/ InSlash(kept, p) \/ InLiteral(kept, p) \/ InLine(kept, p) \/ InBlock(kept, p)

Cutting ==
  /\ input \in Text
  /\ \/ Excluded
     \/ output \in Text /\ \E kept, p : Begun(kept, p)

LEMMA StaysExcluded ==
  ASSUME NEW ch \in Comments!Char, Comments!Getc(ch), input \in Text
  PROVE  /\ Excluded => Excluded'
         /\ ~Excluded' /\ Len(input) > 0 =>
              /\ input[Len(input)] = Comments!Star => ch # Comments!Star
              /\ input[Len(input)] = Comments!Slash => ch \notin Quotes
<1>1. /\ Len(input) \in Nat /\ Len(input') = Len(input) + 1 /\ input'[Len(input) + 1] = ch
      /\ \A i \in 1..Len(input) : input'[i] = input[i]
  BY InputGrows
<1>2. ASSUME NEW a, NEW b, Comments!Has(a, b) PROVE Comments!Has(a, b)'
  <2>1. PICK i \in 1..Len(input) - 1 : input[i] = a /\ input[i + 1] = b
    BY <1>2 DEF Comments!Has
  <2>2. i \in 1..Len(input') - 1 /\ i \in 1..Len(input) /\ i + 1 \in 1..Len(input)
    BY <1>1
  <2> QED BY <1>1, <2>1, <2>2 DEF Comments!Has
<1>3. ASSUME NEW a, NEW b, Len(input) > 0, input[Len(input)] = a, ch = b PROVE Comments!Has(a, b)'
  <2>1. Len(input) \in 1..Len(input') - 1 /\ Len(input) \in 1..Len(input)
    BY <1>1, <1>3
  <2> QED BY <1>1, <1>3, <2>1 DEF Comments!Has
<1>4. Excluded => Excluded'
  BY <1>2 DEF Excluded
<1> QED BY <1>3, <1>4 DEF Excluded, Quotes

(* One step, by the state it is taken in.                                  *)
LEMMA LastAlone ==
  ASSUME NEW text \in Text, Len(text) > 0
  PROVE  SubSeq(text, Len(text), Len(text)) = <<text[Len(text)]>>
<1> DEFINE n == Len(text)
           a == SubSeq(text, n, n)
           b == <<text[n]>>
<1>1. n \in Nat /\ n \in 1..n /\ text[n] \in Comments!Char
  BY TextIs
<1>2. a \in Seq(Comments!Char) /\ Len(a) = n - n + 1 /\ \A i \in 1..n - n + 1 : a[i] = text[n + i - 1]
  BY <1>1, SubSeqProperties DEF Text
<1>3. b \in Seq(Comments!Char) /\ Len(b) = 1 /\ b[1] = text[n]
  BY <1>1
<1>4. Len(a) = 1 /\ a[1] = text[n]
  BY <1>1, <1>2
<1> HIDE DEF a, b, n
<1>5. \A i \in 1..Len(a) : a[i] = b[i]
  BY <1>3, <1>4
<1>6. a = b
  BY <1>2, <1>3, <1>4, <1>5, SeqEqual
<1> QED BY <1>6 DEF a, b, n

LEMMA PartGrows ==
  ASSUME NEW text \in Text, NEW ch \in Comments!Char, NEW p \in 1..Len(text)
  PROVE  SubSeq(Append(text, ch), p, Len(text) + 1) = SubSeq(text, p, Len(text)) \o <<ch>>
<1> DEFINE n == Len(text)
           new == Append(text, ch)
           a == SubSeq(new, p, n + 1)
           b == SubSeq(text, p, n)
<1>1. n \in Nat /\ new \in Seq(Comments!Char) /\ Len(new) = n + 1 /\ new[n + 1] = ch
      /\ \A i \in 1..n : new[i] = text[i]
  BY TextIs, AppendProperties DEF Text
<1>2. text \in Seq(Comments!Char) /\ <<ch>> \in Seq(Comments!Char) /\ Len(<<ch>>) = 1 /\ <<ch>>[1] = ch
  BY DEF Text
<1> HIDE DEF new
<1>3. a \in Seq(Comments!Char) /\ Len(a) = n + 1 - p + 1 /\ \A i \in 1..n + 1 - p + 1 : a[i] = new[p + i - 1]
  BY <1>1, SubSeqProperties
<1>4. b \in Seq(Comments!Char) /\ Len(b) = n - p + 1 /\ \A i \in 1..n - p + 1 : b[i] = text[p + i - 1]
  BY <1>1, <1>2, SubSeqProperties
<1> DEFINE one == <<ch>>
<1>o. one \in Seq(Comments!Char) /\ Len(one) = 1 /\ one[1] = ch
  BY <1>2
<1> HIDE DEF a, b, one
<1>5. b \o one \in Seq(Comments!Char) /\ Len(b \o one) = Len(b) + 1
      /\ \A i \in 1..Len(b) + 1 : (b \o one)[i] = IF i <= Len(b) THEN b[i] ELSE one[i - Len(b)]
  <2>1. b \in Seq(Comments!Char) /\ one \in Seq(Comments!Char)
    BY <1>o, <1>4
  <2>2. b \o one \in Seq(Comments!Char) /\ Len(b \o one) = Len(b) + Len(one)
        /\ \A i \in 1..Len(b) + Len(one) : (b \o one)[i] = IF i <= Len(b) THEN b[i] ELSE one[i - Len(b)]
    BY <2>1, ConcatProperties
  <2> QED BY <1>o, <2>2
<1>6. Len(a) = Len(b \o one)
  BY <1>1, <1>3, <1>4, <1>5
<1>7. \A i \in 1..Len(a) : a[i] = (b \o one)[i]
  <2> SUFFICES ASSUME NEW i \in 1..Len(a) PROVE a[i] = (b \o one)[i]
    OBVIOUS
  <2>0. i \in 1..n + 1 - p + 1 /\ i \in 1..Len(b) + 1 /\ Len(b) = n - p + 1 /\ p + i - 1 \in 1..n + 1
    BY <1>1, <1>3, <1>4
  <2>1. a[i] = new[p + i - 1]
    BY <1>3, <2>0
  <2>2. CASE i <= Len(b)
    <3>1. i \in 1..n - p + 1 /\ p + i - 1 \in 1..n
      BY <1>1, <2>0, <2>2
    <3>2. b[i] = text[p + i - 1] /\ new[p + i - 1] = text[p + i - 1]
      BY <1>1, <1>4, <3>1
    <3> QED BY <1>5, <2>0, <2>1, <2>2, <3>2
  <2>3. CASE ~(i <= Len(b))
    <3>1. i - Len(b) = 1 /\ p + i - 1 = n + 1
      BY <1>1, <2>0, <2>3
    <3> QED BY <1>o, <1>1, <1>5, <2>0, <2>1, <2>3, <3>1
  <2> QED BY <2>2, <2>3
<1>8. a = b \o one
  BY <1>3, <1>5, <1>6, <1>7, SeqEqual
<1> QED BY <1>8 DEF a, b, one, new, n

LEMMA FromText ==
  ASSUME NEW ch \in Comments!Char, Comments!Getc(ch), input \in Text, output \in Text,
         NEW kept, NEW p, Begun(kept, p), InText(kept, p)
  PROVE  \E k, q : Begun(k, q)'
<1> DEFINE n == Len(input)
           new == input'
<1>0. PICK q : q = n + 1
  OBVIOUS
<1>1. /\ new = Append(input, ch) /\ new \in Text /\ n \in Nat /\ Len(new) = n + 1 /\ new[n + 1] = ch
      /\ \A i \in 1..n : new[i] = input[i]
  BY InputGrows
<1>2. kept \in Text /\ state = "text" /\ p = n + 1 /\ output = kept /\ Leads(input, kept, p)
  BY DEF Begun, InText
<1>3. Leads(new, kept, q)
  BY <1>0, <1>1, <1>2, LeadsMore
<1>4. /\ q \in 1..Len(new) + 1 /\ q \in 1..Len(new) /\ q + 1 \in 1..Len(new) + 1 /\ q = Len(new)
      /\ new[q] = ch /\ Len(new) > 0 /\ q \in Nat
  BY <1>0, <1>1
<1> HIDE DEF n, new
<1>5. CASE ch = Comments!Slash
  <2>1. state' = "slash" /\ output' = kept
    <3>1. Comments!Func(state, ch) = Comments!Row(Comments!Slash, FALSE, <<>>, "slash")
      BY <1>2, <1>5, FuncText
    <3> QED BY <1>2, <3>1, Dropped
  <2>2. InSlash(kept, q)'
    BY <1>4, <1>5, <2>1 DEF InSlash, new
  <2>3. Begun(kept, q)'
    BY <1>2, <1>3, <1>4, <2>2 DEF Begun, new
  <2> QED BY <2>3
<1>6. CASE ch \in Quotes
  <2>1. /\ output' = kept \o <<ch>>
        /\ \/ state' = "string" /\ ch = "\""
           \/ state' = "char" /\ ch = "'"
    <3>1. CASE ch = "\""
      <4>1. Comments!Func(state, ch) = Comments!Row("\"", TRUE, <<>>, "string")
        BY <1>2, <3>1, FuncText
      <4> QED BY <1>2, <3>1, <4>1, Copied
    <3>2. CASE ch = "'"
      <4>1. Comments!Func(state, ch) = Comments!Row("'", TRUE, <<>>, "char")
        BY <1>2, <3>2, FuncText
      <4> QED BY <1>2, <3>2, <4>1, Copied
    <3> QED BY <1>6, <3>1, <3>2 DEF Quotes
  <2>2. SubSeq(new, q, q) = <<ch>>
    BY <1>1, <1>4, LastAlone
  <2>3. LiteralOpen(new, q, q) /\ ~Comments!Escaped(new, q, q + 1)
    BY <1>4, EscapedFirst DEF LiteralOpen
  <2>4. InLiteral(kept, q)'
    <3>0. q = Len(new)
      BY <1>4
    <3>1. q <= Len(new) /\ new[q] = ch
      BY <1>4
    <3>2. output' = kept \o SubSeq(new, q, Len(new))
      BY <2>1, <2>2, <3>0
    <3>3. LiteralOpen(new, q, Len(new)) /\ ~Comments!Escaped(new, q, Len(new) + 1)
      BY <2>3, <3>0
    <3>4. state' \notin {"string_bs", "char_bs"}
      BY <2>1
    <3> QED BY <2>1, <3>1, <3>2, <3>3, <3>4 DEF InLiteral, new
  <2>5. Begun(kept, q)'
    BY <1>2, <1>3, <1>4, <2>4 DEF Begun, new
  <2> QED BY <2>5
<1>7. CASE ch # Comments!Slash /\ ch \notin Quotes
  <2>1. state' = "text" /\ output' = kept \o <<ch>>
    <3>1. Comments!Func(state, ch) = Comments!Row("any", TRUE, <<>>, "text")
      BY <1>2, <1>7, FuncText DEF Quotes
    <3> QED BY <1>2, <3>1, Copied
  <2>2. <<ch>> \in Text
    BY DEF Text
  <2>3. Takes(new, q, <<ch>>, q + 1)
    BY <1>1, <1>4, <1>7, TakesPlain
  <2>4. Leads(new, kept \o <<ch>>, q + 1)
    BY <1>1, <1>2, <1>3, <1>4, <2>2, <2>3, LeadsOn
  <2>5. kept \o <<ch>> \in Text
    BY <1>2, <2>2, ConcatProperties DEF Text
  <2>6. InText(kept \o <<ch>>, q + 1)'
    BY <1>4, <2>1 DEF InText, new
  <2>7. Begun(kept \o <<ch>>, q + 1)'
    BY <1>4, <2>4, <2>5, <2>6 DEF Begun, new
  <2> QED BY <2>7
<1> QED BY <1>5, <1>6, <1>7

LEMMA FromSlash ==
  ASSUME NEW ch \in Comments!Char, Comments!Getc(ch), input \in Text, output \in Text, ~Excluded',
         NEW kept, NEW p, Begun(kept, p), InSlash(kept, p)
  PROVE  \E k, q : Begun(k, q)'
<1> DEFINE new == input'
<1>0. /\ new = Append(input, ch) /\ new \in Text /\ Len(input) \in Nat /\ Len(new) = Len(input) + 1
      /\ new[Len(input) + 1] = ch /\ \A i \in 1..Len(input) : new[i] = input[i]
  BY InputGrows
<1>1. /\ kept \in Text /\ state = "slash" /\ p = Len(input) /\ output = kept /\ Leads(input, kept, p)
      /\ p \in 1..Len(input) + 1 /\ input[p] = Comments!Slash
  BY DEF Begun, InSlash
<1>2. /\ p \in Nat /\ p \in 1..Len(input) /\ Len(new) = p + 1 /\ new[p] = Comments!Slash /\ new[p + 1] = ch
      /\ p \in 1..Len(new) /\ p + 1 \in 1..Len(new) /\ p \in 1..Len(new) + 1 /\ p + 1 \in 1..Len(new) + 1
      /\ (p + 1) + 1 \in 1..Len(new) + 1 /\ p < Len(new)
  BY <1>0, <1>1
<1>3. Leads(new, kept, p)
  BY <1>0, <1>1, LeadsMore
<1>4. ch \notin Quotes
  BY <1>0, <1>1, <1>2, StaysExcluded
<1>a. new \in Text
  BY <1>0
<1> HIDE DEF new
<1>5. CASE ch = Comments!Slash
  <2>1. state' = "line_comm" /\ output' = kept
    <3>1. Comments!Func(state, ch) = Comments!Row(Comments!Slash, FALSE, <<>>, "line_comm")
      BY <1>1, <1>5, FuncSlash
    <3> QED BY <1>1, <3>1, Dropped
  <2>2. LineOpen(new, p, Len(new))
    BY <1>2 DEF LineOpen
  <2>3. InLine(kept, p)'
    BY <1>2, <1>5, <2>1, <2>2 DEF InLine, new
  <2>4. Begun(kept, p)'
    BY <1>1, <1>2, <1>3, <2>3 DEF Begun, new
  <2> QED BY <2>4
<1>6. CASE ch = Comments!Star
  <2>1. state' = "block_comm" /\ output' = kept
    <3>1. Comments!Func(state, ch) = Comments!Row(Comments!Star, FALSE, <<>>, "block_comm")
      BY <1>1, <1>6, FuncSlash
    <3> QED BY <1>1, <3>1, Dropped
  <2>2. BlockOpen(new, p, Len(new)) /\ ~(p + 1 < Len(new))
    BY <1>2 DEF BlockOpen
  <2>3. InBlock(kept, p)'
    BY <1>2, <1>6, <2>1, <2>2 DEF InBlock, new
  <2>4. Begun(kept, p)'
    BY <1>1, <1>2, <1>3, <2>3 DEF Begun, new
  <2> QED BY <2>4
<1>7. CASE ch # Comments!Slash /\ ch # Comments!Star
  <2>0. <<Comments!Slash>> \in Text /\ <<ch>> \in Text
    <3>1. Comments!Slash \in Comments!Char
      BY DEF Comments!Char
    <3>2. <<Comments!Slash>> \in Text
      BY <3>1 DEF Text
    <3>3. <<ch>> \in Text
      BY DEF Text
    <3> QED BY <3>2, <3>3
  <2>1. state' = "text" /\ output' = (kept \o <<Comments!Slash>>) \o <<ch>>
    <3>1. Comments!Func(state, ch) = Comments!Row("any", TRUE, <<Comments!Slash>>, "text")
      BY <1>1, <1>7, FuncSlash
    <3>2. state' = "text" /\ output' = (output \o <<Comments!Slash>>) \o IF TRUE THEN <<ch>> ELSE <<>>
      <4>1. TRUE \in BOOLEAN
        OBVIOUS
      <4> QED BY <2>0, <3>1, <4>1, Effect
    <3> QED BY <1>1, <3>2
  <2>2. Takes(new, p, <<Comments!Slash>>, p + 1) /\ Takes(new, p + 1, <<ch>>, (p + 1) + 1)
    <3>1. Comments!Slash \notin Quotes
      BY DEF Comments!Slash, Quotes
    <3>2. Takes(new, p, <<new[p]>>, p + 1)
      BY <1>2, <1>7, <1>a, <3>1, TakesPlain
    <3>3. Takes(new, p + 1, <<new[p + 1]>>, (p + 1) + 1)
      BY <1>2, <1>4, <1>7, <1>a, TakesPlain
    <3> QED BY <1>2, <3>2, <3>3
  <2>3. kept \o <<Comments!Slash>> \in Text
    BY <1>1, <2>0, ConcatProperties DEF Text
  <2>4. Leads(new, kept \o <<Comments!Slash>>, p + 1)
    BY <1>1, <1>2, <1>3, <1>a, <2>0, <2>2, LeadsOn
  <2>5. Leads(new, (kept \o <<Comments!Slash>>) \o <<ch>>, (p + 1) + 1)
    BY <1>2, <1>a, <2>0, <2>2, <2>3, <2>4, LeadsOn
  <2>6. (kept \o <<Comments!Slash>>) \o <<ch>> \in Text
    BY <2>0, <2>3, ConcatProperties DEF Text
  <2>7. InText((kept \o <<Comments!Slash>>) \o <<ch>>, (p + 1) + 1)'
    BY <1>2, <2>1 DEF InText, new
  <2>8. Begun((kept \o <<Comments!Slash>>) \o <<ch>>, (p + 1) + 1)'
    BY <1>2, <2>5, <2>6, <2>7 DEF Begun, new
  <2> QED BY <2>8
<1> QED BY <1>5, <1>6, <1>7

LEMMA LiteralMore ==
  ASSUME NEW front \in Text, NEW ch \in Comments!Char, NEW p \in 1..Len(front)
  PROVE  /\ LiteralOpen(front, p, Len(front)) => LiteralOpen(Append(front, ch), p, Len(front))
         /\ Comments!Escaped(Append(front, ch), p, Len(front) + 1) <=> Comments!Escaped(front, p, Len(front) + 1)
<1> DEFINE n == Len(front)
           new == Append(front, ch)
<1>1. n \in Nat /\ \A i \in 1..n : new[i] = front[i]
  BY TextIs, AppendProperties DEF Text
<1> HIDE DEF new
<1>2. ASSUME NEW j \in p + 1..n + 1 PROVE Comments!Escaped(new, p, j) <=> Comments!Escaped(front, p, j)
  <2>1. \A l \in p + 1..j - 1 : new[l] = front[l]
    BY <1>1
  <2>2. p \in Nat /\ j \in Nat
    BY <1>1
  <2> QED BY <2>1, <2>2, EscapedAlike
<1>3. Comments!Escaped(new, p, n + 1) <=> Comments!Escaped(front, p, n + 1)
  <2>1. n + 1 \in p + 1..n + 1
    BY <1>1
  <2> QED BY <1>2, <2>1
<1>4. ASSUME LiteralOpen(front, p, n) PROVE LiteralOpen(new, p, n)
  <2> SUFFICES ASSUME NEW j \in p + 1..n, new[j] = new[p], ~Comments!Escaped(new, p, j) PROVE FALSE
    BY DEF LiteralOpen
  <2>1. j \in p + 1..n + 1 /\ j \in 1..n /\ p \in 1..n
    BY <1>1
  <2>2. front[j] = front[p] /\ ~Comments!Escaped(front, p, j)
    BY <1>1, <1>2, <2>1
  <2> QED BY <1>4, <2>2 DEF LiteralOpen
<1> QED BY <1>3, <1>4 DEF new, n

LEMMA LiteralSteps ==
  ASSUME NEW ch \in Comments!Char, Comments!Getc(ch), output \in Text,
         NEW quote, \/ quote = "\"" /\ state \in {"string", "string_bs"}
                    \/ quote = "'" /\ state \in {"char", "char_bs"}
  PROVE  LET escaped == state \in {"string_bs", "char_bs"}
         IN /\ output' = output \o <<ch>>
            /\ ch = quote /\ ~escaped => state' = "text"
            /\ ~(ch = quote /\ ~escaped) =>
                 /\ \/ quote = "\"" /\ state' \in {"string", "string_bs"}
                    \/ quote = "'" /\ state' \in {"char", "char_bs"}
                 /\ state' \in {"string_bs", "char_bs"} <=> ch = "\\" /\ ~escaped
<1>1. CASE quote = "\"" /\ state = "string"
  <2>1. CASE ch = "\""
    BY <1>1, <2>1, FuncString, Copied
  <2>2. CASE ch = "\\"
    BY <1>1, <2>2, FuncString, Copied
  <2>3. CASE ch # "\"" /\ ch # "\\"
    BY <1>1, <2>3, FuncString, Copied
  <2> QED BY <2>1, <2>2, <2>3
<1>2. CASE quote = "\"" /\ state = "string_bs"
  <2>1. Comments!Func(state, ch) = Comments!Row("any", TRUE, <<>>, "string")
    BY <1>2, FuncStringBs
  <2>2. state' = "string" /\ output' = output \o <<ch>>
    BY <2>1, Copied
  <2> QED BY <1>2, <2>2
<1>3. CASE quote = "'" /\ state = "char"
  <2>1. CASE ch = "'"
    BY <1>3, <2>1, FuncChar, Copied
  <2>2. CASE ch = "\\"
    BY <1>3, <2>2, FuncChar, Copied
  <2>3. CASE ch # "'" /\ ch # "\\"
    BY <1>3, <2>3, FuncChar, Copied
  <2> QED BY <2>1, <2>2, <2>3
<1>4. CASE quote = "'" /\ state = "char_bs"
  <2>1. Comments!Func(state, ch) = Comments!Row("any", TRUE, <<>>, "char")
    BY <1>4, FuncCharBs
  <2>2. state' = "char" /\ output' = output \o <<ch>>
    BY <2>1, Copied
  <2> QED BY <1>4, <2>2
<1> QED BY <1>1, <1>2, <1>3, <1>4

LEMMA FromLiteral ==
  ASSUME NEW ch \in Comments!Char, Comments!Getc(ch), input \in Text, output \in Text,
         NEW kept, NEW p, Begun(kept, p), InLiteral(kept, p)
  PROVE  \E k, q : Begun(k, q)'
<1> DEFINE n == Len(input)
           new == input'
           copied == SubSeq(input, p, n)
           escaped == state \in {"string_bs", "char_bs"}
<1>0. /\ new = Append(input, ch) /\ new \in Text /\ n \in Nat /\ Len(new) = n + 1
      /\ new[n + 1] = ch /\ \A i \in 1..n : new[i] = input[i]
  BY InputGrows
<1>1. /\ kept \in Text /\ p \in 1..n + 1 /\ p <= n /\ output = kept \o copied /\ Leads(input, kept, p)
      /\ LiteralOpen(input, p, n) /\ (Comments!Escaped(input, p, n + 1) <=> escaped)
  BY DEF Begun, InLiteral
<1>2. PICK quote : \/ quote = "\"" /\ state \in {"string", "string_bs"} /\ input[p] = quote
                   \/ quote = "'" /\ state \in {"char", "char_bs"} /\ input[p] = quote
  BY DEF InLiteral
<1>3. /\ output' = output \o <<ch>>
      /\ ch = quote /\ ~escaped => state' = "text"
      /\ ~(ch = quote /\ ~escaped) =>
           /\ \/ quote = "\"" /\ state' \in {"string", "string_bs"}
              \/ quote = "'" /\ state' \in {"char", "char_bs"}
           /\ state' \in {"string_bs", "char_bs"} <=> ch = "\\" /\ ~escaped
  <2>1. \/ quote = "\"" /\ state \in {"string", "string_bs"}
        \/ quote = "'" /\ state \in {"char", "char_bs"}
    BY <1>2
  <2> QED BY <2>1, LiteralSteps
<1>4. p \in 1..n /\ p \in Nat /\ n + 1 \in Nat /\ p < n + 1 /\ p \in 1..Len(new) /\ p \in 1..Len(new) + 1
      /\ p < Len(new)
  BY <1>0, <1>1
<1>5. Leads(new, kept, p)
  BY <1>0, <1>1, LeadsMore
<1>6. LiteralOpen(new, p, n) /\ (Comments!Escaped(new, p, n + 1) <=> escaped)
  <2>1. /\ LiteralOpen(input, p, Len(input)) => LiteralOpen(Append(input, ch), p, Len(input))
        /\ Comments!Escaped(Append(input, ch), p, Len(input) + 1) <=> Comments!Escaped(input, p, Len(input) + 1)
    BY <1>4, LiteralMore
  <2> QED BY <1>0, <1>1, <2>1
<1>7. SubSeq(new, p, n + 1) = copied \o <<ch>>
  BY <1>0, <1>4, PartGrows
<1>8. output' = kept \o SubSeq(new, p, n + 1)
  <2>1. kept \in Seq(Comments!Char) /\ copied \in Seq(Comments!Char) /\ <<ch>> \in Seq(Comments!Char)
    <3>1. copied \in Seq(Comments!Char)
      BY <1>4, SubSeqProperties DEF Text
    <3> QED BY <1>1, <3>1 DEF Text
  <2> HIDE DEF copied
  <2>2. (kept \o copied) \o <<ch>> = kept \o (copied \o <<ch>>)
    BY <2>1, ConcatAssociative
  <2> QED BY <1>1, <1>3, <1>7, <2>2
<1>9. new[p] = quote /\ new[p] \in Quotes /\ new[Len(new)] = ch
  BY <1>0, <1>2, <1>4 DEF Quotes
<1>a. new \in Text /\ n \in Nat /\ Len(new) = n + 1
  BY <1>0
<1> HIDE DEF new, copied
<1>10. CASE ch = quote /\ ~escaped
  <2> DEFINE all == SubSeq(new, p, n + 1)
  <2>1. Takes(new, p, all, (n + 1) + 1)
    <3>1. ~Comments!Escaped(new, p, Len(new)) /\ LiteralOpen(new, p, Len(new) - 1)
      <4>1. Len(new) - 1 = n
        BY <1>a
      <4> QED BY <1>6, <1>10, <1>a, <4>1
    <3>2. new[Len(new)] = new[p]
      BY <1>9, <1>10
    <3>3. Takes(new, p, SubSeq(new, p, Len(new)), Len(new) + 1)
      BY <1>4, <1>9, <1>a, <3>1, <3>2, TakesLiteral
    <3> QED BY <1>a, <3>3
  <2>2. all \in Text
    <3>1. n + 1 \in 1..Len(new)
      BY <1>a
    <3> QED BY <1>4, <1>a, <3>1, SubSeqProperties DEF Text
  <2>3. (n + 1) + 1 \in 1..Len(new) + 1
    BY <1>a
  <2> HIDE DEF all
  <2>4. Leads(new, kept \o all, (n + 1) + 1)
    BY <1>1, <1>4, <1>5, <1>a, <2>1, <2>2, <2>3, LeadsOn
  <2>5. kept \o all \in Text
    BY <1>1, <2>2, ConcatProperties DEF Text
  <2>6. PICK k : k = kept \o all
    OBVIOUS
  <2>7. PICK q : q = (n + 1) + 1
    OBVIOUS
  <2>8. output' = k
    BY <1>8, <2>6 DEF all
  <2>9. state' = "text" /\ q = Len(new) + 1
    BY <1>3, <1>10, <1>a, <2>7
  <2>10. InText(k, q)'
    BY <2>8, <2>9 DEF InText, new
  <2>11. k \in Text /\ q \in 1..Len(new) + 1 /\ Leads(new, k, q)
    BY <2>3, <2>4, <2>5, <2>6, <2>7
  <2>12. Begun(k, q)'
    BY <2>10, <2>11 DEF Begun, new
  <2> QED BY <2>12
<1>11. CASE ~(ch = quote /\ ~escaped)
  <2>1. LiteralOpen(new, p, Len(new))
    <3> SUFFICES ASSUME NEW j \in p + 1..Len(new), new[j] = new[p], ~Comments!Escaped(new, p, j) PROVE FALSE
      BY DEF LiteralOpen
    <3>1. CASE j \in p + 1..n
      BY <1>6, <3>1 DEF LiteralOpen
    <3>2. CASE j = n + 1
      <4>1. ch = quote
        BY <1>9, <1>a, <3>2
      <4>2. ~escaped
        BY <1>6, <3>2
      <4> QED BY <1>11, <4>1, <4>2
    <3> QED BY <1>4, <1>a, <3>1, <3>2
  <2>2. Comments!Escaped(new, p, Len(new) + 1) <=> ch = "\\" /\ ~escaped
    <3>1. Comments!Escaped(new, p, (n + 1) + 1) <=> new[n + 1] = "\\" /\ ~Comments!Escaped(new, p, n + 1)
      BY <1>4, EscapedNext
    <3> QED BY <1>6, <1>9, <1>a, <3>1
  <2>3. output' = kept \o SubSeq(new, p, Len(new))
    BY <1>8, <1>a
  <2>4. p <= Len(new) /\ new[p] = quote
    BY <1>4, <1>9, <1>a
  <2>5. /\ \/ state' \in {"string", "string_bs"} /\ new[p] = "\""
           \/ state' \in {"char", "char_bs"} /\ new[p] = "'"
        /\ Comments!Escaped(new, p, Len(new) + 1) <=> state' \in {"string_bs", "char_bs"}
    BY <1>3, <1>11, <2>2, <2>4
  <2>6. InLiteral(kept, p)'
    BY <2>1, <2>3, <2>4, <2>5 DEF InLiteral, new
  <2>7. Begun(kept, p)'
    BY <1>1, <1>4, <1>5, <2>6 DEF Begun, new
  <2> QED BY <2>7
<1> QED BY <1>10, <1>11

LEMMA FromLine ==
  ASSUME NEW ch \in Comments!Char, Comments!Getc(ch), input \in Text, output \in Text,
         NEW kept, NEW p, Begun(kept, p), InLine(kept, p)
  PROVE  \E k, q : Begun(k, q)'
<1> DEFINE n == Len(input)
           new == input'
<1>0. /\ new = Append(input, ch) /\ new \in Text /\ n \in Nat /\ Len(new) = n + 1
      /\ new[n + 1] = ch /\ \A i \in 1..n : new[i] = input[i]
  BY InputGrows
<1>1. /\ kept \in Text /\ p \in 1..n + 1 /\ p < n /\ output = kept /\ Leads(input, kept, p)
      /\ LineOpen(input, p, n) /\ state = "line_comm" /\ input[p] = Comments!Slash /\ input[p + 1] = Comments!Slash
  BY DEF Begun, InLine
<1>2. /\ p \in 1..n /\ p + 1 \in 1..n /\ p \in 1..Len(new) /\ p \in 1..Len(new) + 1 /\ p < Len(new)
      /\ p + 1 < Len(new) /\ n + 1 \in 1..Len(new) /\ n + 1 \in 1..Len(new) + 1
      /\ (n + 1) + 1 \in 1..Len(new) + 1
  BY <1>0, <1>1
<1>3. new[p] = Comments!Slash /\ new[p + 1] = Comments!Slash
  BY <1>0, <1>1, <1>2
<1>4. Leads(new, kept, p)
  BY <1>0, <1>1, LeadsMore
<1>5. LineOpen(new, p, n)
  <2>1. \A j \in p + 2..n : j \in 1..n
    BY <1>0, <1>2
  <2> QED BY <1>0, <1>1, <2>1 DEF LineOpen
<1>a. new \in Text /\ n \in Nat /\ Len(new) = n + 1 /\ new[n + 1] = ch
  BY <1>0
<1> HIDE DEF new
<1>6. CASE ch = "\n"
  <2>1. state' = "text" /\ output' = kept \o <<ch>>
    <3>1. Comments!Func(state, ch) = Comments!Row("\n", TRUE, <<>>, "text")
      BY <1>1, <1>6, FuncLineComm
    <3> QED BY <1>1, <3>1, Copied
  <2>2. Takes(new, p, <<>>, n + 1)
    <3>1. Len(new) - 1 = n /\ new[Len(new)] = "\n"
      BY <1>6, <1>a
    <3>2. Takes(new, p, <<>>, Len(new))
      BY <1>2, <1>3, <1>5, <1>a, <3>1, TakesLine
    <3> QED BY <1>a, <3>2
  <2>3. Takes(new, n + 1, <<ch>>, (n + 1) + 1)
    <3>1. new[n + 1] \notin Quotes /\ new[n + 1] # Comments!Slash
      BY <1>6, <1>a DEF Quotes, Comments!Slash
    <3>2. Takes(new, n + 1, <<new[n + 1]>>, (n + 1) + 1)
      BY <1>2, <1>a, <3>1, TakesPlain
    <3> QED BY <1>a, <3>2
  <2>4. <<>> \in Text /\ kept \o <<>> = kept
    BY <1>1 DEF Text
  <2>5. <<ch>> \in Text
    BY DEF Text
  <2>6. Leads(new, kept \o <<>>, n + 1)
    BY <1>1, <1>2, <1>4, <1>a, <2>2, <2>4, LeadsOn
  <2>7. Leads(new, kept, n + 1)
    BY <2>4, <2>6
  <2>8. Leads(new, kept \o <<ch>>, (n + 1) + 1)
    BY <1>1, <1>2, <1>a, <2>3, <2>5, <2>7, LeadsOn
  <2>9. kept \o <<ch>> \in Text
    BY <1>1, <2>5, ConcatProperties DEF Text
  <2>10. PICK q : q = (n + 1) + 1
    OBVIOUS
  <2>11. q = Len(new) + 1 /\ q \in 1..Len(new) + 1 /\ Leads(new, kept \o <<ch>>, q)
    BY <1>2, <1>a, <2>8, <2>10
  <2>12. InText(kept \o <<ch>>, q)'
    BY <2>1, <2>11 DEF InText, new
  <2>13. Begun(kept \o <<ch>>, q)'
    BY <2>9, <2>11, <2>12 DEF Begun, new
  <2> QED BY <2>13
<1>7. CASE ch # "\n"
  <2>1. state' = "line_comm" /\ output' = kept
    <3>1. Comments!Func(state, ch) = Comments!Row("any", FALSE, <<>>, "line_comm")
      BY <1>1, <1>7, FuncLineComm
    <3> QED BY <1>1, <3>1, Dropped
  <2>2. LineOpen(new, p, Len(new))
    <3>1. \A j \in p + 2..Len(new) : j \in p + 2..n \/ j = n + 1
      BY <1>2, <1>a
    <3> QED BY <1>5, <1>7, <1>a, <3>1 DEF LineOpen
  <2>3. InLine(kept, p)'
    BY <1>2, <1>3, <2>1, <2>2 DEF InLine, new
  <2>4. Begun(kept, p)'
    BY <1>1, <1>2, <1>4, <2>3 DEF Begun, new
  <2> QED BY <2>4
<1> QED BY <1>6, <1>7

LEMMA FromBlock ==
  ASSUME NEW ch \in Comments!Char, Comments!Getc(ch), input \in Text, output \in Text, ~Excluded',
         NEW kept, NEW p, Begun(kept, p), InBlock(kept, p)
  PROVE  \E k, q : Begun(k, q)'
<1> DEFINE n == Len(input)
           new == input'
<1>0. /\ new = Append(input, ch) /\ new \in Text /\ n \in Nat /\ Len(new) = n + 1
      /\ new[n + 1] = ch /\ \A i \in 1..n : new[i] = input[i]
  BY InputGrows
<1>1. /\ kept \in Text /\ p \in 1..n + 1 /\ p < n /\ output = kept /\ Leads(input, kept, p)
      /\ BlockOpen(input, p, n) /\ state \in {"block_comm", "star"} /\ input[p] = Comments!Slash /\ input[p + 1] = Comments!Star
      /\ state = "star" <=> p + 1 < n /\ input[n] = Comments!Star
  BY DEF Begun, InBlock
<1>2. /\ p \in 1..n /\ p + 1 \in 1..n /\ n \in 1..n /\ p \in 1..Len(new) /\ p \in 1..Len(new) + 1
      /\ p < Len(new) /\ p + 1 < Len(new) /\ (n + 1) + 1 \in 1..Len(new) + 1 /\ n > 0
  BY <1>0, <1>1
<1>3. new[p] = Comments!Slash /\ new[p + 1] = Comments!Star /\ new[n] = input[n]
  BY <1>0, <1>1, <1>2
<1>4. Leads(new, kept, p)
  BY <1>0, <1>1, LeadsMore
<1>5. BlockOpen(new, p, n)
  <2>1. \A j \in p + 3..n : j \in 1..n /\ j - 1 \in 1..n
    BY <1>0, <1>2
  <2> QED BY <1>0, <1>1, <2>1 DEF BlockOpen
<1>6. input[n] = Comments!Star => ch # Comments!Star
  BY <1>2, StaysExcluded
<1>a. new \in Text /\ n \in Nat /\ Len(new) = n + 1 /\ new[n + 1] = ch
  BY <1>0
<1> HIDE DEF new
<1>7. CASE state = "star" /\ ch = Comments!Slash
  <2>1. state' = "text" /\ output' = kept
    <3>1. Comments!Func(state, ch) = Comments!Row(Comments!Slash, FALSE, <<>>, "text")
      BY <1>7, FuncStar
    <3> QED BY <1>1, <3>1, Dropped
  <2>2. Takes(new, p, <<>>, (n + 1) + 1)
    <3>1. Len(new) - 1 = n /\ new[Len(new)] = Comments!Slash /\ p + 2 < Len(new)
      BY <1>1, <1>2, <1>7, <1>a
    <3>2. new[Len(new) - 1] = Comments!Star
      BY <1>1, <1>3, <1>7, <3>1
    <3>3. BlockOpen(new, p, Len(new) - 1)
      BY <1>5, <3>1
    <3>4. Takes(new, p, <<>>, Len(new) + 1)
      BY <1>2, <1>3, <1>a, <3>1, <3>2, <3>3, TakesBlock
    <3> QED BY <1>a, <3>4
  <2>3. <<>> \in Text /\ kept \o <<>> = kept
    BY <1>1 DEF Text
  <2>4. Leads(new, kept \o <<>>, (n + 1) + 1)
    BY <1>1, <1>2, <1>4, <1>a, <2>2, <2>3, LeadsOn
  <2>5. PICK q : q = (n + 1) + 1
    OBVIOUS
  <2>6. q = Len(new) + 1 /\ q \in 1..Len(new) + 1 /\ Leads(new, kept, q)
    BY <1>2, <1>a, <2>3, <2>4, <2>5
  <2>7. InText(kept, q)'
    BY <2>1, <2>6 DEF InText, new
  <2>8. Begun(kept, q)'
    BY <1>1, <2>6, <2>7 DEF Begun, new
  <2> QED BY <2>8
<1>8. CASE ~(state = "star" /\ ch = Comments!Slash)
  <2>1. /\ output' = kept
        /\ state' \in {"block_comm", "star"}
        /\ state' = "star" <=> ch = Comments!Star
    <3>1. CASE state = "star"
      <4>1. Comments!Func(state, ch) = Comments!Row("any", FALSE, <<>>, "block_comm")
        BY <1>8, <3>1, FuncStar
      <4>2. state' = "block_comm" /\ output' = kept
        BY <1>1, <4>1, Dropped
      <4>3. ch # Comments!Star
        BY <1>1, <1>6, <3>1
      <4> QED BY <4>2, <4>3
    <3>2. CASE state = "block_comm" /\ ch = Comments!Star
      <4>1. Comments!Func(state, ch) = Comments!Row(Comments!Star, FALSE, <<>>, "star")
        BY <3>2, FuncBlockComm
      <4>2. state' = "star" /\ output' = kept
        BY <1>1, <4>1, Dropped
      <4> QED BY <3>2, <4>2
    <3>3. CASE state = "block_comm" /\ ch # Comments!Star
      <4>1. Comments!Func(state, ch) = Comments!Row("any", FALSE, <<>>, "block_comm")
        BY <3>3, FuncBlockComm
      <4>2. state' = "block_comm" /\ output' = kept
        BY <1>1, <4>1, Dropped
      <4> QED BY <3>3, <4>2
    <3> QED BY <1>1, <3>1, <3>2, <3>3
  <2>2. BlockOpen(new, p, Len(new))
    <3> SUFFICES ASSUME NEW j \in p + 3..Len(new), new[j - 1] = Comments!Star, new[j] = Comments!Slash PROVE FALSE
      BY DEF BlockOpen
    <3>1. CASE j \in p + 3..n
      BY <1>5, <3>1 DEF BlockOpen
    <3>2. CASE j = n + 1
      <4>1. ch = Comments!Slash
        BY <1>a, <3>2
      <4>2. j - 1 = n /\ p + 1 < n
        BY <1>2, <1>a, <3>2
      <4>3. input[n] = Comments!Star
        BY <1>3, <4>2
      <4> QED BY <1>1, <1>8, <4>1, <4>2, <4>3
    <3> QED BY <1>2, <1>a, <3>1, <3>2
  <2>3. state' = "star" <=> p + 1 < Len(new) /\ new[Len(new)] = Comments!Star
    BY <1>2, <1>a, <2>1
  <2>4. InBlock(kept, p)'
    BY <1>2, <1>3, <2>1, <2>2, <2>3 DEF InBlock, new
  <2>5. Begun(kept, p)'
    BY <1>1, <1>2, <1>4, <2>4 DEF Begun, new
  <2> QED BY <2>5
<1> QED BY <1>7, <1>8

LEMMA PrintedIsText ==
  ASSUME NEW front \in Text, NEW kept \in Text, NEW p \in 1..Len(front)
  PROVE  kept \o SubSeq(front, p, Len(front)) \in Text
<1> DEFINE copied == SubSeq(front, p, Len(front))
<1>1. Len(front) \in Nat
  BY TextIs
<1>2. Len(front) \in 1..Len(front)
  BY <1>1
<1>3. copied \in Text
  BY <1>2, SubSeqProperties DEF Text
<1> HIDE DEF copied
<1>4. kept \o copied \in Text
  BY <1>3, ConcatProperties DEF Text
<1> QED BY <1>4 DEF copied

LEMMA MinOfOne == ASSUME NEW m \in Nat PROVE Comments!Min({m}) = m
<1> DEFINE S == {m}
<1>1. m \in S /\ S \subseteq Int /\ \A x \in S : m <= x
  OBVIOUS
<1> HIDE DEF S
<1>2. Comments!Min(S) = m
  BY <1>1, MinIs
<1> QED BY <1>2 DEF S

LEMMA BeginsCutting == ASSUME Comments!Init PROVE Cutting
<1>1. input = <<>> /\ state = "text" /\ output = <<>>
  BY DEF Comments!Init
<1>2. input \in Text /\ output \in Text /\ Len(input) = 0
  BY <1>1 DEF Text
<1>3. Leads(input, <<>>, 1)
  BY <1>1, <1>2, LeadsBegins
<1>4. Begun(<<>>, 1)
  BY <1>1, <1>2, <1>3 DEF Begun, InText
<1> QED BY <1>2, <1>4 DEF Cutting

LEMMA KeepsCutting == ASSUME Cutting, [Comments!Next]_(Comments!vars) PROVE Cutting'
<1>1. CASE UNCHANGED Comments!vars
  <2>1. input' = input /\ state' = state /\ output' = output
    BY <1>1 DEF Comments!vars
  <2>2. Excluded' <=> Excluded
    BY <2>1 DEF Excluded, Comments!Has
  <2>3. ASSUME NEW k, NEW q, Begun(k, q) PROVE Begun(k, q)'
    BY <2>1, <2>3 DEF Begun, InText, InSlash, InLiteral, InLine, InBlock
  <2> QED BY <2>1, <2>2, <2>3 DEF Cutting
<1>2. ASSUME NEW ch \in Comments!Char, Comments!Getc(ch) PROVE Cutting'
  <2>1. input \in Text /\ input' \in Text
    BY <1>2, InputGrows DEF Cutting
  <2>2. CASE Excluded'
    BY <2>1, <2>2 DEF Cutting
  <2>3. CASE ~Excluded'
    <3>1. ~Excluded
      BY <1>2, <2>1, <2>3, StaysExcluded
    <3>2. output \in Text
      BY <3>1 DEF Cutting
    <3>3. PICK kept, p : Begun(kept, p)
      BY <3>1 DEF Cutting
    <3>4. \E k, q : Begun(k, q)'
      <4>1. CASE InText(kept, p)
        BY <1>2, <2>1, <3>2, <3>3, <4>1, FromText
      <4>2. CASE InSlash(kept, p)
        BY <1>2, <2>1, <2>3, <3>2, <3>3, <4>2, FromSlash
      <4>3. CASE InLiteral(kept, p)
        BY <1>2, <2>1, <3>2, <3>3, <4>3, FromLiteral
      <4>4. CASE InLine(kept, p)
        BY <1>2, <2>1, <3>2, <3>3, <4>4, FromLine
      <4>5. CASE InBlock(kept, p)
        BY <1>2, <2>1, <2>3, <3>2, <3>3, <4>5, FromBlock
      <4> QED BY <3>3, <4>1, <4>2, <4>3, <4>4, <4>5 DEF Begun
    <3>5. PICK k, q : Begun(k, q)'
      BY <3>4
    <3>6. k \in Text /\ q \in 1..Len(input') + 1
      BY <3>5 DEF Begun
    <3>7. CASE output' = k
      BY <2>1, <3>5, <3>6, <3>7 DEF Cutting
    <3>8. CASE InLiteral(k, q)'
      <4>1. q <= Len(input') /\ output' = k \o SubSeq(input', q, Len(input'))
        BY <3>8 DEF InLiteral
      <4>2. Len(input') \in Nat
        BY <2>1, TextIs
      <4>3. q \in 1..Len(input')
        BY <3>6, <4>1, <4>2
      <4>4. output' \in Text
        BY <2>1, <3>6, <4>1, <4>3, PrintedIsText
      <4> QED BY <2>1, <3>5, <4>4 DEF Cutting
    <3>9. output' = k \/ InLiteral(k, q)'
      BY <3>5 DEF Begun, InText, InSlash, InLine, InBlock
    <3> QED BY <3>7, <3>8, <3>9
  <2> QED BY <2>2, <2>3
<1> QED BY <1>1, <1>2 DEF Comments!Next

(* Wherever the input ends, what is printed by then is what is left of it. *)
LEMMA CuttingCuts == ASSUME Cutting, ~Excluded, state # "slash" PROVE output = Comments!Strip(input)
<1>1. input \in Text
  BY DEF Cutting
<1>2. PICK kept, p : Begun(kept, p)
  BY DEF Cutting
<1> DEFINE n == Len(input)
<1>3. n \in Nat /\ kept \in Text /\ p \in 1..n + 1 /\ Leads(input, kept, p)
  BY <1>1, <1>2, TextIs DEF Begun
<1>4. CASE InText(kept, p)
  BY <1>1, <1>3, <1>4, LeadsToEnd DEF InText
<1>5. CASE InLiteral(kept, p)
  <2>0. p <= n /\ input[p] \in Quotes /\ LiteralOpen(input, p, n) /\ output = kept \o SubSeq(input, p, n)
    BY <1>5 DEF InLiteral, Quotes
  <2>1. p \in 1..n /\ n \in 1..n /\ input[p] \in Quotes /\ LiteralOpen(input, p, n)
        /\ output = kept \o SubSeq(input, p, n)
    BY <1>3, <2>0
  <2>2. Comments!LiteralEnd(input, p) = n
    <3>1. {j \in p + 1..n : input[j] = input[p] /\ ~Comments!Escaped(input, p, j)} = {}
      BY <2>1 DEF LiteralOpen
    <3>2. Comments!Min({n}) = n
      BY <1>3, MinOfOne
    <3> QED BY <3>1, <3>2 DEF Comments!LiteralEnd
  <2>3. Comments!PieceAt(input, p) = Comments!Piece(SubSeq(input, p, n), n + 1)
    <3>1. Comments!PieceAt(input, p) = Comments!Piece(SubSeq(input, p, Comments!LiteralEnd(input, p)), Comments!LiteralEnd(input, p) + 1)
      BY <2>1, PieceAtIs
    <3> QED BY <2>2, <3>1
  <2>4. SubSeq(input, p, n) \in Text
    BY <1>1, <2>1, SubSeqProperties DEF Text
  <2>5. Comments!Strip(input) = kept \o SubSeq(input, p, n)
    BY <1>1, <1>3, <2>1, <2>3, <2>4, LeadsToLast
  <2> QED BY <2>1, <2>5
<1>6. CASE InLine(kept, p)
  <2>1. p \in 1..n /\ p < n /\ input[p] = Comments!Slash /\ input[p + 1] = Comments!Slash /\ LineOpen(input, p, n) /\ output = kept
    BY <1>3, <1>6 DEF InLine
  <2>2. Comments!LineEnd(input, p) = n + 1
    <3>1. {j \in p + 2..n : input[j] = "\n"} = {}
      BY <2>1 DEF LineOpen
    <3>2. n + 1 \in Nat
      BY <1>3
    <3>3. Comments!Min({n + 1}) = n + 1
      BY <3>2, MinOfOne
    <3> QED BY <3>1, <3>3 DEF Comments!LineEnd
  <2>3. input[p] \notin Quotes /\ Comments!Opens(input, p, Comments!Slash)
    BY <2>1 DEF Quotes, Comments!Slash, Comments!Opens
  <2>4. Comments!PieceAt(input, p) = Comments!Piece(<<>>, Comments!LineEnd(input, p))
    BY <2>3, PieceAtIs
  <2>5. Comments!PieceAt(input, p) = Comments!Piece(<<>>, n + 1) /\ <<>> \in Text /\ kept \o <<>> = kept
    BY <1>3, <2>2, <2>4 DEF Text
  <2>6. Comments!Strip(input) = kept \o <<>>
    BY <1>1, <1>3, <2>1, <2>5, LeadsToLast
  <2> QED BY <2>1, <2>5, <2>6
<1>7. CASE InBlock(kept, p)
  <2>1. p \in 1..n /\ p < n /\ input[p] = Comments!Slash /\ input[p + 1] = Comments!Star /\ BlockOpen(input, p, n) /\ output = kept
    BY <1>3, <1>7 DEF InBlock
  <2>2. Comments!BlockEnd(input, p) = n
    <3>1. {j \in p + 3..n : input[j - 1] = Comments!Star /\ input[j] = Comments!Slash} = {}
      BY <2>1 DEF BlockOpen
    <3>2. Comments!Min({n}) = n
      BY <1>3, MinOfOne
    <3> QED BY <3>1, <3>2 DEF Comments!BlockEnd
  <2>3. input[p] \notin Quotes /\ ~Comments!Opens(input, p, Comments!Slash) /\ Comments!Opens(input, p, Comments!Star)
    BY <2>1 DEF Quotes, Comments!Slash, Comments!Star, Comments!Opens
  <2>4. Comments!PieceAt(input, p) = Comments!Piece(<<>>, Comments!BlockEnd(input, p) + 1)
    BY <2>3, PieceAtIs
  <2>5. Comments!PieceAt(input, p) = Comments!Piece(<<>>, n + 1) /\ <<>> \in Text /\ kept \o <<>> = kept
    BY <1>3, <2>2, <2>4 DEF Text
  <2>6. Comments!Strip(input) = kept \o <<>>
    BY <1>1, <1>3, <2>1, <2>5, LeadsToLast
  <2> QED BY <2>1, <2>5, <2>6
<1> QED BY <1>2, <1>4, <1>5, <1>6, <1>7 DEF Begun, InSlash

LEMMA CuttingShows == ASSUME Cutting PROVE Comments!CutsComments
BY CuttingCuts DEF Comments!CutsComments, Excluded

THEOREM Cuts == Comments!Spec => []Cutting
<1>1. Comments!Init => Cutting
  BY BeginsCutting
<1>2. Cutting /\ [Comments!Next]_(Comments!vars) => Cutting'
  BY KeepsCutting
<1> QED BY <1>1, <1>2, PTL DEF Comments!Spec

(* In MoreTools, what runs as cutcom is Comments, and the others never become it. *)
LEMMA CommentsAlone ==
  /\ MoreSpec /\ which = "cutcom" => Comments!Spec
  /\ MoreSpec /\ ~(which = "cutcom") => []~(which = "cutcom")
<1>1. MoreInit /\ which = "cutcom" => Comments!Init
  BY DEF MoreInit
<1>2. which = "cutcom" /\ [MoreNext]_ofMore => (which = "cutcom")' /\ [Comments!Next]_(Comments!vars)
  BY DEF MoreNext, ofMore, ofComments, Comments!vars
<1>3. ~(which = "cutcom") /\ [MoreNext]_ofMore => ~(which = "cutcom")'
  BY DEF MoreNext, ofMore
<1> QED BY <1>1, <1>2, <1>3, PTL DEF MoreSpec, Comments!Spec

(* What cutcom has printed is what C without its comments is, wherever the *)
(* input ends and however code, literals and comments take turns, but for  *)
(* what CutsComments excludes.                                             *)
THEOREM CutsItsComments == MoreSpec => []CutsComments
<1>1. Cutting => Comments!CutsComments
  BY CuttingShows
<1> QED BY <1>1, Cuts, CommentsAlone, PTL DEF CutsComments
=============================================================================
