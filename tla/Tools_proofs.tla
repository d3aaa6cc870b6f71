---------------------------- MODULE Tools_proofs ----------------------------
(***************************************************************************)
(* What is proved about the small programs, for every value of their       *)
(* constants.  They have nothing to do with each other: each has a part of *)
(* this module, with an inductive invariant of its own specification and   *)
(* the properties that follow from it, in Tools, too.                      *)
(***************************************************************************)
EXTENDS Tools, TLAPS, SequenceTheorems, WellFoundedInduction

-----------------------------------------------------------------------------
(* FvwmTransFocus.  known are the windows there are or were.               *)
known == live \cup gone

Told(type, w) == [type |-> type, window |-> w]
Changes == {i \in DOMAIN pipe : pipe[i].type = "M_FOCUS_CHANGE"}
Added(w) == {i \in DOMAIN pipe : pipe[i] = Told("M_ADD_WINDOW", w)}

FocusTypeOK ==
  /\ pipe \in Seq(Focus!Message)
  /\ prev \in Windows \cup {0} /\ focus \in Windows \cup {0}
  /\ DOMAIN opacity = Windows
  /\ live \subseteq Windows /\ gone \subseteq Windows

(* Nothing is told of a window that was not there.                         *)
OfKnown ==
  /\ prev \in known \cup {0} /\ focus \in known \cup {0}
  /\ \A i \in DOMAIN pipe : pipe[i].window \in known \cup {0}
  /\ \A w \in Windows \ known : opacity[w] = Focus!Opaque

(* A window is announced before anything else is told of it.               *)
AddedFirst ==
  \A w \in Windows : \A i \in Added(w) :
    prev # w /\ \A j \in 1..i - 1 : pipe[j].window # w

(* The last change of the focus that was told is to the focused window.    *)
ToldLast ==
  /\ Changes = {} => prev = focus
  /\ \A i \in Changes : (\A j \in Changes : j <= i) => pipe[i].window = focus

(* prev is the only window shown as the active one.  A window that has not *)
(* been announced is neither.                                              *)
PrevActive ==
  \A w \in live :
    /\ w \in Television => opacity[w] = Focus!Opaque
    /\ w \notin Television =>
         IF w = prev THEN opacity[w] = Focus!Shown(values[1])
         ELSE \/ Added(w) # {}
              \/ opacity[w] \in {Focus!Shown(values[2]), Focus!Shown(values[3])}

Focusing == FocusTypeOK /\ OfKnown /\ AddedFirst /\ ToldLast /\ PrevActive

-----------------------------------------------------------------------------
LEMMA TailOf ==
  ASSUME NEW S, NEW s \in Seq(S), s # <<>>
  PROVE  /\ Tail(s) \in Seq(S) /\ Head(s) = s[1] /\ s[1] \in S
         /\ Len(s) \in Nat /\ DOMAIN s = 1..Len(s) /\ 1 \in DOMAIN s
         /\ DOMAIN Tail(s) = 1..Len(s) - 1
         /\ \A i \in 1..Len(s) - 1 : Tail(s)[i] = s[i + 1]
OBVIOUS

LEMMA AppendOf ==
  ASSUME NEW S, NEW s \in Seq(S), NEW e \in S
  PROVE  /\ Append(s, e) \in Seq(S)
         /\ Len(s) \in Nat /\ DOMAIN s = 1..Len(s)
         /\ DOMAIN Append(s, e) = 1..Len(s) + 1
         /\ \A i \in 1..Len(s) : Append(s, e)[i] = s[i]
         /\ Append(s, e)[Len(s) + 1] = e
OBVIOUS

(* transSet changes the window it is given, if there is one that is no     *)
(* television.                                                             *)
LEMMA SetsOne ==
  ASSUME 0 \notin Windows, live \subseteq Windows,
         NEW property, DOMAIN property = Windows, NEW w \in Windows \cup {0}, NEW value
  PROVE  /\ DOMAIN Focus!transSet(property, w, value) = Windows
         /\ \A x \in Windows :
              Focus!transSet(property, w, value)[x] =
                IF x = w /\ x \in live \ Television THEN Focus!Shown(value) ELSE property[x]
BY DEF Focus!transSet, Focus!ignoreWindow, Focus!Shown

(* What reading a message does.                                            *)
LEMMA MessageRead ==
  ASSUME 0 \notin Windows, FocusTypeOK, Focus!ReadMessage
  PROVE  /\ pipe # <<>> /\ pipe' = Tail(pipe) /\ UNCHANGED <<values, focus, live, gone>>
         /\ pipe[1] \in Focus!Message /\ DOMAIN opacity' = Windows
         /\ \/ /\ pipe[1].type = "M_FOCUS_CHANGE" /\ prev' = pipe[1].window
               /\ \A x \in Windows : opacity'[x] =
                    IF prev' = prev \/ x \notin live \ Television THEN opacity[x]
                    ELSE IF x = prev' THEN Focus!Shown(values[1])
                    ELSE IF x = prev THEN Focus!Shown(values[2]) ELSE opacity[x]
            \/ /\ pipe[1].type = "M_ADD_WINDOW" /\ prev' = prev
               /\ \A x \in Windows : opacity'[x] =
                    IF x = pipe[1].window /\ x \in live \ Television
                    THEN Focus!Shown(values[3]) ELSE opacity[x]
<1> DEFINE m == pipe[1]
<1>1. /\ pipe # <<>> /\ pipe' = Tail(pipe) /\ UNCHANGED <<values, focus, live, gone>>
  BY DEF Focus!ReadMessage
<1>2. Head(pipe) = m /\ m \in Focus!Message
  BY <1>1, TailOf DEF FocusTypeOK
<1>3. m.window \in Windows \cup {0} /\ m.type \in {"M_FOCUS_CHANGE", "M_ADD_WINDOW"}
  BY <1>2 DEF Focus!Message
<1>4. live \subseteq Windows /\ DOMAIN opacity = Windows /\ prev \in Windows \cup {0}
  BY DEF FocusTypeOK
<1>5. CASE m.type = "M_FOCUS_CHANGE" /\ Focus!FocusChange(m.window)
  <2> HIDE DEF m
  <2>1. prev' = m.window
    BY <1>5 DEF Focus!FocusChange
  <2>2. CASE m.window = prev
    BY <1>1, <1>2, <1>4, <1>5, <2>1, <2>2 DEF Focus!FocusChange, m
  <2>3. CASE m.window # prev
    <3> DEFINE first == Focus!transSet(opacity, prev, values[2])
    <3>1. opacity' = Focus!transSet(first, m.window, values[1])
      BY <1>5, <2>3 DEF Focus!FocusChange
    <3>2. /\ DOMAIN first = Windows
          /\ \A x \in Windows : first[x] =
               IF x = prev /\ x \in live \ Television THEN Focus!Shown(values[2]) ELSE opacity[x]
      BY <1>4, SetsOne
    <3> HIDE DEF first
    <3>3. /\ DOMAIN opacity' = Windows
          /\ \A x \in Windows : opacity'[x] =
               IF x = m.window /\ x \in live \ Television THEN Focus!Shown(values[1]) ELSE first[x]
      BY <1>3, <1>4, <3>1, <3>2, SetsOne
    <3>4. \A x \in Windows : opacity'[x] =
            IF prev' = prev \/ x \notin live \ Television THEN opacity[x]
            ELSE IF x = prev' THEN Focus!Shown(values[1])
            ELSE IF x = prev THEN Focus!Shown(values[2]) ELSE opacity[x]
      BY <2>1, <2>3, <3>2, <3>3
    <3> QED BY <1>1, <1>2, <1>5, <2>1, <3>3, <3>4 DEF m
  <2> QED BY <2>2, <2>3
<1>6. CASE m.type = "M_ADD_WINDOW" /\ Focus!AddWindow(m.window)
  <2> HIDE DEF m
  <2>1. prev' = prev /\ opacity' = Focus!transSet(opacity, m.window, values[3])
    BY <1>6 DEF Focus!AddWindow
  <2>2. /\ DOMAIN opacity' = Windows
        /\ \A x \in Windows : opacity'[x] =
             IF x = m.window /\ x \in live \ Television THEN Focus!Shown(values[3]) ELSE opacity[x]
    BY <1>3, <1>4, <2>1, SetsOne
  <2> QED BY <1>1, <1>2, <1>6, <2>1, <2>2 DEF m
<1> QED BY <1>2, <1>5, <1>6 DEF Focus!ReadMessage

(* Reading the first message keeps the parts of the invariant.             *)
LEMMA FocusReads ==
  ASSUME 0 \notin Windows, Focusing, Focus!ReadMessage
  PROVE  Focusing'
<1> DEFINE n == Len(pipe)
           m == pipe[1]
<1>1. FocusTypeOK /\ OfKnown /\ AddedFirst /\ ToldLast /\ PrevActive
  BY DEF Focusing
<1>2. pipe # <<>> /\ pipe' = Tail(pipe) /\ UNCHANGED <<values, focus, live, gone>>
  BY <1>1, MessageRead
<1>3. /\ n \in Nat /\ DOMAIN pipe = 1..n /\ 1 \in DOMAIN pipe
      /\ DOMAIN pipe' = 1..n - 1
      /\ \A i \in 1..n - 1 : pipe'[i] = pipe[i + 1]
      /\ pipe' \in Seq(Focus!Message)
  BY <1>1, <1>2, TailOf DEF FocusTypeOK
<1>4. m \in Focus!Message /\ DOMAIN opacity' = Windows
  BY <1>1, MessageRead
<1>5. m.window \in Windows \cup {0}
  BY <1>4 DEF Focus!Message
<1>6. prev' \in {prev, m.window}
  BY <1>1, MessageRead
<1>7. \A x \in Windows \ live : opacity'[x] = opacity[x]
  BY <1>1, MessageRead
<1>8. \A x \in Windows : x \in Television => opacity'[x] = opacity[x]
  BY <1>1, MessageRead
<1>9. FocusTypeOK'
  BY <1>1, <1>2, <1>3, <1>4, <1>5, <1>6 DEF FocusTypeOK
<1>10. OfKnown'
  <2>1. known' = known /\ live \subseteq known
    BY <1>2 DEF known
  <2>2. m.window \in known \cup {0}
    BY <1>1, <1>3 DEF OfKnown
  <2>3. \A i \in DOMAIN pipe' : pipe'[i].window \in known \cup {0}
    BY <1>1, <1>3 DEF OfKnown
  <2> QED BY <1>1, <1>2, <1>6, <1>7, <2>1, <2>2, <2>3 DEF OfKnown
<1>11. \A w : \A i \in Added(w)' : i \in 1..n - 1 /\ i + 1 \in Added(w)
  BY <1>3 DEF Added, Told
<1>12. AddedFirst'
  <2> SUFFICES ASSUME NEW w \in Windows, NEW i \in Added(w)', NEW j \in 1..i - 1
               PROVE  prev' # w /\ pipe'[j].window # w
    <3>1. ASSUME NEW w \in Windows, NEW i \in Added(w)'
          PROVE  prev' # w
      <4>1. prev # w /\ \A j \in 1..(i + 1) - 1 : pipe[j].window # w
        BY <1>1, <1>11, <3>1 DEF AddedFirst
      <4>2. 1 \in 1..(i + 1) - 1
        BY <1>3, <1>11, <3>1
      <4> QED BY <1>6, <4>1, <4>2
    <3> QED BY <3>1 DEF AddedFirst
  <2>1. prev # w /\ \A k \in 1..(i + 1) - 1 : pipe[k].window # w
    BY <1>1, <1>11 DEF AddedFirst
  <2>2. i \in 1..n - 1 /\ n \in Nat
    BY <1>3, <1>11
  <2>3. 1 \in 1..(i + 1) - 1 /\ j + 1 \in 1..(i + 1) - 1 /\ j \in 1..n - 1
    BY <2>2
  <2> QED BY <1>3, <1>6, <2>1, <2>3
<1>13. \A i : i \in Changes' <=> i \in 1..n - 1 /\ i + 1 \in Changes
  BY <1>3 DEF Changes
<1>14. \A j \in Changes : j \in 1..n /\ (j = 1 \/ j - 1 \in Changes')
  <2>1. \A j \in Changes : j \in 1..n
    BY <1>3 DEF Changes
  <2>2. \A j \in 1..n : j = 1 \/ (j - 1 \in 1..n - 1 /\ (j - 1) + 1 = j)
    BY <1>3
  <2> QED BY <1>13, <2>1, <2>2
<1>15. 1 \in Changes => prev' = m.window
  <2>1. 1 \in Changes => m.type = "M_FOCUS_CHANGE"
    BY DEF Changes
  <2> QED BY <1>1, <2>1, MessageRead
<1>16. 1 \notin Changes => prev' = prev
  <2>1. 1 \notin Changes => m.type # "M_FOCUS_CHANGE"
    BY <1>3 DEF Changes
  <2> QED BY <1>1, <2>1, MessageRead
<1>17. ToldLast'
  <2>1. ASSUME Changes' = {} PROVE prev' = focus'
    <3>1. \A j \in Changes : j = 1
      BY <1>14, <2>1
    <3>2. CASE 1 \in Changes
      <4>1. m.window = focus
        BY <1>1, <3>1, <3>2 DEF ToldLast
      <4> QED BY <1>2, <1>15, <3>2, <4>1
    <3>3. CASE 1 \notin Changes
      <4>1. Changes = {}
        BY <3>1, <3>3
      <4> QED BY <1>1, <1>2, <1>16, <3>3, <4>1 DEF ToldLast
    <3> QED BY <3>2, <3>3
  <2>2. ASSUME NEW i \in Changes', \A j \in Changes' : j <= i PROVE pipe'[i].window = focus'
    <3>1. i \in 1..n - 1 /\ i + 1 \in Changes /\ n \in Nat
      BY <1>3, <1>13
    <3>2. \A j \in Changes : j <= i + 1
      <4> SUFFICES ASSUME NEW j \in Changes PROVE j <= i + 1
        OBVIOUS
      <4>1. j \in 1..n /\ (j = 1 \/ j - 1 <= i)
        BY <1>14, <2>2
      <4> QED BY <3>1, <4>1
    <3>3. pipe[i + 1].window = focus
      BY <1>1, <3>1, <3>2 DEF ToldLast
    <3> QED BY <1>2, <1>3, <3>1, <3>3
  <2> QED BY <2>1, <2>2 DEF ToldLast
<1>18. ASSUME NEW w, Added(w) # {}, m # Told("M_ADD_WINDOW", w) PROVE Added(w)' # {}
  <2>1. PICK i \in 1..n : pipe[i] = Told("M_ADD_WINDOW", w)
    BY <1>3, <1>18 DEF Added
  <2>2. i # 1
    BY <1>18, <2>1
  <2>3. i - 1 \in 1..n - 1 /\ (i - 1) + 1 = i
    BY <1>3, <2>2
  <2>4. i - 1 \in DOMAIN pipe' /\ pipe'[i - 1] = Told("M_ADD_WINDOW", w)
    BY <1>3, <2>1, <2>3
  <2> QED BY <2>4 DEF Added, Told
<1>19. PrevActive'
  <2> SUFFICES ASSUME NEW w \in live'
               PROVE  /\ w \in Television => opacity'[w] = Focus!Opaque
                      /\ w \notin Television =>
                           IF w = prev' THEN opacity'[w] = Focus!Shown(values'[1])
                           ELSE \/ Added(w)' # {}
                                \/ opacity'[w] \in {Focus!Shown(values'[2]), Focus!Shown(values'[3])}
    BY DEF PrevActive, Focus!Opaque, Focus!Shown
  <2>1. w \in live /\ w \in Windows /\ values' = values
    BY <1>1, <1>2 DEF FocusTypeOK
  <2>2. w \in Television => opacity'[w] = Focus!Opaque
    BY <1>1, <1>8, <2>1 DEF PrevActive
  <2>3. ASSUME w \notin Television
        PROVE  IF w = prev' THEN opacity'[w] = Focus!Shown(values[1])
               ELSE \/ Added(w)' # {}
                    \/ opacity'[w] \in {Focus!Shown(values[2]), Focus!Shown(values[3])}
    <3>1. IF w = prev THEN opacity[w] = Focus!Shown(values[1])
          ELSE Added(w) # {} \/ opacity[w] \in {Focus!Shown(values[2]), Focus!Shown(values[3])}
      BY <1>1, <2>1, <2>3 DEF PrevActive
    <3>2. CASE m.type = "M_FOCUS_CHANGE"
      <4>1. opacity'[w] =
              IF prev' = prev \/ w \notin live \ Television THEN opacity[w]
              ELSE IF w = prev' THEN Focus!Shown(values[1])
              ELSE IF w = prev THEN Focus!Shown(values[2]) ELSE opacity[w]
        BY <1>1, <2>1, <3>2, MessageRead
      <4>2. m # Told("M_ADD_WINDOW", w)
        BY <3>2 DEF Told
      <4>3. Added(w) # {} => Added(w)' # {}
        BY <1>18, <4>2
      <4> QED BY <2>1, <2>3, <3>1, <4>1, <4>3
    <3>3. CASE m.type = "M_ADD_WINDOW"
      <4>1. prev' = prev
        BY <1>1, <3>3, MessageRead
      <4>2. opacity'[w] = IF w = m.window /\ w \in live \ Television
                          THEN Focus!Shown(values[3]) ELSE opacity[w]
        BY <1>1, <2>1, <3>3, MessageRead
      <4>3. CASE w = m.window
        <5>1. m = Told("M_ADD_WINDOW", w)
          BY <1>4, <3>3, <4>3 DEF Told, Focus!Message
        <5>2. 1 \in Added(w)
          BY <1>3, <5>1 DEF Added
        <5>3. w # prev
          BY <1>1, <2>1, <5>2 DEF AddedFirst
        <5> QED BY <2>1, <2>3, <4>1, <4>2, <4>3, <5>3
      <4>4. CASE w # m.window
        <5>1. m # Told("M_ADD_WINDOW", w)
          BY <4>4 DEF Told
        <5>2. Added(w) # {} => Added(w)' # {}
          BY <1>18, <5>1
        <5> QED BY <3>1, <4>1, <4>2, <4>4, <5>2
      <4> QED BY <4>3, <4>4
    <3> QED BY <1>1, <3>2, <3>3, MessageRead
  <2> QED BY <2>1, <2>2, <2>3
<1> QED BY <1>9, <1>10, <1>12, <1>17, <1>19 DEF Focusing

(* What FVWM appends leaves what is told already.                          *)
LEMMA MessageTold ==
  ASSUME FocusTypeOK, NEW type, NEW w, Told(type, w) \in Focus!Message, Focus!Tell(type, w)
  PROVE  /\ Len(pipe) \in Nat /\ DOMAIN pipe = 1..Len(pipe)
         /\ pipe' \in Seq(Focus!Message) /\ DOMAIN pipe' = 1..Len(pipe) + 1
         /\ \A i \in 1..Len(pipe) : pipe'[i] = pipe[i]
         /\ pipe'[Len(pipe) + 1] = Told(type, w)
<1>1. pipe' = Append(pipe, Told(type, w)) /\ pipe \in Seq(Focus!Message)
  BY DEF Focus!Tell, Told, FocusTypeOK
<1> QED BY <1>1, AppendOf

LEMMA FocusOpens ==
  ASSUME 0 \notin Windows, Focusing, NEW w \in Windows, Focus!WindowOpens(w)
  PROVE  Focusing'
<1> DEFINE n == Len(pipe)
<1>1. FocusTypeOK /\ OfKnown /\ AddedFirst /\ ToldLast /\ PrevActive
  BY DEF Focusing
<1>2. /\ w \notin known /\ live' = live \cup {w} /\ known' = known \cup {w}
      /\ UNCHANGED <<prev, values, opacity, focus, gone>>
  BY DEF Focus!WindowOpens, known
<1>3. Told("M_ADD_WINDOW", w) \in Focus!Message
  BY DEF Told, Focus!Message
<1>4. /\ n \in Nat /\ DOMAIN pipe = 1..n
      /\ pipe' \in Seq(Focus!Message) /\ DOMAIN pipe' = 1..n + 1
      /\ \A i \in 1..n : pipe'[i] = pipe[i]
      /\ pipe'[n + 1] = Told("M_ADD_WINDOW", w)
  BY <1>1, <1>3, MessageTold DEF Focus!WindowOpens
<1> HIDE DEF n
<1>5. \A i \in 1..n + 1 : i \in 1..n \/ i = n + 1
  BY <1>4
<1>6. 1..n \subseteq 1..n + 1 /\ n + 1 \in 1..n + 1
  BY <1>4
<1>7. FocusTypeOK'
  BY <1>1, <1>2, <1>4 DEF FocusTypeOK
<1>8. OfKnown'
  <2>1. \A i \in DOMAIN pipe' : pipe'[i].window \in known' \cup {0}
    BY <1>1, <1>2, <1>4, <1>5 DEF OfKnown, Told
  <2> QED BY <1>1, <1>2, <2>1 DEF OfKnown, Focus!Opaque
<1>9. AddedFirst'
  <2> SUFFICES ASSUME NEW x \in Windows, NEW i \in Added(x)'
               PROVE  prev # x /\ \A j \in 1..i - 1 : pipe'[j].window # x
    BY <1>2 DEF AddedFirst
  <2>1. i \in 1..n + 1 /\ pipe'[i] = Told("M_ADD_WINDOW", x)
    BY <1>4 DEF Added, Told
  <2>2. CASE i \in 1..n
    <3>1. i \in Added(x)
      BY <1>4, <2>1, <2>2 DEF Added, Told
    <3>2. prev # x /\ \A j \in 1..i - 1 : pipe[j].window # x
      BY <1>1, <3>1 DEF AddedFirst
    <3>3. 1..i - 1 \subseteq 1..n
      BY <1>4, <2>2
    <3> QED BY <1>4, <3>2, <3>3
  <2>3. CASE i = n + 1
    <3>1. x = w
      BY <1>4, <2>1, <2>3 DEF Told
    <3>2. 1..i - 1 = 1..n
      BY <1>4, <2>3
    <3> QED BY <1>1, <1>2, <1>4, <3>1, <3>2 DEF OfKnown
  <2> QED BY <1>5, <2>1, <2>2, <2>3
<1>10. ToldLast'
  <2>1. Changes' = Changes /\ Changes \subseteq 1..n
    BY <1>4, <1>5, <1>6 DEF Changes, Told
  <2> QED BY <1>1, <1>2, <1>4, <2>1 DEF ToldLast
<1>11. PrevActive'
  <2>1. w # prev /\ opacity[w] = Focus!Opaque
    BY <1>1, <1>2 DEF OfKnown
  <2>2. n + 1 \in Added(w)'
    BY <1>4, <1>6 DEF Added, Told
  <2>3. \A x : Added(x) # {} => Added(x)' # {}
    BY <1>4, <1>6 DEF Added, Told
  <2> QED BY <1>1, <1>2, <2>1, <2>2, <2>3 DEF PrevActive, Focus!Opaque, Focus!Shown
<1> QED BY <1>7, <1>8, <1>9, <1>10, <1>11 DEF Focusing

LEMMA FocusMoves ==
  ASSUME 0 \notin Windows, Focusing, NEW w \in Windows \cup {0}, Focus!Focus(w)
  PROVE  Focusing'
<1> DEFINE n == Len(pipe)
<1>1. FocusTypeOK /\ OfKnown /\ AddedFirst /\ ToldLast /\ PrevActive
  BY DEF Focusing
<1>2. /\ focus' = w /\ w \in known \cup {0} /\ known' = known
      /\ UNCHANGED <<prev, values, opacity, live, gone>>
  BY DEF Focus!Focus, known
<1>3. Told("M_FOCUS_CHANGE", w) \in Focus!Message
  BY DEF Told, Focus!Message
<1>4. /\ n \in Nat /\ DOMAIN pipe = 1..n
      /\ pipe' \in Seq(Focus!Message) /\ DOMAIN pipe' = 1..n + 1
      /\ \A i \in 1..n : pipe'[i] = pipe[i]
      /\ pipe'[n + 1] = Told("M_FOCUS_CHANGE", w)
  BY <1>1, <1>3, MessageTold DEF Focus!Focus
<1> HIDE DEF n
<1>5. \A i \in 1..n + 1 : i \in 1..n \/ i = n + 1
  BY <1>4
<1>6. 1..n \subseteq 1..n + 1 /\ n + 1 \in 1..n + 1
  BY <1>4
<1>7. FocusTypeOK'
  BY <1>1, <1>2, <1>4 DEF FocusTypeOK
<1>8. OfKnown'
  <2>1. \A i \in DOMAIN pipe' : pipe'[i].window \in known' \cup {0}
    BY <1>1, <1>2, <1>4, <1>5 DEF OfKnown, Told
  <2> QED BY <1>1, <1>2, <2>1 DEF OfKnown, Focus!Opaque
<1>9. \A x : Added(x)' = Added(x) /\ Added(x) \subseteq 1..n
  BY <1>4, <1>5, <1>6 DEF Added, Told
<1>10. AddedFirst'
  <2>1. \A i \in 1..n : 1..i - 1 \subseteq 1..n
    BY <1>4
  <2> QED BY <1>1, <1>2, <1>4, <1>9, <2>1 DEF AddedFirst
<1>11. ToldLast'
  <2>1. n + 1 \in Changes' /\ Changes' \subseteq 1..n + 1
    BY <1>4, <1>6 DEF Changes, Told
  <2>2. \A i \in 1..n + 1 : n + 1 <= i => i = n + 1
    BY <1>4
  <2>3. ASSUME NEW i \in Changes', \A j \in Changes' : j <= i PROVE pipe'[i].window = focus'
    BY <1>2, <1>4, <2>1, <2>2, <2>3 DEF Told
  <2> QED BY <2>1, <2>3 DEF ToldLast
<1>12. PrevActive'
  BY <1>1, <1>2, <1>9 DEF PrevActive, Focus!Opaque, Focus!Shown
<1> QED BY <1>7, <1>8, <1>10, <1>11, <1>12 DEF Focusing

LEMMA FocusCloses ==
  ASSUME Focusing, NEW w \in Windows, Focus!WindowCloses(w)
  PROVE  Focusing'
<1>1. FocusTypeOK /\ OfKnown /\ AddedFirst /\ ToldLast /\ PrevActive
  BY DEF Focusing
<1>2. /\ live' = live \ {w} /\ gone' = gone \cup {w} /\ known' = known
      /\ UNCHANGED <<pipe, prev, values, opacity, focus>>
  BY DEF Focus!WindowCloses, known
<1>3. FocusTypeOK' /\ AddedFirst' /\ ToldLast'
  BY <1>1, <1>2 DEF FocusTypeOK, AddedFirst, Added, Told, ToldLast, Changes
<1>4. OfKnown'
  BY <1>1, <1>2 DEF OfKnown, Focus!Opaque
<1>5. \A x : Added(x)' = Added(x)
  BY <1>2 DEF Added, Told
<1>6. PrevActive'
  BY <1>1, <1>2, <1>5 DEF PrevActive, Focus!Opaque, Focus!Shown
<1> QED BY <1>3, <1>4, <1>6 DEF Focusing

(* The inductive invariant of FvwmTransFocus: what waits in the pipe leads *)
(* from the window shown as the active one to the focused one.             *)
THEOREM FollowsPipe == Focus!Spec => []Focusing
<1>1. Focus!Init => Focusing
  BY DEF Focus!Init, Focusing, FocusTypeOK, OfKnown, known, AddedFirst, Added, ToldLast, Changes, PrevActive
<1>2. Focusing /\ [Focus!Next]_Focus!vars => Focusing'
  <2> SUFFICES ASSUME Focusing, [Focus!Next]_Focus!vars PROVE Focusing'
    OBVIOUS
  <2>1. CASE UNCHANGED Focus!vars
    BY <2>1 DEF Focus!vars, Focusing, FocusTypeOK, OfKnown, known, AddedFirst, Added, Told, ToldLast,
                Changes, PrevActive, Focus!Opaque, Focus!Shown
  <2> QED BY <2>1, NoneAssumption, FocusReads, FocusOpens, FocusMoves, FocusCloses DEF Focus!Next
<1> QED BY <1>1, <1>2, PTL DEF Focus!Spec

(* In Tools, what runs as focus is Focus, and the others never become it. *)
LEMMA FocusAlone ==
  /\ Spec /\ tool = "focus" => Focus!Spec
  /\ Spec /\ ~(tool = "focus") => []~(tool = "focus")
<1>1. Init /\ tool = "focus" => Focus!Init
  BY DEF Init
<1>2. tool = "focus" /\ [Next]_ofTools => (tool = "focus")' /\ [Focus!Next]_Focus!vars
  BY DEF Next, ofTools, ofFocus, Focus!vars
<1>3. ~(tool = "focus") /\ [Next]_ofTools => ~(tool = "focus")'
  BY DEF Next, ofTools
<1> QED BY <1>1, <1>2, <1>3, PTL DEF Spec, Focus!Spec

(* When FvwmTransFocus has read everything, the focused window is the      *)
(* active one and no other is, for any windows, opacities and pipe.        *)
THEOREM ActiveOnly == Spec => []OnlyFocusedActive
<1>1. Focusing => Focus!OnlyFocusedActive
  BY DEF Focusing, FocusTypeOK, ToldLast, Changes, PrevActive, Added, Focus!OnlyFocusedActive
<1> QED BY <1>1, FollowsPipe, FocusAlone, PTL DEF OnlyFocusedActive

-----------------------------------------------------------------------------
(* null.  Behind are the steps of a process that has forked, or is over;   *)
(* Works those of the process that is to be the command.                   *)
Behind == {"parent", "waiting", "exited"}
Works  == {"output", "exec", "command"}
Steps  == {"none", "fork", "chdir", "setsid", "fork2", "input"} \cup Behind \cup Works
Files  == [Null!File -> {"user", "closed", "null"}]

NullTypeOK ==
  /\ mode \in {"n", "b", "B", "d", "D"} /\ given \in Files
  /\ pc \in [Null!Process -> Steps]
  /\ DOMAIN status = Null!Process /\ DOMAIN alarm = Null!Process
  /\ DOMAIN session = Null!Process /\ DOMAIN cwd = Null!Process
  /\ file \in [Null!Process -> Files]

(* Which processes there are, and how far each has got.                    *)
Lineage ==
  /\ pc[1] \in {"fork"} \cup Behind \cup (IF mode = "n" THEN {"chdir"} \cup Works ELSE {})
  /\ pc[2] \in {"none"} \cup
       (IF mode = "n" THEN {}
        ELSE IF Null!Daemonizes THEN {"chdir", "setsid", "fork2"} \cup Behind
        ELSE {"chdir", "exited"} \cup Works)
  /\ pc[3] \in {"none"} \cup (IF Null!Daemonizes THEN {"input", "exited"} \cup Works ELSE {})
  /\ \A p \in 1..2 :
       /\ pc[p + 1] # "none" => pc[p] \in Behind
       /\ pc[p] \in {"parent", "waiting"} => pc[p + 1] # "none"

(* What the process in hand has, from its start to the command.            *)
Has(p) ==
  /\ pc[p] \in {"fork", "chdir", "setsid", "fork2", "input"} => file[p] = given
  /\ pc[p] \in {"fork", "chdir"} => cwd[p] = "start"
  /\ pc[p] \in {"setsid", "fork2", "input"} \cup Works => cwd[p] = IF dir = "kept" THEN "start" ELSE dir
  /\ pc[p] \in {"fork", "chdir", "setsid"} => session[p] = 0
  /\ pc[p] = "fork2" => session[p] = p
  /\ pc[p] = "input" => session[p] = p - 1
  /\ pc[p] \in Works =>
       IF Null!Daemonizes THEN file[p][0] = "null" /\ file[p][3] = "closed" /\ session[p] = p - 1
                          ELSE file[p][0] = given[0] /\ file[p][3] = given[3] /\ session[p] = 0
  /\ pc[p] \in {"exec", "command"} => file[p][1] = "null" /\ file[p][2] = "null"

(* A parent that is over has the status of its child, or did not wait for  *)
(* it, or not long enough.                                                 *)
Passes(p) ==
  pc[p] = "exited" /\ pc[p + 1] # "none" =>
    /\ status[p] # 0 => pc[p + 1] = "exited" /\ status[p] = Null!PassedOn(status[p + 1])
    /\ status[p] = 0 => \/ ~waits \/ alarm[p] = "over"
                        \/ pc[p + 1] = "exited" /\ status[p + 1] = 0

Daemonizing ==
  NullTypeOK /\ Lineage /\ (\A p \in Null!Process : Has(p)) /\ \A p \in 1..2 : Passes(p)

-----------------------------------------------------------------------------
(* What a step of process p that is no fork leaves alone, and where it     *)
(* goes.                                                                   *)
Others(p) ==
  /\ UNCHANGED <<mode, dir, waits, given>>
  /\ \A q \in Null!Process \ {p} :
       /\ pc'[q] = pc[q] /\ status'[q] = status[q] /\ alarm'[q] = alarm[q]
       /\ file'[q] = file[q] /\ session'[q] = session[q] /\ cwd'[q] = cwd[q]

Goes(p) ==
  \/ pc[p] \in {"fork", "chdir", "setsid", "fork2", "input", "parent", "waiting"} \cup Works /\ pc'[p] = "exited"
  \/ p = 1 /\ mode = "n" /\ pc[p] = "fork" /\ pc'[p] = "chdir"
  \/ pc[p] = "chdir" /\ pc'[p] = IF Null!Daemonizes THEN "setsid" ELSE "output"
  \/ pc[p] = "setsid" /\ pc'[p] = "fork2"
  \/ pc[p] = "input" /\ pc'[p] = "output"
  \/ pc[p] = "output" /\ pc'[p] = "exec"
  \/ pc[p] = "exec" /\ pc'[p] = "command"
  \/ pc[p] \in {"parent", "waiting"} /\ pc'[p] = "waiting"

(* How a process that waits ends.                                          *)
Left(p) ==
  pc[p] \in Behind /\ pc'[p] = "exited" =>
    /\ status'[p] # 0 => pc[p + 1] = "exited" /\ status'[p] = Null!PassedOn(status[p + 1])
    /\ status'[p] = 0 => \/ ~waits \/ alarm'[p] = "over"
                         \/ pc[p + 1] = "exited" /\ status[p + 1] = 0

Moves(p) == NullTypeOK' /\ Others(p) /\ Goes(p) /\ Left(p) /\ Has(p)'

LEMMA Going ==
  ASSUME NullTypeOK, NEW p \in Null!Process, NEW step \in Steps, Null!Go(p, step)
  PROVE  /\ pc' \in [Null!Process -> Steps] /\ pc'[p] = step
         /\ \A q \in Null!Process \ {p} : pc'[q] = pc[q]
         /\ status' = status
BY DEF NullTypeOK, Null!Go

LEMMA Exiting ==
  ASSUME NullTypeOK, NEW p \in Null!Process, NEW code, Null!Exit(p, code)
  PROVE  /\ pc' \in [Null!Process -> Steps] /\ pc'[p] = "exited"
         /\ \A q \in Null!Process \ {p} : pc'[q] = pc[q] /\ status'[q] = status[q]
         /\ DOMAIN status' = Null!Process /\ status'[p] = code
BY DEF NullTypeOK, Null!Exit, Steps, Behind

(* A process that fails ends there.                                        *)
LEMMA Dying ==
  ASSUME NullTypeOK, NEW p \in Null!Process, Null!Die(p), UNCHANGED <<mode, dir, waits, given, alarm>>,
         pc[p] \in {"fork", "chdir", "setsid", "fork2", "input"} \cup Works
  PROVE  Moves(p)
<1>1. /\ pc' \in [Null!Process -> Steps] /\ pc'[p] = "exited"
      /\ \A q \in Null!Process \ {p} : pc'[q] = pc[q] /\ status'[q] = status[q]
      /\ DOMAIN status' = Null!Process
  BY Exiting DEF Null!Die
<1>2. UNCHANGED <<file, session, cwd>>
  BY DEF Null!Die
<1>3. NullTypeOK'
  BY <1>1, <1>2 DEF NullTypeOK
<1>4. Others(p)
  BY <1>1, <1>2 DEF Others
<1>5. Goes(p) /\ Left(p)
  BY <1>1 DEF Goes, Left, Behind, Works
<1>6. Has(p)'
  BY <1>1 DEF Has, Works
<1> QED BY <1>3, <1>4, <1>5, <1>6 DEF Moves

(* close() and open() of one file: what takes its place.                   *)
LEMMA InputReplaced ==
  ASSUME NEW files \in Files
  PROVE  Null!Replaced(files, 0) = [files EXCEPT ![0] = "null"]
<1> DEFINE closed == [files EXCEPT ![0] = "closed"]
           free   == {n \in Null!File : closed[n] = "closed"}
<1>1. 0 \in free /\ \A n \in free : n \in Int /\ 0 <= n
  BY DEF Files, Null!File
<1>2. Null!Min(free) = 0
  <2> HIDE DEF free
  <2>1. \A x \in free : (\A y \in free : x <= y) => x = 0
    BY <1>1
  <2> QED BY <1>1, <2>1 DEF Null!Min
<1>3. Null!Replaced(files, 0) = [closed EXCEPT ![0] = "null"]
  BY <1>2 DEF Null!Replaced
<1> QED BY <1>3 DEF Files, Null!File

LEMMA OutputReplaced ==
  ASSUME NEW files \in Files, Null!Replaced(files, 1)[1] # "closed"
  PROVE  Null!Replaced(files, 1) = [files EXCEPT ![1] = "null"]
<1> DEFINE closed == [files EXCEPT ![1] = "closed"]
           free   == {n \in Null!File : closed[n] = "closed"}
<1>1. Null!Replaced(files, 1) = [closed EXCEPT ![Null!Min(free)] = "null"]
  BY DEF Null!Replaced
<1>2. Null!Min(free) = 1
  <2> HIDE DEF free
  <2> QED BY <1>1 DEF Files, Null!File
<1> HIDE DEF free
<1> QED BY <1>1, <1>2 DEF Files, Null!File

LEMMA NullStays ==
  ASSUME NullTypeOK, Has(1), Null!Stays
  PROVE  Moves(1)
<1>1. 1 \in Null!Process /\ "chdir" \in Steps
  BY DEF Null!Process, Steps
<1>2. pc[1] = "fork" /\ mode = "n" /\ Null!Go(1, "chdir")
      /\ UNCHANGED <<mode, dir, waits, given, file, session, cwd, alarm>>
  BY DEF Null!Stays, Null!Background, Null!asked
<1>3. /\ pc' \in [Null!Process -> Steps] /\ pc'[1] = "chdir" /\ status' = status
      /\ \A q \in Null!Process \ {1} : pc'[q] = pc[q]
  BY <1>1, <1>2, Going
<1>4. NullTypeOK' /\ Others(1)
  BY <1>2, <1>3 DEF NullTypeOK, Others
<1>5. Goes(1) /\ Left(1)
  BY <1>2, <1>3 DEF Goes, Left
<1>6. Has(1)'
  BY <1>2, <1>3 DEF Has, Works
<1> QED BY <1>4, <1>5, <1>6 DEF Moves

LEMMA NullChdir ==
  ASSUME NullTypeOK, NEW p \in Null!Process, Has(p), Null!Chdir(p)
  PROVE  Moves(p)
<1>1. pc[p] = "chdir" /\ UNCHANGED <<mode, dir, waits, given, alarm>>
  BY DEF Null!Chdir, Null!asked
<1>2. CASE Null!Die(p)
  BY <1>1, <1>2, Dying
<1>3. CASE ~Null!Die(p)
  <2> DEFINE step == IF Null!Daemonizes THEN "setsid" ELSE "output"
  <2>1. /\ cwd' = (IF dir = "kept" THEN cwd ELSE [cwd EXCEPT ![p] = dir])
        /\ Null!Go(p, step) /\ UNCHANGED <<file, session>>
    BY <1>3 DEF Null!Chdir
  <2>2. step \in Steps
    BY DEF Steps, Works
  <2>3. /\ pc' \in [Null!Process -> Steps] /\ pc'[p] = step /\ status' = status
        /\ \A q \in Null!Process \ {p} : pc'[q] = pc[q]
    BY <2>1, <2>2, Going
  <2>4. /\ DOMAIN cwd' = Null!Process /\ cwd'[p] = IF dir = "kept" THEN cwd[p] ELSE dir
        /\ \A q \in Null!Process \ {p} : cwd'[q] = cwd[q]
    BY <2>1 DEF NullTypeOK
  <2>5. NullTypeOK' /\ Others(p)
    BY <1>1, <2>1, <2>3, <2>4 DEF NullTypeOK, Others
  <2>6. Goes(p) /\ Left(p)
    BY <1>1, <2>3 DEF Goes, Left
  <2>7. Null!Daemonizes' = Null!Daemonizes
    BY <1>1 DEF Null!Daemonizes
  <2>8. Has(p)'
    BY <1>1, <2>1, <2>3, <2>4, <2>7 DEF Has, Works
  <2> QED BY <2>5, <2>6, <2>8 DEF Moves
<1> QED BY <1>2, <1>3

LEMMA NullSetsid ==
  ASSUME NullTypeOK, NEW p \in Null!Process, Has(p), Null!Setsid(p)
  PROVE  Moves(p)
<1>1. pc[p] = "setsid" /\ Null!Go(p, "fork2") /\ session' = [session EXCEPT ![p] = p]
      /\ UNCHANGED <<mode, dir, waits, given, file, cwd, alarm>>
  BY DEF Null!Setsid, Null!asked
<1>2. /\ pc' \in [Null!Process -> Steps] /\ pc'[p] = "fork2" /\ status' = status
      /\ \A q \in Null!Process \ {p} : pc'[q] = pc[q]
  BY <1>1, Going DEF Steps
<1>3. DOMAIN session' = Null!Process /\ session'[p] = p
      /\ \A q \in Null!Process \ {p} : session'[q] = session[q]
  BY <1>1 DEF NullTypeOK
<1>4. NullTypeOK' /\ Others(p)
  BY <1>1, <1>2, <1>3 DEF NullTypeOK, Others
<1>5. Goes(p) /\ Left(p)
  BY <1>1, <1>2 DEF Goes, Left
<1>6. Has(p)'
  BY <1>1, <1>2, <1>3 DEF Has, Works
<1> QED BY <1>4, <1>5, <1>6 DEF Moves

LEMMA NullInput ==
  ASSUME NullTypeOK, Null!Daemonizes, NEW p \in Null!Process, Has(p), Null!Input(p)
  PROVE  Moves(p)
<1>1. pc[p] = "input" /\ UNCHANGED <<mode, dir, waits, given, alarm>>
  BY DEF Null!Input, Null!asked
<1>2. CASE Null!Die(p)
  BY <1>1, <1>2, Dying
<1>3. CASE ~Null!Die(p)
  <2> DEFINE became == [Null!Replaced(file[p], 0) EXCEPT ![3] = "closed"]
  <2>1. /\ file' = [file EXCEPT ![p] = became]
        /\ Null!Go(p, "output") /\ UNCHANGED <<session, cwd>>
    BY <1>3 DEF Null!Input
  <2>2. /\ pc' \in [Null!Process -> Steps] /\ pc'[p] = "output" /\ status' = status
        /\ \A q \in Null!Process \ {p} : pc'[q] = pc[q]
    BY <2>1, Going DEF Steps, Works
  <2>3. file[p] \in Files
    BY DEF NullTypeOK
  <2>4. became = [[file[p] EXCEPT ![0] = "null"] EXCEPT ![3] = "closed"]
    BY <2>3, InputReplaced
  <2> HIDE DEF became
  <2>5. became \in Files /\ became[0] = "null" /\ became[3] = "closed"
    <3>1. [file[p] EXCEPT ![0] = "null"] \in Files /\ [file[p] EXCEPT ![0] = "null"][0] = "null"
      BY <2>3 DEF Files, Null!File
    <3> QED BY <2>4, <3>1 DEF Files, Null!File
  <2>6. /\ file' \in [Null!Process -> Files] /\ file'[p] = became
        /\ \A q \in Null!Process \ {p} : file'[q] = file[q]
    BY <2>1, <2>5 DEF NullTypeOK
  <2>7. NullTypeOK' /\ Others(p)
    BY <1>1, <2>1, <2>2, <2>6 DEF NullTypeOK, Others
  <2>8. Goes(p) /\ Left(p)
    BY <1>1, <2>2 DEF Goes, Left
  <2>9. Null!Daemonizes'
    BY <1>1 DEF Null!Daemonizes
  <2>10. Has(p)'
    BY <1>1, <2>1, <2>2, <2>5, <2>6, <2>9 DEF Has, Works
  <2> QED BY <2>7, <2>8, <2>10 DEF Moves
<1> QED BY <1>2, <1>3

LEMMA NullOutput ==
  ASSUME NullTypeOK, NEW p \in Null!Process, Has(p), Null!Output(p)
  PROVE  Moves(p)
<1>1. pc[p] = "output" /\ UNCHANGED <<mode, dir, waits, given, alarm>>
  BY DEF Null!Output, Null!asked
<1>2. CASE Null!Die(p)
  BY <1>1, <1>2, Dying DEF Works
<1>3. CASE ~Null!Die(p)
  <2> DEFINE became == Null!Duplicated(Null!Replaced(file[p], 1))
  <2>1. /\ file' = [file EXCEPT ![p] = became] /\ Null!Replaced(file[p], 1)[1] # "closed"
        /\ Null!Go(p, "exec") /\ UNCHANGED <<session, cwd>>
    BY <1>3 DEF Null!Output
  <2>2. /\ pc' \in [Null!Process -> Steps] /\ pc'[p] = "exec" /\ status' = status
        /\ \A q \in Null!Process \ {p} : pc'[q] = pc[q]
    BY <2>1, Going DEF Steps, Works
  <2>3. file[p] \in Files
    BY DEF NullTypeOK
  <2>4. Null!Replaced(file[p], 1) = [file[p] EXCEPT ![1] = "null"]
    BY <2>1, <2>3, OutputReplaced
  <2>5. became = [[file[p] EXCEPT ![1] = "null"] EXCEPT ![2] = "null"]
    BY <2>3, <2>4 DEF Null!Duplicated, Files, Null!File
  <2>6. /\ became \in Files /\ became[1] = "null" /\ became[2] = "null"
        /\ became[0] = file[p][0] /\ became[3] = file[p][3]
    BY <2>3, <2>5 DEF Files, Null!File
  <2> HIDE DEF became
  <2>7. /\ file' \in [Null!Process -> Files] /\ file'[p] = became
        /\ \A q \in Null!Process \ {p} : file'[q] = file[q]
    BY <2>1, <2>6 DEF NullTypeOK
  <2>8. NullTypeOK' /\ Others(p)
    BY <1>1, <2>1, <2>2, <2>7 DEF NullTypeOK, Others
  <2>9. Goes(p) /\ Left(p)
    BY <1>1, <2>2 DEF Goes, Left
  <2>10. Null!Daemonizes' = Null!Daemonizes
    BY <1>1 DEF Null!Daemonizes
  <2>11. Has(p)'
    BY <1>1, <2>1, <2>2, <2>6, <2>7, <2>10 DEF Has, Works
  <2> QED BY <2>8, <2>9, <2>11 DEF Moves
<1> QED BY <1>2, <1>3

LEMMA NullExec ==
  ASSUME NullTypeOK, NEW p \in Null!Process, Has(p), Null!Exec(p) \/ Null!CommandEnds(p)
  PROVE  Moves(p)
<1>1. pc[p] \in {"exec", "command"} /\ UNCHANGED <<mode, dir, waits, given, file, session, cwd, alarm>>
  BY DEF Null!Exec, Null!CommandEnds, Null!asked
<1>2. CASE pc[p] = "exec" /\ Null!Go(p, "command")
  <2>1. /\ pc' \in [Null!Process -> Steps] /\ pc'[p] = "command" /\ status' = status
        /\ \A q \in Null!Process \ {p} : pc'[q] = pc[q]
    BY <1>2, Going DEF Steps, Works
  <2>2. NullTypeOK' /\ Others(p)
    BY <1>1, <2>1 DEF NullTypeOK, Others
  <2>3. Goes(p) /\ Left(p)
    BY <1>2, <2>1 DEF Goes, Left
  <2>4. Null!Daemonizes' = Null!Daemonizes
    BY <1>1 DEF Null!Daemonizes
  <2>5. Has(p)'
    BY <1>1, <1>2, <2>1, <2>4 DEF Has, Works
  <2> QED BY <2>2, <2>3, <2>5 DEF Moves
<1>3. ASSUME NEW code, Null!Exit(p, code) PROVE Moves(p)
  <2>1. /\ pc' \in [Null!Process -> Steps] /\ pc'[p] = "exited"
        /\ \A q \in Null!Process \ {p} : pc'[q] = pc[q] /\ status'[q] = status[q]
        /\ DOMAIN status' = Null!Process
    BY <1>3, Exiting
  <2>2. NullTypeOK' /\ Others(p)
    BY <1>1, <2>1 DEF NullTypeOK, Others
  <2>3. Goes(p) /\ Left(p)
    BY <1>1, <2>1 DEF Goes, Left, Behind, Works
  <2>4. Has(p)'
    BY <2>1 DEF Has, Works
  <2> QED BY <2>2, <2>3, <2>4 DEF Moves
<1> QED BY <1>2, <1>3 DEF Null!Exec, Null!CommandEnds

(* The parent: it exits at once, waits, or ends with its wait.             *)
LEMMA NullWaits ==
  ASSUME NullTypeOK, NEW p \in Null!Process,
         Null!WaitAndExit(p) \/ Null!MissesAlarm(p) \/ Null!ChildExited(p) \/ Null!SecondIsOver(p)
  PROVE  Moves(p)
<1>1. pc[p] \in {"parent", "waiting"} /\ UNCHANGED <<mode, dir, waits, given, file, session, cwd>>
  BY DEF Null!WaitAndExit, Null!MissesAlarm, Null!ChildExited, Null!SecondIsOver, Null!UnchangedWait, Null!asked
<1>2. /\ DOMAIN alarm' = Null!Process /\ \A q \in Null!Process \ {p} : alarm'[q] = alarm[q]
      /\ Null!SecondIsOver(p) => alarm'[p] = "over"
  BY DEF NullTypeOK, Null!WaitAndExit, Null!MissesAlarm, Null!ChildExited, Null!SecondIsOver, Null!Alarm
<1>3. CASE pc'[p] = "waiting" /\ UNCHANGED status /\ pc' \in [Null!Process -> Steps]
           /\ \A q \in Null!Process \ {p} : pc'[q] = pc[q]
  <2>1. NullTypeOK' /\ Others(p)
    BY <1>1, <1>2, <1>3 DEF NullTypeOK, Others
  <2>2. Goes(p) /\ Left(p)
    BY <1>1, <1>3 DEF Goes, Left
  <2>3. Has(p)'
    BY <1>3 DEF Has, Works
  <2> QED BY <2>1, <2>2, <2>3 DEF Moves
<1>4. ASSUME NEW code, Null!Exit(p, code),
             \/ code = 0 /\ (~waits \/ alarm'[p] = "over")
             \/ pc[p + 1] = "exited" /\ code = Null!PassedOn(status[p + 1])
      PROVE  Moves(p)
  <2>1. /\ pc' \in [Null!Process -> Steps] /\ pc'[p] = "exited"
        /\ \A q \in Null!Process \ {p} : pc'[q] = pc[q] /\ status'[q] = status[q]
        /\ DOMAIN status' = Null!Process /\ status'[p] = code
    BY <1>4, Exiting
  <2>2. NullTypeOK' /\ Others(p)
    BY <1>1, <1>2, <2>1 DEF NullTypeOK, Others
  <2>3. Goes(p)
    BY <1>1, <2>1 DEF Goes
  <2>4. code = Null!PassedOn(status[p + 1]) /\ code = 0 => status[p + 1] = 0
    BY DEF Null!PassedOn
  <2>5. Left(p)
    BY <1>4, <2>1, <2>4 DEF Left
  <2>6. Has(p)'
    BY <2>1 DEF Has, Works
  <2> QED BY <2>2, <2>3, <2>5, <2>6 DEF Moves
<1>5. "waiting" \in Steps
  BY DEF Steps, Behind
<1>6. CASE Null!WaitAndExit(p)
  <2>1. CASE waits
    <3>1. Null!Go(p, "waiting")
      BY <1>6, <2>1 DEF Null!WaitAndExit
    <3> QED BY <1>3, <1>5, <3>1, Going
  <2>2. CASE ~waits
    BY <1>4, <1>6, <2>2 DEF Null!WaitAndExit
  <2> QED BY <2>1, <2>2
<1>7. CASE Null!MissesAlarm(p)
  BY <1>3, <1>7 DEF Null!MissesAlarm, NullTypeOK
<1>8. CASE Null!ChildExited(p)
  BY <1>4, <1>8 DEF Null!ChildExited
<1>9. CASE Null!SecondIsOver(p)
  BY <1>2, <1>4, <1>9 DEF Null!SecondIsOver
<1> QED BY <1>6, <1>7, <1>8, <1>9

(* What a process has is its own.                                          *)
LEMMA HasFrame ==
  ASSUME NEW q, Has(q), UNCHANGED <<mode, dir, given>>,
         pc'[q] = pc[q], file'[q] = file[q], session'[q] = session[q], cwd'[q] = cwd[q]
  PROVE  Has(q)'
<1>1. Null!Daemonizes' = Null!Daemonizes
  BY DEF Null!Daemonizes
<1> QED BY <1>1 DEF Has, Works

LEMMA LineageMoves ==
  ASSUME Lineage, NEW p \in Null!Process, Others(p), Goes(p)
  PROVE  Lineage'
<1>1. Null!Daemonizes' = Null!Daemonizes /\ mode' = mode
  BY DEF Others, Null!Daemonizes
<1>2. \A q \in 1..3 : q # p => pc'[q] = pc[q]
  BY DEF Others, Null!Process
<1>3. mode = "n" => ~Null!Daemonizes
  BY DEF Null!Daemonizes
<1>4. CASE p = 1
  BY <1>1, <1>2, <1>3, <1>4 DEF Lineage, Goes, Behind, Works
<1>5. CASE p = 2
  BY <1>1, <1>2, <1>3, <1>5 DEF Lineage, Goes, Behind, Works
<1>6. CASE p = 3
  BY <1>1, <1>2, <1>3, <1>6 DEF Lineage, Goes, Behind, Works
<1> QED BY <1>4, <1>5, <1>6 DEF Null!Process

(* A process that goes on is not over, so the one before it was right to   *)
(* be over with 0 if it is; one that has forked ends as Left says.         *)
LEMMA PassesMoves ==
  ASSUME Lineage, \A q \in 1..2 : Passes(q), NEW p \in Null!Process, Others(p), Goes(p), Left(p)
  PROVE  \A q \in 1..2 : Passes(q)'
<1> SUFFICES ASSUME NEW q \in 1..2 PROVE Passes(q)'
  OBVIOUS
<1>1. q \in Null!Process /\ q + 1 \in Null!Process /\ q # q + 1
  BY DEF Null!Process
<1>2. pc[p] \notin {"none", "exited"} /\ waits' = waits
  BY DEF Goes, Others, Works
<1>3. CASE p = q
  <2>1. pc'[q + 1] = pc[q + 1] /\ status'[q + 1] = status[q + 1]
    BY <1>1, <1>3 DEF Others
  <2>2. pc[q + 1] # "none" => pc[q] \in Behind
    BY DEF Lineage
  <2> QED BY <1>2, <1>3, <2>1, <2>2 DEF Passes, Left, Null!PassedOn
<1>4. CASE p = q + 1
  <2>1. pc'[q] = pc[q] /\ status'[q] = status[q] /\ alarm'[q] = alarm[q]
    BY <1>1, <1>4 DEF Others
  <2>2. pc[q] = "exited" => status[q] = 0 /\ (~waits \/ alarm[q] = "over")
    BY <1>2, <1>4 DEF Passes
  <2> QED BY <1>2, <2>1, <2>2 DEF Passes
<1>5. CASE p # q /\ p # q + 1
  <2>1. /\ pc'[q] = pc[q] /\ status'[q] = status[q] /\ alarm'[q] = alarm[q]
        /\ pc'[q + 1] = pc[q + 1] /\ status'[q + 1] = status[q + 1]
    BY <1>1, <1>5 DEF Others
  <2> QED BY <1>2, <2>1 DEF Passes, Null!PassedOn
<1> QED BY <1>3, <1>4, <1>5

LEMMA NullMoves ==
  ASSUME Daemonizing, NEW p \in Null!Process, Moves(p)
  PROVE  Daemonizing'
<1>1. Lineage' /\ \A q \in 1..2 : Passes(q)'
  BY LineageMoves, PassesMoves DEF Daemonizing, Moves
<1>2. \A q \in Null!Process : Has(q)'
  <2> SUFFICES ASSUME NEW q \in Null!Process PROVE Has(q)'
    OBVIOUS
  <2>1. CASE q = p
    BY <2>1 DEF Moves
  <2>2. CASE q # p
    <3>1. Has(q) /\ UNCHANGED <<mode, dir, given>> /\ pc'[q] = pc[q] /\ file'[q] = file[q]
          /\ session'[q] = session[q] /\ cwd'[q] = cwd[q]
      BY <2>2 DEF Daemonizing, Moves, Others
    <3> QED BY <3>1, HasFrame
  <2> QED BY <2>1, <2>2
<1> QED BY <1>1, <1>2 DEF Daemonizing, Moves

(* A fork that works: the child begins with what its parent has.           *)
LEMMA NullForks ==
  ASSUME Daemonizing, NEW p \in Null!Process, Null!Forks(p)
  PROVE  Daemonizing'
<1>1. NullTypeOK /\ Lineage /\ (\A q \in Null!Process : Has(q)) /\ \A q \in 1..2 : Passes(q)
  BY DEF Daemonizing
<1>2. /\ pc[p] \in {"fork", "fork2"} /\ UNCHANGED <<mode, dir, waits, given, alarm>>
      /\ pc[p] = "fork" => mode # "n"
  BY DEF Null!Forks, Null!asked, Null!Background
<1>3. CASE Null!Die(p)
  <2>1. Moves(p)
    BY <1>1, <1>2, <1>3, Dying
  <2> QED BY <2>1, NullMoves
<1>4. CASE ~Null!Die(p)
  <2> DEFINE child == IF p = 1 THEN "chdir" ELSE "input"
  <2>1. /\ pc' = [pc EXCEPT ![p] = "parent", ![p + 1] = child]
        /\ file' = [file EXCEPT ![p + 1] = file[p]]
        /\ session' = [session EXCEPT ![p + 1] = session[p]]
        /\ cwd' = [cwd EXCEPT ![p + 1] = cwd[p]]
        /\ UNCHANGED status
    BY <1>4 DEF Null!Forks
  <2>2. /\ p \in 1..2 /\ p + 1 \in Null!Process /\ p # p + 1
        /\ pc[p] = "fork" => p = 1
        /\ pc[p] = "fork2" => p = 2
    <3>1. p \in 1..3
      BY DEF Null!Process
    <3>2. p # 3 /\ (pc[p] = "fork" => p = 1) /\ (pc[p] = "fork2" => p = 2)
      BY <1>1, <1>2, <3>1 DEF Lineage, Behind, Works
    <3> QED BY <3>1, <3>2 DEF Null!Process
  <2>3. "parent" \in Steps /\ child \in Steps
    BY DEF Steps, Behind
  <2>4. /\ pc' \in [Null!Process -> Steps] /\ pc'[p] = "parent" /\ pc'[p + 1] = child
        /\ \A q \in Null!Process : q # p /\ q # p + 1 => pc'[q] = pc[q]
    BY <1>1, <2>1, <2>2, <2>3 DEF NullTypeOK
  <2>5. /\ file' \in [Null!Process -> Files] /\ file'[p + 1] = file[p]
        /\ \A q \in Null!Process : q # p + 1 => file'[q] = file[q]
    BY <1>1, <2>1, <2>2 DEF NullTypeOK
  <2>6. /\ DOMAIN session' = Null!Process /\ session'[p + 1] = session[p]
        /\ DOMAIN cwd' = Null!Process /\ cwd'[p + 1] = cwd[p]
        /\ \A q \in Null!Process : q # p + 1 => session'[q] = session[q] /\ cwd'[q] = cwd[q]
    BY <1>1, <2>1, <2>2 DEF NullTypeOK
  <2>7. NullTypeOK'
    BY <1>1, <1>2, <2>1, <2>4, <2>5, <2>6 DEF NullTypeOK
  <2>8. Null!Daemonizes' = Null!Daemonizes
    BY <1>2 DEF Null!Daemonizes
  <2>9. CASE p = 1
    <3>1. pc[1] = "fork" /\ mode # "n" /\ pc[2] = "none" /\ pc[3] = "none"
      BY <1>1, <1>2, <2>2, <2>9 DEF Lineage, Behind
    <3>2. pc'[1] = "parent" /\ pc'[2] = "chdir" /\ pc'[3] = "none"
      BY <2>4, <2>9, <3>1 DEF Null!Process
    <3>3. Lineage'
      BY <1>2, <2>8, <3>1, <3>2 DEF Lineage, Behind, Works
    <3>4. (\A q \in 1..2 : Passes(q)')
      BY <3>2 DEF Passes
    <3>5. Has(1)' /\ Has(3)'
      BY <3>2 DEF Has, Works
    <3>6. Has(1) /\ file'[2] = file[1] /\ session'[2] = session[1] /\ cwd'[2] = cwd[1]
      BY <1>1, <2>5, <2>6, <2>9 DEF Null!Process
    <3>7. Has(2)'
      BY <1>2, <3>1, <3>2, <3>6 DEF Has, Works
    <3> QED BY <2>7, <3>3, <3>4, <3>5, <3>7 DEF Daemonizing, Null!Process
  <2>10. CASE p = 2
    <3>1. pc[2] = "fork2" /\ pc[1] \in Behind /\ pc[3] = "none" /\ Null!Daemonizes /\ mode # "n"
      BY <1>1, <1>2, <2>2, <2>10 DEF Lineage, Behind, Works, Null!Daemonizes
    <3>2. pc'[1] = pc[1] /\ pc'[2] = "parent" /\ pc'[3] = "input"
      BY <2>4, <2>10, <3>1 DEF Null!Process
    <3>3. Lineage'
      BY <1>2, <2>8, <3>1, <3>2 DEF Lineage, Behind, Works
    <3>4. Passes(1)' /\ Passes(2)'
      <4>1. Passes(1)
        BY <1>1
      <4> QED BY <1>2, <2>1, <3>1, <3>2, <4>1 DEF Passes
    <3>5. Has(1)' /\ Has(2)'
      <4>1. Has(2)'
        BY <3>2 DEF Has, Works
      <4>2. Has(1) /\ file'[1] = file[1] /\ session'[1] = session[1] /\ cwd'[1] = cwd[1]
        BY <1>1, <2>5, <2>6, <2>10 DEF Null!Process
      <4> QED BY <1>2, <3>2, <4>1, <4>2, HasFrame
    <3>6. Has(2) /\ file'[3] = file[2] /\ session'[3] = session[2] /\ cwd'[3] = cwd[2]
      BY <1>1, <2>5, <2>6, <2>10 DEF Null!Process
    <3>7. Has(3)'
      BY <1>2, <3>1, <3>2, <3>6 DEF Has, Works
    <3>8. \A q \in 1..2 : q = 1 \/ q = 2
      OBVIOUS
    <3> QED BY <2>7, <3>3, <3>4, <3>5, <3>7, <3>8 DEF Daemonizing, Null!Process
  <2> QED BY <2>2, <2>9, <2>10
<1> QED BY <1>3, <1>4

(* The inductive invariant of null: which processes there are, what each   *)
(* of them has, and what it passes on.                                     *)
THEOREM Forked == Null!Spec => []Daemonizing
<1>1. Null!Init => Daemonizing
  <2> SUFFICES ASSUME Null!Init PROVE Daemonizing
    OBVIOUS
  <2>1. pc[1] = "fork" /\ pc[2] = "none" /\ pc[3] = "none"
    BY DEF Null!Init, Null!Process
  <2>2. NullTypeOK
    BY DEF Null!Init, NullTypeOK, Files, Steps
  <2>3. Lineage /\ \A p \in 1..2 : Passes(p)
    BY <2>1 DEF Lineage, Passes, Behind
  <2>4. \A p \in Null!Process : Has(p)
    BY DEF Null!Init, Has, Works
  <2> QED BY <2>2, <2>3, <2>4 DEF Daemonizing
<1>2. Daemonizing /\ [Null!Next]_Null!vars => Daemonizing'
  <2> SUFFICES ASSUME Daemonizing, [Null!Next]_Null!vars PROVE Daemonizing'
    OBVIOUS
  <2>1. NullTypeOK /\ Lineage /\ \A p \in Null!Process : Has(p)
    BY DEF Daemonizing
  <2>2. CASE UNCHANGED Null!vars
    BY <2>2 DEF Null!vars, Null!asked, Daemonizing, NullTypeOK, Files, Steps, Lineage, Has, Passes,
                Behind, Works, Null!Daemonizes, Null!PassedOn
  <2>3. CASE Null!Stays
    <3>1. 1 \in Null!Process
      BY DEF Null!Process
    <3>2. Moves(1)
      BY <2>1, <2>3, <3>1, NullStays
    <3> QED BY <3>1, <3>2, NullMoves
  <2>4. ASSUME NEW p \in Null!Process, Null!Runs(p) PROVE Daemonizing'
    <3>1. ASSUME Null!Input(p) PROVE Null!Daemonizes
      <4>1. pc[p] = "input"
        BY <3>1 DEF Null!Input
      <4> QED BY <2>1, <4>1 DEF Lineage, Null!Process, Behind, Works
    <3>2. Moves(p)
      BY <2>1, <2>4, <3>1, NullChdir, NullSetsid, NullInput, NullOutput, NullExec DEF Null!Runs
    <3> QED BY <3>2, NullMoves
  <2>5. ASSUME NEW p \in Null!Process, Null!Waits(p) PROVE Daemonizing'
    <3>1. CASE Null!Forks(p)
      BY <3>1, NullForks
    <3>2. CASE ~Null!Forks(p)
      <4>1. Moves(p)
        BY <2>1, <2>5, <3>2, NullWaits DEF Null!Waits
      <4> QED BY <4>1, NullMoves
    <3> QED BY <3>1, <3>2
  <2> QED BY <2>2, <2>3, <2>4, <2>5 DEF Null!Next
<1> QED BY <1>1, <1>2, PTL DEF Null!Spec

(* In Tools, what runs as null is Null, and the others never become it. *)
LEMMA NullAlone ==
  /\ Spec /\ tool = "null" => Null!Spec
  /\ Spec /\ ~(tool = "null") => []~(tool = "null")
<1>1. Init /\ tool = "null" => Null!Init
  BY DEF Init
<1>2. tool = "null" /\ [Next]_ofTools => (tool = "null")' /\ [Null!Next]_Null!vars
  BY DEF Next, ofTools, ofNull, Null!vars, Null!asked
<1>3. ~(tool = "null") /\ [Next]_ofTools => ~(tool = "null")'
  BY DEF Next, ofTools
<1> QED BY <1>1, <1>2, <1>3, PTL DEF Spec, Null!Spec

(* Whatever files null was started with and whatever fails, a command that *)
(* is run has its output thrown away and is where it should be; as a       *)
(* daemon it has no input and cannot get a terminal.  It is run once.      *)
THEOREM RunsDetached == Spec => []CommandDetached
<1>1. Daemonizing => Null!CommandDetached
  <2> SUFFICES ASSUME Daemonizing, NEW p \in Null!Process, pc[p] = "command"
               PROVE  /\ file[p][1] = "null" /\ file[p][2] = "null"
                      /\ cwd[p] = IF dir = "kept" THEN "start" ELSE dir
                      /\ IF mode \in {"d", "D"}
                         THEN file[p][0] = "null" /\ file[p][3] = "closed" /\ session[p] \notin {0, p}
                         ELSE file[p][0] = given[0] /\ file[p][3] = given[3] /\ session[p] = 0
                      /\ \A q \in Null!Process \ {p} : pc[q] \in {"none", "parent", "waiting", "exited"}
    BY DEF Null!CommandDetached
  <2>1. Lineage /\ Has(p)
    BY DEF Daemonizing
  <2>2. /\ file[p][1] = "null" /\ file[p][2] = "null"
        /\ cwd[p] = IF dir = "kept" THEN "start" ELSE dir
        /\ IF mode \in {"d", "D"}
           THEN file[p][0] = "null" /\ file[p][3] = "closed" /\ session[p] = p - 1
           ELSE file[p][0] = given[0] /\ file[p][3] = given[3] /\ session[p] = 0
    BY <2>1 DEF Has, Works, Null!Daemonizes
  <2>3. mode \in {"d", "D"} => p = 3
    BY <2>1 DEF Lineage, Behind, Works, Null!Daemonizes, Null!Process
  <2>4. \A q \in Null!Process \ {p} : pc[q] \in {"none", "parent", "waiting", "exited"}
    BY <2>1 DEF Lineage, Behind, Works, Null!Daemonizes, Null!Process
  <2> QED BY <2>2, <2>3, <2>4
<1> QED BY <1>1, Forked, NullAlone, PTL DEF CommandDetached

LEMMA LastForked ==
  ASSUME Lineage, pc[2] # "none"
  PROVE  Null!Last = IF pc[3] # "none" THEN 3 ELSE 2
<1> DEFINE forked == {p \in Null!Process : pc[p] # "none"}
           last   == IF pc[3] # "none" THEN 3 ELSE 2
<1>1. last \in forked /\ \A p \in forked : p \in Int /\ last >= p
  BY DEF Null!Process
<1>2. Null!Max(forked) = last
  <2> HIDE DEF forked, last
  <2>1. last \in Int
    BY DEF last
  <2>2. \A x \in forked : (\A y \in forked : x >= y) => x = last
    BY <1>1, <2>1
  <2> QED BY <1>1, <2>2 DEF Null!Max
<1> QED BY <1>2 DEF Null!Last

(* What null exits with is how the command ended, through both parents,    *)
(* unless it was told not to wait or a second was over before the end.     *)
THEOREM PassesStatusOn == Spec => []StatusPassedOn
<1>1. Daemonizing => Null!StatusPassedOn
  <2> SUFFICES ASSUME Daemonizing, pc[1] = "exited", Null!Last > 1
               PROVE  /\ status[1] # 0 => /\ pc[Null!Last] = "exited"
                                          /\ status[1] = IF status[Null!Last] = -1 THEN 2 ELSE status[Null!Last]
                      /\ status[1] = 0 => \/ ~waits \/ \E p \in Null!Process : alarm[p] = "over"
                                          \/ pc[Null!Last] = "exited" /\ status[Null!Last] = 0
    BY DEF Null!StatusPassedOn
  <2>1. Lineage /\ Passes(1) /\ Passes(2)
    BY DEF Daemonizing
  <2>2. CASE pc[2] = "none"
    <3> DEFINE forked == {p \in Null!Process : pc[p] # "none"}
    <3>1. pc[3] = "none"
      BY <2>1, <2>2 DEF Lineage, Behind
    <3>2. forked = {1}
      BY <2>2, <3>1 DEF Null!Process
    <3>3. Null!Max({1}) = 1
      BY DEF Null!Max
    <3>4. Null!Last = 1
      BY <3>2, <3>3 DEF Null!Last
    <3> QED BY <3>4
  <2>3. CASE pc[2] # "none" /\ pc[3] = "none"
    <3>1. Null!Last = 2
      BY <2>1, <2>3, LastForked
    <3> QED BY <2>1, <2>3, <3>1 DEF Passes, Null!PassedOn, Null!Process
  <2>4. CASE pc[2] # "none" /\ pc[3] # "none"
    <3>1. Null!Last = 3
      BY <2>1, <2>4, LastForked
    <3>2. /\ status[1] # 0 => pc[2] = "exited" /\ status[1] = Null!PassedOn(status[2])
          /\ status[1] = 0 => \/ ~waits \/ alarm[1] = "over"
                              \/ pc[2] = "exited" /\ status[2] = 0
      BY <2>1, <2>4 DEF Passes
    <3>3. pc[2] = "exited" =>
            /\ status[2] # 0 => pc[3] = "exited" /\ status[2] = Null!PassedOn(status[3])
            /\ status[2] = 0 => \/ ~waits \/ alarm[2] = "over"
                                \/ pc[3] = "exited" /\ status[3] = 0
      BY <2>1, <2>4 DEF Passes
    <3>4. status[1] # 0 => pc[3] = "exited" /\ status[1] = Null!PassedOn(status[3])
      BY <3>2, <3>3 DEF Null!PassedOn
    <3> QED BY <3>1, <3>2, <3>3, <3>4 DEF Null!PassedOn, Null!Process
  <2> QED BY <2>2, <2>3, <2>4
<1> QED BY <1>1, Forked, NullAlone, PTL DEF StatusPassedOn

-----------------------------------------------------------------------------
(* mpd_newConnection.                                                      *)
ConnectTypeOK ==
  /\ peers \in Seq(Connect!Peers)
  /\ next \in 1..Len(peers) + 1
  /\ sock \in {Connect!Unset, Connect!Failed} \cup 1..Len(peers)
  /\ open \subseteq 1..Len(peers)
  /\ pc \in {"resolve", "addresses", "welcome", "returned", "closed"}

(* The socket in hand is open until it is closed; with one address there   *)
(* is no other.                                                            *)
InHand ==
  /\ pc # "closed" /\ sock \notin {Connect!Unset, Connect!Failed} => sock \in open
  /\ pc # "closed" /\ Len(peers) <= 1 => open \subseteq {sock}
  /\ pc = "closed" /\ Len(peers) <= 1 => open = {}
  /\ pc = "resolve" => next = 1 /\ sock = Connect!Unset /\ open = {}
  /\ pc = "addresses" =>
       /\ Len(peers) > 0
       /\ next = 1 <=> sock = Connect!Unset
       /\ next = 1 => open = {}
  /\ pc = "welcome" => sock \in open

(* The result is there when the call returns.                              *)
Resulting ==
  /\ pc \in {"resolve", "addresses", "welcome"} => error = "none" /\ ~doneProcessing
  /\ doneProcessing => error = "none" /\ sock \in 1..Len(peers) /\ peers[sock] = "mpd"
  /\ pc = "returned" /\ ~doneProcessing => error # "none"

Dialling == ConnectTypeOK /\ InHand /\ Resulting

LEMMA ConnectBegins == Connect!Init => Dialling
<1> SUFFICES ASSUME Connect!Init PROVE Dialling
  OBVIOUS
<1>1. PICK n \in 0..MaxAddresses : peers \in [1..n -> Connect!Peers]
  BY DEF Connect!Init
<1>2. peers \in Seq(Connect!Peers) /\ Len(peers) \in Nat
  BY <1>1
<1> QED BY <1>2 DEF Connect!Init, Dialling, ConnectTypeOK, InHand, Resulting

LEMMA ConnectAddress ==
  ASSUME Dialling, Connect!Address
  PROVE  Dialling'
<1> DEFINE n == Len(peers)
<1>1. /\ n \in Nat /\ next \in 1..n /\ peers' = peers /\ pc = "addresses" /\ UNCHANGED doneProcessing
      /\ open \subseteq 1..n
  BY DEF Dialling, ConnectTypeOK, Connect!Address
<1>2. CASE peers[next] = "noSocket"
  <2>1. sock' = Connect!Failed /\ pc' = "returned" /\ error' = "system" /\ UNCHANGED <<next, open>>
    BY <1>2 DEF Connect!Address, Connect!Return
  <2>2. n <= 1 => next = 1
    BY <1>1
  <2> QED BY <1>1, <2>1, <2>2 DEF Dialling, ConnectTypeOK, InHand, Resulting, Connect!Unset, Connect!Failed
<1>3. CASE peers[next] # "noSocket"
  <2>1. /\ sock' = (IF peers[next] = "unreachable" THEN Connect!Failed ELSE next)
        /\ open' = (IF peers[next] = "unreachable" THEN open ELSE open \cup {next})
        /\ next' = next + 1 /\ UNCHANGED <<pc, error>>
    BY <1>3 DEF Connect!Address
  <2>2. /\ next' \in 1..n + 1 /\ next' # 1 /\ open' \subseteq 1..n
        /\ sock' \in {Connect!Failed} \cup 1..n
        /\ n <= 1 => next = 1
    BY <1>1, <2>1
  <2>3. sock' # Connect!Unset
    BY <1>1, <2>1 DEF Connect!Unset, Connect!Failed
  <2>4. sock' \notin {Connect!Unset, Connect!Failed} => sock' \in open'
    BY <2>1
  <2>5. n <= 1 => open' \subseteq {sock'}
    BY <1>1, <2>1, <2>2 DEF Dialling, InHand
  <2>6. ConnectTypeOK'
    BY <1>1, <2>1, <2>2 DEF Dialling, ConnectTypeOK
  <2>7. InHand'
    BY <1>1, <2>1, <2>2, <2>3, <2>4, <2>5 DEF Dialling, InHand, Connect!Unset, Connect!Failed
  <2>8. Resulting'
    BY <1>1, <2>1 DEF Dialling, Resulting
  <2> QED BY <2>6, <2>7, <2>8 DEF Dialling
<1> QED BY <1>2, <1>3

LEMMA ConnectSteps ==
  ASSUME Dialling, [Connect!Next]_Connect!vars
  PROVE  Dialling'
<1>1. ConnectTypeOK /\ InHand /\ Resulting
  BY DEF Dialling
<1>2. CASE Connect!Resolve
  <2>1. Len(peers) \in Nat /\ (peers # <<>> => Len(peers) > 0)
    BY <1>1 DEF ConnectTypeOK
  <2> QED BY <1>1, <1>2, <2>1
          DEF Connect!Resolve, Connect!Return, Dialling, ConnectTypeOK, InHand, Resulting, Connect!Unset, Connect!Failed
<1>3. CASE Connect!Address
  BY <1>3, ConnectAddress
<1>4. CASE Connect!EndOfAddresses
  <2>1. next # 1 /\ sock # Connect!Unset
    BY <1>1, <1>4 DEF Connect!EndOfAddresses, ConnectTypeOK, InHand
  <2> QED BY <1>1, <1>4, <2>1
          DEF Connect!EndOfAddresses, Connect!Return, Dialling, ConnectTypeOK, InHand, Resulting, Connect!Unset, Connect!Failed
<1>5. CASE Connect!Welcome
  <2>1. pc = "welcome" /\ sock \in open /\ sock \in 1..Len(peers)
    BY <1>1, <1>5 DEF Connect!Welcome, Connect!Waiting, ConnectTypeOK, InHand
  <2> QED BY <1>1, <1>5, <2>1
          DEF Connect!Welcome, Connect!Return, Connect!Ready, Connect!UnchangedConnect,
              Dialling, ConnectTypeOK, InHand, Resulting, Connect!Unset, Connect!Failed
<1>6. CASE Connect!NoAnswer
  BY <1>1, <1>6 DEF Connect!NoAnswer, Connect!Waiting, Connect!Return, Connect!UnchangedConnect,
                    Dialling, ConnectTypeOK, InHand, Resulting, Connect!Unset, Connect!Failed
<1>7. CASE Connect!Receive \/ Connect!Interrupted \/ UNCHANGED Connect!vars
  <2>1. UNCHANGED <<peers, next, sock, open, error, doneProcessing, pc>>
    BY <1>7 DEF Connect!Receive, Connect!Interrupted, Connect!UnchangedConnect, Connect!vars
  <2> QED BY <1>1, <2>1 DEF Dialling, ConnectTypeOK, InHand, Resulting, Connect!Unset, Connect!Failed, Connect!Peers
<1>8. CASE Connect!Close
  BY <1>1, <1>8 DEF Connect!Close, Dialling, ConnectTypeOK, InHand, Resulting, Connect!Unset, Connect!Failed
<1> QED BY <1>2, <1>3, <1>4, <1>5, <1>6, <1>7, <1>8 DEF Connect!Next

(* In Tools, what runs as connect is Connect, and the others never become it. *)
LEMMA ConnectAlone ==
  /\ Spec /\ tool = "connect" => Connect!Spec
  /\ Spec /\ ~(tool = "connect") => []~(tool = "connect")
<1>1. Init /\ tool = "connect" => Connect!Init
  BY DEF Init
<1>2. tool = "connect" /\ [Next]_ofTools => (tool = "connect")' /\ [Connect!Next]_Connect!vars
  BY DEF Next, ofTools, ofConnect, Connect!vars
<1>3. ~(tool = "connect") /\ [Next]_ofTools => ~(tool = "connect")'
  BY DEF Next, ofTools
<1> QED BY <1>1, <1>2, <1>3, PTL DEF Spec, Connect!Spec

(* A connection that can be given commands is an open one to an MPD that   *)
(* has said so; one that cannot tells why; and what was opened for an only *)
(* address is closed with it, for any number of addresses, any buffer and  *)
(* any number of signals.                                                  *)
THEOREM UsableIfDone == Spec => []ConnectionUsable
<1>1. Dialling => Connect!ConnectionUsable
  <2> SUFFICES ASSUME Dialling PROVE Connect!ConnectionUsable
    OBVIOUS
  <2>1. \A i \in 1..Len(peers) : i \notin {Connect!Unset, Connect!Failed}
    BY DEF Connect!Unset, Connect!Failed
  <2> QED BY <2>1 DEF Dialling, ConnectTypeOK, InHand, Resulting, Connect!ConnectionUsable
<1>2. Connect!Spec => []Dialling
  <2>1. Dialling /\ [Connect!Next]_Connect!vars => Dialling'
    BY ConnectSteps
  <2> QED BY <2>1, ConnectBegins, PTL DEF Connect!Spec
<1> QED BY <1>1, <1>2, ConnectAlone, PTL DEF ConnectionUsable

-----------------------------------------------------------------------------
(* arpping.                                                                *)
Answers == {i \in DOMAIN queue : queue[i] = TRUE}

PingTypeOK ==
  /\ count \in 0..3 /\ tv \in Nat /\ elapsed \in Nat /\ heard \in BOOLEAN
  /\ queue \in Seq(BOOLEAN)
  /\ pc \in {"send", "wait", "found", "silent", "error"}

(* Until the end an answer that has come is in the queue.                  *)
Queued ==
  /\ pc \in {"send", "wait"} => (heard <=> Answers # {})
  /\ pc = "found" => heard
  /\ pc = "silent" => ~heard

(* The time that is over after n waits.                                    *)
After(n) ==
  CASE n = 0 -> {0}
    [] n = 1 -> Second..Second + Delay
    [] n = 2 -> 2 * Second..2 * Second + 2 * Delay
    [] n = 3 -> 4 * Second..4 * Second + 2 * Delay

Timed ==
  /\ pc = "send" => count < 3 /\ elapsed \in After(count)
  /\ pc = "wait" => count > 0 /\ elapsed + tv \in After(count)
  /\ pc = "silent" => count = 3 /\ elapsed \in After(3)

Probing == PingTypeOK /\ Queued /\ Timed

LEMMA TwoWaits ==
  ASSUME NEW s \in Nat, NEW d \in Nat, NEW a \in s..s + d, NEW b \in s..s + d
  PROVE  a + b \in 2 * s..2 * s + 2 * d
<1>1. a \in Int /\ b \in Int /\ s <= a /\ a <= s + d /\ s <= b /\ b <= s + d
  OBVIOUS
<1>2. 2 * s <= a + b /\ a + b <= 2 * s + 2 * d
  BY <1>1
<1> QED BY <1>1, <1>2

LEMMA PingSends ==
  ASSUME Second \in Nat, Delay \in Nat, Probing, Ping!Send
  PROVE  Probing'
<1>1. /\ pc = "send" /\ UNCHANGED <<queue, elapsed, heard>>
      /\ \/ pc' = "error" /\ UNCHANGED <<count, tv>>
         \/ count' = count + 1 /\ tv' \in Ping!Waits(count + 1) /\ pc' = "wait"
  BY DEF Ping!Send
<1>2. /\ count \in 0..3 /\ elapsed \in Nat /\ count < 3 /\ elapsed \in After(count)
  BY <1>1 DEF Probing, PingTypeOK, Timed
<1>3. Queued'
  BY <1>1 DEF Probing, Queued, Answers
<1>4. CASE pc' = "error"
  BY <1>1, <1>3, <1>4 DEF Probing, PingTypeOK, Timed
<1>5. CASE pc' = "wait"
  <2>1. tv' \in Ping!Waits(count + 1) /\ count' = count + 1 /\ elapsed' = elapsed
    BY <1>1, <1>5
  <2>2. CASE count = 0
    <3>1. elapsed = 0 /\ tv' \in Second..Second + Delay /\ count' = 1
      BY <1>2, <2>1, <2>2 DEF Ping!Waits, After
    <3>2. elapsed' + tv' \in After(count')
      BY <2>1, <3>1 DEF After
    <3> QED BY <1>1, <1>3, <1>5, <3>1, <3>2 DEF Probing, PingTypeOK, Timed
  <2>3. CASE count = 1
    <3>1. elapsed \in Second..Second + Delay /\ tv' \in Second..Second + Delay /\ count' = 2
      BY <1>2, <2>1, <2>3 DEF Ping!Waits, After
    <3>2. elapsed' + tv' \in 2 * Second..2 * Second + 2 * Delay
      BY <2>1, <3>1, TwoWaits
    <3>3. elapsed' + tv' \in After(count')
      BY <3>1, <3>2 DEF After
    <3> QED BY <1>1, <1>3, <1>5, <3>1, <3>3 DEF Probing, PingTypeOK, Timed
  <2>4. CASE count = 2
    <3>1. elapsed \in 2 * Second..2 * Second + 2 * Delay /\ tv' = 2 * Second /\ count' = 3
      BY <1>2, <2>1, <2>4 DEF Ping!Waits, After
    <3>2. elapsed' + tv' \in 4 * Second..4 * Second + 2 * Delay
      BY <2>1, <3>1
    <3>3. elapsed' + tv' \in After(count')
      BY <3>1, <3>2 DEF After
    <3> QED BY <1>1, <1>3, <1>5, <3>1, <3>3 DEF Probing, PingTypeOK, Timed
  <2> QED BY <1>2, <2>2, <2>3, <2>4
<1> QED BY <1>1, <1>4, <1>5

LEMMA PingReads ==
  ASSUME Probing, Ping!Read
  PROVE  Probing'
<1> DEFINE n == Len(queue)
<1>1. pc = "wait" /\ queue # <<>> /\ UNCHANGED <<count, tv, elapsed, heard>>
  BY DEF Ping!Read
<1>2. PingTypeOK /\ (heard <=> Answers # {}) /\ heard \in BOOLEAN
  BY <1>1 DEF Probing, Queued, PingTypeOK
<1>3. CASE pc' = "error" /\ UNCHANGED queue
  BY <1>1, <1>3 DEF Probing, PingTypeOK, Queued, Timed
<1>4. CASE queue' = Tail(queue) /\ pc' = (IF Ping!Matches(Head(queue)) THEN "found" ELSE pc)
  <2>1. /\ n \in Nat /\ DOMAIN queue = 1..n /\ 1 \in DOMAIN queue
        /\ queue' \in Seq(BOOLEAN) /\ DOMAIN queue' = 1..n - 1 /\ Head(queue) = queue[1]
        /\ \A i \in 1..n - 1 : queue'[i] = queue[i + 1]
        /\ queue[1] \in BOOLEAN
    BY <1>1, <1>2, <1>4, TailOf DEF PingTypeOK
  <2>2. CASE queue[1] = TRUE
    <3>1. pc' = "found"
      BY <1>4, <2>1, <2>2, Zenon DEF Ping!Matches
    <3>2. 1 \in Answers
      BY <2>1, <2>2 DEF Answers
    <3>3. heard'
      BY <1>1, <1>2, <3>2
    <3> QED BY <1>1, <1>2, <2>1, <3>1, <3>3 DEF Probing, PingTypeOK, Queued, Timed
  <2>3. CASE queue[1] = FALSE
    <3>1. pc' = "wait"
      BY <1>1, <1>4, <2>1, <2>3, Zenon DEF Ping!Matches
    <3>2. \A i \in 1..n : i = 1 \/ (i - 1 \in 1..n - 1 /\ (i - 1) + 1 = i)
      BY <2>1
    <3>3. \A i \in 1..n - 1 : i + 1 \in 1..n
      BY <2>1
    <3>4. Answers' # {} => Answers # {}
      BY <2>1, <3>3 DEF Answers
    <3>5. Answers # {} => Answers' # {}
      <4> SUFFICES ASSUME NEW i \in Answers PROVE Answers' # {}
        OBVIOUS
      <4>1. i \in 1..n /\ queue[i] = TRUE /\ i # 1
        BY <2>1, <2>3 DEF Answers
      <4>2. i - 1 \in DOMAIN queue' /\ queue'[i - 1] = TRUE
        BY <2>1, <3>2, <4>1
      <4> QED BY <4>2 DEF Answers
    <3>6. heard' <=> Answers' # {}
      BY <1>1, <1>2, <3>4, <3>5
    <3> QED BY <1>1, <1>2, <2>1, <3>1, <3>6 DEF Probing, PingTypeOK, Queued, Timed
  <2> QED BY <2>1, <2>2, <2>3
<1> QED BY <1>3, <1>4 DEF Ping!Read

LEMMA PingTimes ==
  ASSUME Second \in Nat, Delay \in Nat, Probing, Ping!Timeout \/ Ping!Tick
  PROVE  Probing'
<1>1. pc = "wait" /\ queue = <<>> /\ UNCHANGED <<count, queue, heard>>
  BY DEF Ping!Timeout, Ping!Tick
<1>2. /\ count \in 1..3 /\ tv \in Nat /\ elapsed \in Nat /\ elapsed + tv \in After(count) /\ heard \in BOOLEAN
      /\ queue \in Seq(BOOLEAN) /\ (heard <=> Answers # {})
  BY <1>1 DEF Probing, PingTypeOK, Queued, Timed
<1>3. Answers = {} /\ Answers' = {}
  BY <1>1 DEF Answers
<1>4. CASE Ping!Tick
  <2>1. tv' \in Nat /\ elapsed' \in Nat /\ elapsed' + tv' = elapsed + tv /\ pc' = "wait"
    BY <1>1, <1>2, <1>4 DEF Ping!Tick
  <2>2. elapsed' + tv' \in After(count')
    BY <1>1, <1>2, <2>1 DEF After
  <2> QED BY <1>1, <1>2, <1>3, <2>1, <2>2 DEF Probing, PingTypeOK, Queued, Timed
<1>5. CASE Ping!Timeout
  <2>1. /\ tv = 0 /\ elapsed' = elapsed /\ tv' = tv
        /\ pc' = IF count < 3 THEN "send" ELSE "silent"
    BY <1>5 DEF Ping!Timeout
  <2>2. elapsed \in After(count) /\ (~(count < 3) => count = 3)
    <3>1. elapsed + tv = elapsed
      BY <1>2, <2>1
    <3> QED BY <1>2, <3>1
  <2>3. After(count)' = After(count) /\ After(3)' = After(3)
    BY <1>1 DEF After
  <2> QED BY <1>1, <1>2, <1>3, <2>1, <2>2, <2>3 DEF Probing, PingTypeOK, Queued, Timed
<1> QED BY <1>4, <1>5

LEMMA PingArrives ==
  ASSUME Probing, Ping!Arrives
  PROVE  Probing'
<1> DEFINE n == Len(queue)
<1>1. UNCHANGED <<count, tv, pc, elapsed>> /\ PingTypeOK /\ Queued /\ Timed
  BY DEF Ping!Arrives, Probing
<1>2. PICK answer \in BOOLEAN :
        /\ queue' = Append(queue, answer)
        /\ answer = TRUE => heard' = (heard \/ pc \in {"send", "wait"})
        /\ answer = FALSE => heard' = heard
  BY DEF Ping!Arrives
<1>3. heard' \in BOOLEAN
  BY <1>1, <1>2 DEF PingTypeOK
<1>4. /\ queue' \in Seq(BOOLEAN) /\ n \in Nat /\ DOMAIN queue = 1..n /\ DOMAIN queue' = 1..n + 1
      /\ \A i \in 1..n : queue'[i] = queue[i]
      /\ queue'[n + 1] = answer
  BY <1>1, <1>2, AppendOf DEF PingTypeOK
<1> HIDE DEF n
<1>5. (\A i \in 1..n + 1 : i \in 1..n \/ i = n + 1) /\ 1..n \subseteq 1..n + 1 /\ n + 1 \in 1..n + 1
  BY <1>4
<1>6. Answers' # {} <=> (Answers # {} \/ answer = TRUE)
  BY <1>4, <1>5 DEF Answers
<1>7. Queued'
  <2>1. CASE answer = TRUE
    <3>1. heard' = (heard \/ pc \in {"send", "wait"})
      BY <1>2, <2>1
    <3> QED BY <1>1, <1>6, <2>1, <3>1 DEF Queued
  <2>2. CASE answer = FALSE
    <3>1. heard' = heard /\ (Answers' # {} <=> Answers # {})
      BY <1>2, <1>6, <2>2
    <3> QED BY <1>1, <3>1 DEF Queued
  <2> QED BY <2>1, <2>2
<1>8. After(count)' = After(count) /\ After(3)' = After(3)
  BY <1>1 DEF After
<1> QED BY <1>1, <1>3, <1>4, <1>7, <1>8 DEF Probing, PingTypeOK, Timed

(* The inductive invariant of arpping.                                     *)
THEOREM Probes == Ping!Spec => []Probing
<1>1. Ping!Init => Probing
  <2> SUFFICES ASSUME Ping!Init PROVE Probing
    OBVIOUS
  <2>1. Answers = {} /\ queue \in Seq(BOOLEAN)
    BY DEF Ping!Init, Answers
  <2>2. Queued
    BY <2>1 DEF Ping!Init, Queued
  <2>3. Timed
    BY DEF Ping!Init, Timed, After
  <2>4. heard \in BOOLEAN
    BY Zenon DEF Ping!Init
  <2>5. count \in 0..3 /\ tv \in Nat /\ elapsed \in Nat /\ pc \in {"send", "wait", "found", "silent", "error"}
    BY DEF Ping!Init
  <2> QED BY <2>1, <2>2, <2>3, <2>4, <2>5 DEF Probing, PingTypeOK
<1>2. Probing /\ [Ping!Next]_Ping!vars => Probing'
  <2> SUFFICES ASSUME Probing, [Ping!Next]_Ping!vars PROVE Probing'
    OBVIOUS
  <2>1. CASE Ping!Lost \/ UNCHANGED Ping!vars
    <3>1. UNCHANGED <<count, tv, pc, queue, elapsed, heard>>
      BY <2>1 DEF Ping!Lost, Ping!vars
    <3> QED BY <3>1 DEF Probing, PingTypeOK, Queued, Answers, Timed, After
  <2> QED BY <2>1, TimesAssumption, PingSends, PingReads, PingTimes, PingArrives DEF Ping!Next
<1> QED BY <1>1, <1>2, PTL DEF Ping!Spec

(* In Tools, what runs as arpping is Ping, and the others never become it. *)
LEMMA PingAlone ==
  /\ Spec /\ tool = "arpping" => Ping!Spec
  /\ Spec /\ ~(tool = "arpping") => []~(tool = "arpping")
<1>1. Init /\ tool = "arpping" => Ping!Init
  BY DEF Init
<1>2. tool = "arpping" /\ [Next]_ofTools => (tool = "arpping")' /\ [Ping!Next]_Ping!vars
  BY DEF Next, ofTools, ofPing, Ping!vars
<1>3. ~(tool = "arpping") /\ [Next]_ofTools => ~(tool = "arpping")'
  BY DEF Next, ofTools
<1> QED BY <1>1, <1>2, <1>3, PTL DEF Spec, Ping!Spec

(* Nobody else's packet is taken for the answer, an answer that comes      *)
(* before the end is not overlooked, and arpping gives up only when its    *)
(* three waits are over, however long a second and the delays are.         *)
THEOREM TakesAnswer == Spec => []AnswerTaken
<1>1. Probing => Ping!AnswerTaken
  BY DEF Probing, Queued, Timed, After, Ping!AnswerTaken
<1> QED BY <1>1, Probes, PingAlone, PTL DEF AnswerTaken

-----------------------------------------------------------------------------
(* gz2bz.  The file in hand, what it is decompressed to and what it        *)
(* becomes.                                                                *)
Source  == Convert!file
Between == Convert!output
Target  == Convert!output_compressed

Labels  == {"file", "plain", "decompress", "decompressing", "compress", "compressing", "pipe", "piping", "ok", "failed"}
Content == [of : Convert!Name \cup {Convert!Nobody}, whole : BOOLEAN]

ConvertTypeOK ==
  /\ args \in Seq(Convert!Name) /\ at \in Nat \ {0} /\ pc \in Labels
  /\ disk \in [Convert!Name -> Content]
  /\ pc # "file" => at \in DOMAIN args /\ Source.ext \in {"gz", "tgz"}

(* Nothing is written to a file in one of the formats that are converted.  *)
OwnData == \A n \in Convert!Name : n.ext \in {"gz", "tgz"} => disk[n].of \in {n, Convert!Nobody}

(* With --never-overwrite what is going to be written is not there.        *)
NotThere ==
  overwrite = "n" =>
    /\ pc \in {"plain", "decompress", "decompressing", "compress", "pipe"} => disk[Target] = Convert!None
    /\ pc = "decompress" => disk[Between] = Convert!None

(* What is written has been emptied, and is then what it was made of.      *)
Writing ==
  /\ pc = "decompressing" => disk[Between].of = Convert!Nobody
  /\ pc \in {"compress", "compressing"} => disk[Between] = disk[Source] /\ disk[Source].whole
  /\ pc \in {"compressing", "piping"} => disk[Target].of = Convert!Nobody

(* What was made is of the file in hand, and not whole only if that stays, *)
(* or was given up when its decompressor failed.                           *)
Made ==
  pc = "ok" =>
    /\ disk[Target].of = disk[Source].of
    /\ disk[Source].of = Source => disk[Target].whole \/ keepOrig \/ Source \in forgone

Converting == ConvertTypeOK /\ OwnData /\ NotThere /\ Writing /\ Made /\ Convert!OriginalKept

-----------------------------------------------------------------------------
LEMMA NamesNobody == Convert!Nobody \notin Convert!Name
BY DEF Convert!Nobody, Convert!Name

LEMMA ThreeFiles ==
  ASSUME args \in Seq(Convert!Name), at \in DOMAIN args, Source.ext \in {"gz", "tgz"}
  PROVE  /\ Source \in Convert!Name /\ Between \in Convert!Name /\ Target \in Convert!Name
         /\ Source # Between /\ Source # Target /\ Between # Target
         /\ Between.ext \notin {"gz", "tgz"} /\ Target.ext \notin {"gz", "tgz"}
<1>1. Source \in Convert!Name
  BY DEF Source, Convert!file
<1>2. PICK s \in {"a", "b"}, e \in {"gz", "tgz"} : Source = [stem |-> s, ext |-> e]
  BY <1>1 DEF Convert!Name
<1>3. Between = [stem |-> s, ext |-> "none"] /\ Target = [stem |-> s, ext |-> "bz2"]
  BY <1>2 DEF Source, Between, Target, Convert!output, Convert!output_compressed
<1> QED BY <1>1, <1>2, <1>3 DEF Convert!Name

LEMMA SameFiles ==
  ASSUME UNCHANGED <<args, at>>
  PROVE  Source' = Source /\ Between' = Between /\ Target' = Target
BY DEF Source, Between, Target, Convert!file, Convert!output, Convert!output_compressed

LEMMA Contents ==
  /\ Convert!None \in Content /\ Convert!Empty \in Content
  /\ Convert!None.of = Convert!Nobody /\ Convert!Empty.of = Convert!Nobody
BY DEF Content, Convert!None, Convert!Empty, Convert!Data

LEMMA Write ==
  ASSUME ConvertTypeOK, NEW m \in Convert!Name, NEW d \in Content, Convert!Written(m, d)
  PROVE  /\ disk' \in [Convert!Name -> Content] /\ disk'[m] = d
         /\ \A n \in Convert!Name \ {m} : disk'[n] = disk[n]
BY DEF ConvertTypeOK, Convert!Written

(* A write can only lose the copies that were in the file written.         *)
LEMMA WriteKeeps ==
  ASSUME ConvertTypeOK, Convert!OriginalKept, NEW m \in Convert!Name,
         \A n \in Convert!Name \ {m} : disk'[n] = disk[n],
         UNCHANGED args, forgone \subseteq forgone',
         \A n \in Convert!ToSet(args) :
           m \in Convert!Copies(n) => Convert!Copies(n)' # {} \/ Convert!Copies(n) # {m} \/ n \in forgone'
  PROVE  Convert!OriginalKept'
<1> SUFFICES ASSUME NEW n \in Convert!ToSet(args) PROVE Convert!Copies(n)' # {} \/ n \in forgone'
  BY DEF Convert!OriginalKept, Convert!ToSet
<1>1. Convert!Copies(n) # {} \/ n \in forgone'
  BY DEF Convert!OriginalKept
<1>2. ASSUME NEW k \in Convert!Copies(n), k # m PROVE k \in Convert!Copies(n)'
  BY <1>2 DEF Convert!Copies
<1>3. CASE m \in Convert!Copies(n)
  BY <1>2, <1>3
<1>4. CASE m \notin Convert!Copies(n)
  BY <1>1, <1>2, <1>4
<1> QED BY <1>3, <1>4

LEMMA ArgumentsAreNames ==
  ASSUME ConvertTypeOK, NEW n \in Convert!ToSet(args)
  PROVE  n \in Convert!Name /\ n # Convert!Nobody
BY NamesNobody DEF ConvertTypeOK, Convert!ToSet

(* A file that has nobody's data is nobody's copy.                         *)
LEMMA WriteHarmless ==
  ASSUME ConvertTypeOK, Convert!OriginalKept, NEW m \in Convert!Name,
         \A n \in Convert!Name \ {m} : disk'[n] = disk[n],
         UNCHANGED args, forgone \subseteq forgone', disk[m].of = Convert!Nobody
  PROVE  Convert!OriginalKept'
<1>1. \A n \in Convert!ToSet(args) : m \notin Convert!Copies(n)
  BY ArgumentsAreNames DEF Convert!Copies
<1> QED BY <1>1, WriteKeeps

LEMMA NothingWritten ==
  ASSUME Convert!OriginalKept, UNCHANGED <<args, disk, forgone>>
  PROVE  Convert!OriginalKept'
BY DEF Convert!OriginalKept, Convert!Copies, Convert!ToSet

(* overwrite(): with --never-overwrite only what is not there is written.  *)
LEMMA Overwrites ==
  ASSUME NEW name, NEW label, Convert!Overwrite(name, label)
  PROVE  /\ UNCHANGED <<keepOrig, overwrite, args, disk, forgone>>
         /\ \/ pc' = "file" /\ at' = at + 1
            \/ pc' = label /\ at' = at /\ (overwrite = "n" => disk[name] = Convert!None)
<1>1. UNCHANGED <<keepOrig, overwrite, args, disk, forgone>>
  BY DEF Convert!Overwrite, Convert!opts
<1>2. PICK may \in Convert!Asked(name) : IF may THEN Convert!Goto(label) ELSE Convert!Continue
  BY DEF Convert!Overwrite
<1>3. CASE overwrite = "n" /\ disk[name] # Convert!None
  <2>1. Convert!Asked(name) = {FALSE}
    BY <1>3, Zenon DEF Convert!Asked, Convert!Exists
  <2>2. ~may
    BY <1>2, <2>1, Zenon
  <2> QED BY <1>1, <1>2, <2>2 DEF Convert!Continue
<1>4. CASE ~(overwrite = "n" /\ disk[name] # Convert!None)
  BY <1>1, <1>2, <1>4 DEF Convert!Goto, Convert!Continue
<1> QED BY <1>3, <1>4

(* Whatever a step writes of its own, OwnData is kept.                     *)
LEMMA WritesOwn ==
  ASSUME OwnData, NEW m \in Convert!Name, \A n \in Convert!Name \ {m} : disk'[n] = disk[n],
         m.ext \notin {"gz", "tgz"} \/ disk'[m].of = Convert!Nobody
  PROVE  OwnData'
BY DEF OwnData, Convert!Name, Convert!Nobody

(* At the next file nothing is in hand.                                    *)
LEMMA ConvertNext ==
  ASSUME ConvertTypeOK, UNCHANGED args, pc' = "file", at' = at + 1,
         disk' \in [Convert!Name -> Content], OwnData', Convert!OriginalKept'
  PROVE  Converting'
<1>1. ConvertTypeOK'
  BY DEF ConvertTypeOK, Labels, Content, Convert!Name
<1>2. NotThere' /\ Writing' /\ Made'
  BY DEF NotThere, Writing, Made
<1> QED BY <1>1, <1>2 DEF Converting

LEMMA ConvertNextFile ==
  ASSUME Converting, Convert!NextFile
  PROVE  Converting'
<1>1. ConvertTypeOK /\ OwnData /\ Convert!OriginalKept
  BY DEF Converting
<1>2. /\ pc = "file" /\ at <= Len(args) /\ UNCHANGED <<args, disk, forgone, overwrite>>
      /\ \/ pc' = "file" /\ at' = at + 1
         \/ /\ Source.ext \in {"gz", "tgz"} /\ pc' \in {"plain", "pipe"} /\ at' = at
            /\ overwrite = "n" => disk[Target] = Convert!None
  <2>1. pc = "file" /\ at <= Len(args)
    BY DEF Convert!NextFile
  <2>2. CASE Source.ext \in {"gz", "tgz"}
             /\ Convert!Overwrite(Convert!output_compressed, IF keep THEN "plain" ELSE "pipe")
    BY <2>1, <2>2, Overwrites DEF Target
  <2>3. CASE Convert!Continue /\ UNCHANGED <<Convert!opts, disk, forgone>>
    BY <2>1, <2>3 DEF Convert!Continue, Convert!opts
  <2> QED BY <2>2, <2>3 DEF Convert!NextFile, Source
<1>3. OwnData' /\ Convert!OriginalKept'
  BY <1>1, <1>2, NothingWritten DEF OwnData, Convert!Name, Convert!Nobody
<1>4. disk' \in [Convert!Name -> Content]
  BY <1>1, <1>2 DEF ConvertTypeOK
<1>5. CASE pc' = "file" /\ at' = at + 1
  BY <1>1, <1>2, <1>3, <1>4, <1>5, ConvertNext
<1>6. CASE /\ Source.ext \in {"gz", "tgz"} /\ pc' \in {"plain", "pipe"} /\ at' = at
           /\ overwrite = "n" => disk[Target] = Convert!None
  <2>1. Source' = Source /\ Target' = Target
    BY <1>2, <1>6, SameFiles
  <2>2. at \in DOMAIN args
    BY <1>1, <1>2 DEF ConvertTypeOK
  <2>3. ConvertTypeOK'
    BY <1>1, <1>2, <1>4, <1>6, <2>1, <2>2 DEF ConvertTypeOK, Labels
  <2>4. NotThere'
    BY <1>2, <1>6, <2>1 DEF NotThere, Convert!None, Convert!Data, Convert!Nobody
  <2>5. Writing' /\ Made'
    BY <1>6 DEF Writing, Made
  <2> QED BY <1>3, <2>3, <2>4, <2>5 DEF Converting
<1> QED BY <1>2, <1>5, <1>6

LEMMA ConvertPlain ==
  ASSUME Converting, Convert!OverwritePlain
  PROVE  Converting'
<1>1. ConvertTypeOK /\ OwnData /\ NotThere /\ Convert!OriginalKept
  BY DEF Converting
<1>2. /\ pc = "plain" /\ UNCHANGED <<args, disk, forgone, overwrite>>
      /\ \/ pc' = "file" /\ at' = at + 1
         \/ pc' = "decompress" /\ at' = at /\ (overwrite = "n" => disk[Between] = Convert!None)
  BY Overwrites DEF Convert!OverwritePlain, Between
<1>3. OwnData' /\ Convert!OriginalKept'
  BY <1>1, <1>2, NothingWritten DEF OwnData, Convert!Name, Convert!Nobody
<1>4. disk' \in [Convert!Name -> Content]
  BY <1>1, <1>2 DEF ConvertTypeOK
<1>5. CASE pc' = "file" /\ at' = at + 1
  BY <1>1, <1>2, <1>3, <1>4, <1>5, ConvertNext
<1>6. CASE pc' = "decompress" /\ at' = at /\ (overwrite = "n" => disk[Between] = Convert!None)
  <2>1. Source' = Source /\ Target' = Target /\ Between' = Between
    BY <1>2, <1>6, SameFiles
  <2>2. ConvertTypeOK'
    BY <1>1, <1>2, <1>4, <1>6, <2>1 DEF ConvertTypeOK, Labels
  <2>3. NotThere'
    BY <1>1, <1>2, <1>6, <2>1 DEF NotThere, Convert!None, Convert!Data, Convert!Nobody
  <2>4. Writing' /\ Made'
    BY <1>6 DEF Writing, Made
  <2> QED BY <1>3, <2>2, <2>3, <2>4 DEF Converting
<1> QED BY <1>2, <1>5, <1>6

(* The shell empties a file: it was not there, or what was only in there   *)
(* is given up.                                                            *)
LEMMA OpenKeeps ==
  ASSUME ConvertTypeOK, Convert!OriginalKept, NEW m \in Convert!Name, NEW label, Convert!Opens(m, label),
         overwrite = "n" => disk[m] = Convert!None
  PROVE  Convert!OriginalKept'
<1>1. \A n \in Convert!Name \ {m} : disk'[n] = disk[n]
  BY Write, Contents DEF Convert!Opens
<1>2. UNCHANGED args /\ forgone' = forgone \cup Convert!GivenUp(m)
  BY DEF Convert!Opens, Convert!opts
<1>3. CASE overwrite = "n"
  <2>1. disk[m].of = Convert!Nobody
    BY <1>3, Contents
  <2> QED BY <1>1, <1>2, <2>1, WriteHarmless
<1>4. CASE overwrite # "n"
  <2>1. \A n \in Convert!ToSet(args) : Convert!Copies(n) = {m} => n \in forgone'
    BY <1>2, <1>4 DEF Convert!GivenUp
  <2> QED BY <1>1, <1>2, <2>1, WriteKeeps
<1> QED BY <1>3, <1>4

LEMMA ConvertOpens ==
  ASSUME Converting, Convert!Open
  PROVE  Converting'
<1>1. ConvertTypeOK /\ OwnData /\ NotThere /\ Writing /\ Convert!OriginalKept
  BY DEF Converting
<1>2. PICK m \in {Between, Target}, label \in {"decompressing", "compressing", "piping"} :
        /\ Convert!Opens(m, label)
        /\ \/ pc = "decompress" /\ m = Between /\ label = "decompressing"
           \/ pc = "compress" /\ m = Target /\ label = "compressing"
           \/ pc = "pipe" /\ m = Target /\ label = "piping"
  BY DEF Convert!Open, Between, Target
<1>3. /\ UNCHANGED <<args, at, keepOrig, overwrite>> /\ pc' = label
      /\ Convert!Written(m, Convert!Empty)
  BY <1>2 DEF Convert!Opens, Convert!opts, Convert!Goto
<1>4. /\ Source \in Convert!Name /\ Between \in Convert!Name /\ Target \in Convert!Name
      /\ Source # Between /\ Source # Target /\ Between # Target
      /\ Between.ext \notin {"gz", "tgz"} /\ Target.ext \notin {"gz", "tgz"}
      /\ at \in DOMAIN args /\ Source.ext \in {"gz", "tgz"}
  BY <1>1, <1>2, ThreeFiles DEF ConvertTypeOK
<1>5. m \in Convert!Name /\ m.ext \notin {"gz", "tgz"}
  BY <1>2, <1>4
<1>6. /\ disk' \in [Convert!Name -> Content] /\ disk'[m] = Convert!Empty
      /\ \A n \in Convert!Name \ {m} : disk'[n] = disk[n]
  BY <1>1, <1>3, <1>5, Write, Contents
<1>7. Source' = Source /\ Target' = Target /\ Between' = Between
  BY <1>3, SameFiles
<1>8. ConvertTypeOK'
  BY <1>1, <1>2, <1>3, <1>4, <1>6, <1>7 DEF ConvertTypeOK, Labels
<1>9. OwnData'
  BY <1>1, <1>5, <1>6, WritesOwn
<1>10. NotThere'
  <2>1. pc' = "decompressing" => disk'[Target] = disk[Target]
    BY <1>2, <1>3, <1>4, <1>6
  <2>2. pc = "decompress" \/ pc' # "decompressing"
    BY <1>2, <1>3
  <2> QED BY <1>1, <1>3, <1>7, <2>1, <2>2 DEF NotThere, Convert!None, Convert!Data, Convert!Nobody
<1>11. Writing'
  <2>1. disk'[m].of = Convert!Nobody
    BY <1>6, Contents
  <2>2. pc' = "compressing" => /\ disk'[Between] = disk[Between] /\ disk'[Source] = disk[Source]
                               /\ disk[Between] = disk[Source] /\ disk[Source].whole
    BY <1>1, <1>2, <1>3, <1>4, <1>6 DEF Writing
  <2> QED BY <1>2, <1>3, <1>7, <2>1, <2>2 DEF Writing, Convert!Nobody
<1>12. Made'
  BY <1>2, <1>3 DEF Made
<1>13. Convert!OriginalKept'
  <2>1. overwrite = "n" => disk[m] = Convert!None
    BY <1>1, <1>2 DEF NotThere
  <2> QED BY <1>1, <1>2, <1>5, <2>1, OpenKeeps
<1> QED BY <1>8, <1>9, <1>10, <1>11, <1>12, <1>13 DEF Converting

(* The three files of the one in hand, while it is.                        *)
LEMMA HandledFiles ==
  ASSUME ConvertTypeOK, pc # "file"
  PROVE  /\ Source \in Convert!Name /\ Between \in Convert!Name /\ Target \in Convert!Name
         /\ Source # Between /\ Source # Target /\ Between # Target
         /\ Between.ext \notin {"gz", "tgz"} /\ Target.ext \notin {"gz", "tgz"}
         /\ at \in DOMAIN args /\ Source.ext \in {"gz", "tgz"}
         /\ disk[Source] \in Content /\ disk[Between] \in Content /\ disk[Target] \in Content
BY ThreeFiles DEF ConvertTypeOK

LEMMA ConvertDecompress ==
  ASSUME Converting, Convert!Decompress
  PROVE  Converting'
<1>1. ConvertTypeOK /\ OwnData /\ NotThere /\ Writing /\ Convert!OriginalKept /\ pc = "decompressing"
  BY DEF Converting, Convert!Decompress
<1>2. UNCHANGED <<args, keepOrig, overwrite, forgone>>
  BY DEF Convert!Decompress, Convert!opts
<1>3. /\ Source \in Convert!Name /\ Between \in Convert!Name /\ Target \in Convert!Name
      /\ Source # Between /\ Source # Target /\ Between # Target
      /\ Between.ext \notin {"gz", "tgz"} /\ Target.ext \notin {"gz", "tgz"}
      /\ at \in DOMAIN args /\ Source.ext \in {"gz", "tgz"} /\ disk[Source] \in Content
  BY <1>1, HandledFiles
<1>4. PICK d \in Content :
        /\ Convert!Written(Between, d)
        /\ \/ disk[Source].whole /\ d = disk[Source] /\ pc' = "compress" /\ at' = at
           \/ pc' = "file" /\ at' = at + 1
  BY <1>3, Contents DEF Convert!Decompress, Convert!Removed, Convert!Goto, Convert!Continue, Source, Between
<1>5. /\ disk' \in [Convert!Name -> Content] /\ disk'[Between] = d
      /\ \A n \in Convert!Name \ {Between} : disk'[n] = disk[n]
  BY <1>1, <1>3, <1>4, Write
<1>6. OwnData'
  BY <1>1, <1>3, <1>5, WritesOwn
<1>7. Convert!OriginalKept'
  <2>1. disk[Between].of = Convert!Nobody
    BY <1>1 DEF Writing
  <2> QED BY <1>1, <1>2, <1>3, <1>5, <2>1, WriteHarmless
<1>8. CASE pc' = "file" /\ at' = at + 1
  BY <1>1, <1>2, <1>5, <1>6, <1>7, <1>8, ConvertNext
<1>9. CASE disk[Source].whole /\ d = disk[Source] /\ pc' = "compress" /\ at' = at
  <2>1. Source' = Source /\ Target' = Target /\ Between' = Between
    BY <1>2, <1>9, SameFiles
  <2>2. ConvertTypeOK'
    BY <1>1, <1>2, <1>3, <1>5, <1>9, <2>1 DEF ConvertTypeOK, Labels
  <2>3. disk'[Source] = disk[Source] /\ disk'[Target] = disk[Target]
    BY <1>3, <1>5
  <2>4. NotThere'
    BY <1>1, <1>2, <1>9, <2>1, <2>3 DEF NotThere, Convert!None, Convert!Data, Convert!Nobody
  <2>5. Writing' /\ Made'
    BY <1>5, <1>9, <2>1, <2>3 DEF Writing, Made
  <2> QED BY <1>6, <1>7, <2>2, <2>4, <2>5 DEF Converting
<1> QED BY <1>4, <1>8, <1>9

(* The target is written, by the compressor or by the pipe.                *)
LEMMA TargetWritten ==
  ASSUME Converting, pc \in {"compressing", "piping"}, UNCHANGED <<args, at, keepOrig, overwrite>>,
         forgone \subseteq forgone', pc' \in {"ok", "failed"},
         NEW d \in Content, Convert!Written(Target, d),
         pc' = "ok" =>
           /\ d.of = disk[Source].of
           /\ disk[Source].of = Source => d.whole \/ keepOrig \/ Source \in forgone'
  PROVE  Converting'
<1>1. ConvertTypeOK /\ OwnData /\ Writing /\ Convert!OriginalKept
  BY DEF Converting
<1>2. /\ Source \in Convert!Name /\ Target \in Convert!Name /\ Source # Target
      /\ Target.ext \notin {"gz", "tgz"}
      /\ at \in DOMAIN args /\ Source.ext \in {"gz", "tgz"} /\ disk[Source] \in Content
  BY <1>1, HandledFiles
<1>3. /\ disk' \in [Convert!Name -> Content] /\ disk'[Target] = d
      /\ \A n \in Convert!Name \ {Target} : disk'[n] = disk[n]
  BY <1>1, <1>2, Write
<1>4. OwnData'
  BY <1>1, <1>2, <1>3, WritesOwn
<1>5. Convert!OriginalKept'
  <2>1. disk[Target].of = Convert!Nobody
    BY <1>1 DEF Writing
  <2> QED BY <1>1, <1>2, <1>3, <2>1, WriteHarmless
<1>6. Source' = Source /\ Target' = Target
  BY SameFiles
<1>7. ConvertTypeOK'
  BY <1>1, <1>2, <1>3, <1>6 DEF ConvertTypeOK, Labels
<1>8. NotThere' /\ Writing'
  BY DEF NotThere, Writing
<1>9. Made'
  <2>1. disk'[Source] = disk[Source]
    BY <1>2, <1>3
  <2> QED BY <1>3, <1>6, <2>1 DEF Made
<1> QED BY <1>4, <1>5, <1>7, <1>8, <1>9 DEF Converting

LEMMA ConvertCompress ==
  ASSUME Converting, Convert!Compress
  PROVE  Converting'
<1>1. ConvertTypeOK /\ Writing /\ pc = "compressing"
  BY DEF Converting, Convert!Compress
<1>2. UNCHANGED <<args, at, keepOrig, overwrite, forgone>>
  BY DEF Convert!Compress, Convert!opts, Convert!Goto
<1>3. disk[Source] \in Content /\ disk[Between] = disk[Source] /\ disk[Source].whole
  BY <1>1, HandledFiles DEF Writing
<1>4. CASE Convert!Written(Target, disk[Between]) /\ pc' = "ok"
  BY <1>1, <1>2, <1>3, <1>4, TargetWritten
<1>5. CASE Convert!Written(Target, Convert!None) /\ pc' = "failed"
  BY <1>1, <1>2, <1>5, TargetWritten, Contents
<1> QED BY <1>4, <1>5 DEF Convert!Compress, Convert!Removed, Convert!Goto, Target, Between

LEMMA ConvertPipes ==
  ASSUME Converting, Convert!Convert
  PROVE  Converting'
<1>1. ConvertTypeOK /\ pc = "piping" /\ UNCHANGED <<args, at, keepOrig, overwrite>>
  BY DEF Converting, Convert!Convert, Convert!opts, Convert!Goto
<1>2. disk[Source] \in Content
  BY <1>1, HandledFiles
<1>3. CASE disk[Source].whole /\ Convert!Written(Target, disk[Source]) /\ pc' = "ok" /\ UNCHANGED forgone
  BY <1>1, <1>2, <1>3, TargetWritten
<1>4. CASE /\ Convert!Written(Target, Convert!Part(disk[Source])) /\ pc' = "ok"
           /\ forgone' = IF keepOrig THEN forgone ELSE forgone \cup {disk[Source].of}
  <2> DEFINE part == Convert!Part(disk[Source])
  <2>1. part \in Content /\ part.of = disk[Source].of /\ (part.of # Convert!Nobody => ~part.whole)
    BY <1>2, Contents DEF Content, Convert!Part
  <2>2. forgone \subseteq forgone' /\ (disk[Source].of = Source => keepOrig \/ Source \in forgone')
    BY <1>4
  <2>3. Convert!Written(Target, part)
    BY <1>4
  <2> HIDE DEF part
  <2> QED BY <1>1, <1>4, <2>1, <2>2, <2>3, TargetWritten
<1>5. CASE Convert!Written(Target, Convert!None) /\ pc' = "failed" /\ UNCHANGED forgone
  BY <1>1, <1>5, TargetWritten, Contents
<1> QED BY <1>3, <1>4, <1>5 DEF Convert!Convert, Convert!Removed, Convert!Goto, Target, Source

(* What is removed at the end is in the other one of source and target, or *)
(* given up.                                                               *)
LEMMA ConvertFinish ==
  ASSUME Converting, Convert!Finish
  PROVE  Converting'
<1>1. ConvertTypeOK /\ OwnData /\ Made /\ Convert!OriginalKept
  BY DEF Converting
<1>2. /\ pc \in {"ok", "failed"} /\ pc' = "file" /\ at' = at + 1 /\ UNCHANGED <<args, forgone>>
      /\ \/ UNCHANGED disk
         \/ pc = "ok" /\ Convert!Written(Target, Convert!None)
         \/ pc = "ok" /\ ~keepOrig /\ Convert!Written(Source, Convert!None)
  BY DEF Convert!Finish, Convert!Continue, Convert!Removed, Convert!opts, Source, Target
<1>3. /\ Source \in Convert!Name /\ Target \in Convert!Name /\ Source # Target
      /\ Target.ext \notin {"gz", "tgz"} /\ Source.ext \in {"gz", "tgz"}
      /\ disk[Source] \in Content /\ disk[Target] \in Content
  BY <1>1, <1>2, HandledFiles
<1>4. CASE UNCHANGED disk
  <2>1. OwnData' /\ Convert!OriginalKept' /\ disk' \in [Convert!Name -> Content]
    BY <1>1, <1>2, <1>4, NothingWritten DEF OwnData, Convert!Name, Convert!Nobody, ConvertTypeOK
  <2> QED BY <1>1, <1>2, <2>1, ConvertNext
<1>5. disk[Source].of \in {Source, Convert!Nobody}
  BY <1>1, <1>3 DEF OwnData
<1>6. CASE pc = "ok" /\ Convert!Written(Target, Convert!None)
  <2>1. /\ disk' \in [Convert!Name -> Content] /\ disk'[Target] = Convert!None
        /\ \A n \in Convert!Name \ {Target} : disk'[n] = disk[n]
    BY <1>1, <1>3, <1>6, Write, Contents
  <2>2. OwnData'
    BY <1>1, <1>3, <2>1, WritesOwn
  <2>3. ASSUME NEW n \in Convert!ToSet(args), Target \in Convert!Copies(n)
        PROVE  Convert!Copies(n) # {Target}
    <3>1. disk[Target].of = n /\ (n = Target \/ disk[Target].whole)
      BY <2>3 DEF Convert!Copies
    <3>2. disk[Source].of = n
      BY <1>1, <1>6, <3>1 DEF Made
    <3>3. n = Source
      BY <1>1, <1>5, <3>2, ArgumentsAreNames
    <3>4. Source \in Convert!Copies(n)
      BY <1>3, <3>2, <3>3 DEF Convert!Copies
    <3> QED BY <1>3, <3>4
  <2>4. Convert!OriginalKept'
    BY <1>1, <1>2, <1>3, <2>1, <2>3, WriteKeeps
  <2> QED BY <1>1, <1>2, <2>1, <2>2, <2>4, ConvertNext
<1>7. CASE pc = "ok" /\ ~keepOrig /\ Convert!Written(Source, Convert!None)
  <2>1. /\ disk' \in [Convert!Name -> Content] /\ disk'[Source] = Convert!None
        /\ \A n \in Convert!Name \ {Source} : disk'[n] = disk[n]
    BY <1>1, <1>3, <1>7, Write, Contents
  <2>2. disk'[Source].of = Convert!Nobody
    BY <2>1, Contents
  <2>3. OwnData'
    BY <1>1, <1>3, <2>1, <2>2, WritesOwn
  <2>4. ASSUME NEW n \in Convert!ToSet(args), Source \in Convert!Copies(n)
        PROVE  Convert!Copies(n)' # {} \/ n \in forgone'
    <3>1. disk[Source].of = n
      BY <2>4 DEF Convert!Copies
    <3>2. n = Source
      BY <1>1, <1>5, <3>1, ArgumentsAreNames
    <3>3. CASE Source \in forgone
      BY <1>2, <3>2, <3>3
    <3>4. CASE Source \notin forgone
      <4>1. disk[Target].of = n /\ disk[Target].whole
        BY <1>1, <1>7, <3>1, <3>2, <3>4 DEF Made
      <4>2. disk'[Target] = disk[Target]
        BY <1>3, <2>1
      <4>3. Target \in Convert!Copies(n)'
        BY <1>3, <4>1, <4>2 DEF Convert!Copies
      <4> QED BY <4>3
    <3> QED BY <3>3, <3>4
  <2>5. Convert!OriginalKept'
    BY <1>1, <1>2, <1>3, <2>1, <2>4, WriteKeeps
  <2> QED BY <1>1, <1>2, <2>1, <2>3, <2>5, ConvertNext
<1> QED BY <1>2, <1>4, <1>6, <1>7

LEMMA ConvertBegins ==
  ASSUME Arguments \subseteq Seq(Convert!Name)
  PROVE  Convert!Init => Converting
<1> SUFFICES ASSUME Convert!Init PROVE Converting
  OBVIOUS
<1>1. args \in Seq(Convert!Name) /\ at = 1 /\ pc = "file"
  BY DEF Convert!Init
<1>2. PICK damaged \in SUBSET Convert!ToSet(args) :
        disk = [n \in Convert!Name |-> IF n \in Convert!ToSet(args) THEN Convert!Data(n, n \notin damaged)
                                       ELSE Convert!None]
  BY DEF Convert!Init
<1>3. \A n \in Convert!Name : Convert!Data(n, n \notin damaged) \in Content
                              /\ Convert!Data(n, n \notin damaged).of = n
  BY DEF Convert!Data, Content
<1>4. \A n \in Convert!Name : disk[n] = IF n \in Convert!ToSet(args) THEN Convert!Data(n, n \notin damaged)
                                        ELSE Convert!None
  BY <1>2
<1>5. disk \in [Convert!Name -> Content]
  BY <1>2, <1>3, Contents
<1>6. OwnData
  BY <1>3, <1>4, Contents DEF OwnData
<1>7. Convert!OriginalKept
  <2> SUFFICES ASSUME NEW n \in Convert!ToSet(args) PROVE n \in Convert!Copies(n)
    BY DEF Convert!OriginalKept
  <2>1. n \in Convert!Name
    BY <1>1 DEF Convert!ToSet
  <2>2. disk[n].of = n
    BY <1>3, <1>4, <2>1
  <2> QED BY <2>1, <2>2 DEF Convert!Copies
<1>8. ConvertTypeOK
  BY <1>1, <1>5 DEF ConvertTypeOK, Labels
<1>9. NotThere /\ Writing /\ Made
  BY <1>1 DEF NotThere, Writing, Made
<1> QED BY <1>6, <1>7, <1>8, <1>9 DEF Converting

(* The inductive invariant of gz2bz: what the files in hand hold at each   *)
(* step of the conversion.                                                 *)
THEOREM Converts == Convert!Spec => []Converting
<1>1. Converting /\ [Convert!Next]_Convert!vars => Converting'
  <2> SUFFICES ASSUME Converting, [Convert!Next]_Convert!vars PROVE Converting'
    OBVIOUS
  <2>1. CASE UNCHANGED Convert!vars
    <3>1. UNCHANGED <<args, at, pc, disk, forgone, keepOrig, overwrite>>
      BY <2>1 DEF Convert!vars, Convert!opts
    <3>2. Source' = Source /\ Target' = Target /\ Between' = Between
      BY <3>1, SameFiles
    <3>3. ConvertTypeOK' /\ OwnData'
      BY <3>1, <3>2 DEF Converting, ConvertTypeOK, OwnData, Labels, Content, Convert!Name, Convert!Nobody
    <3>4. NotThere' /\ Writing' /\ Made'
      BY <3>1, <3>2 DEF Converting, NotThere, Writing, Made, Convert!None, Convert!Data, Convert!Nobody
    <3>5. Convert!OriginalKept'
      BY <3>1, NothingWritten DEF Converting
    <3> QED BY <3>3, <3>4, <3>5 DEF Converting
  <2> QED BY <2>1, ConvertNextFile, ConvertPlain, ConvertOpens, ConvertDecompress, ConvertCompress,
             ConvertPipes, ConvertFinish DEF Convert!Next
<1>2. Convert!Init => Converting
  BY ArgumentAssumption, ConvertBegins
<1> QED BY <1>1, <1>2, PTL DEF Convert!Spec

(* In Tools, what runs as gz2bz is Convert, and the others never become it. *)
LEMMA ConvertAlone ==
  /\ Spec /\ tool = "gz2bz" => Convert!Spec
  /\ Spec /\ ~(tool = "gz2bz") => []~(tool = "gz2bz")
<1>1. Init /\ tool = "gz2bz" => Convert!Init
  BY DEF Init
<1>2. tool = "gz2bz" /\ [Next]_ofTools => (tool = "gz2bz")' /\ [Convert!Next]_Convert!vars
  BY DEF Next, ofTools, ofConvert, Convert!vars, Convert!opts
<1>3. ~(tool = "gz2bz") /\ [Next]_ofTools => ~(tool = "gz2bz")'
  BY DEF Next, ofTools
<1> QED BY <1>1, <1>2, <1>3, PTL DEF Spec, Convert!Spec

(* Whichever of its programs fails and whichever two files become one,     *)
(* after every step of gz2bz the data of every file are somewhere on the   *)
(* disk or were given up, for every sequence of names it is called with.   *)
THEOREM KeepsOriginals == Spec => []OriginalKept
<1>1. Converting => Convert!OriginalKept
  BY DEF Converting
<1> QED BY <1>1, Converts, ConvertAlone, PTL DEF OriginalKept

-----------------------------------------------------------------------------
(* tpwd.  Its characters (that those it puts in are strings is not         *)
(* something the provers know), what may be in TPWD_DIRS, and how that is  *)
(* written when it is put in.                                              *)
Char    == STRING \cup {"~", "$", "."}
Places  == Names \cup {Pwd!Tilde}
Put(v)  == IF v = Pwd!Tilde THEN Pwd!Tilde ELSE <<"$">> \o v

PwdTypeOK ==
  /\ env \in [Places -> Seq(Char)]
  /\ dirs \in Seq(Places) /\ entry \in Nat \ {0}
  /\ path \in Seq(Char)
  /\ pc \in {"getpwd", "shorten", "output", "done"}

(* The name is the directory's until it is shortened, and then one that    *)
(* leads to it.                                                            *)
Shortened ==
  /\ pc = "shorten" => pwd = path
  /\ pc \in {"output", "done"} =>
       pwd \in Seq(Char) /\ path \in Pwd!Expansions(pwd) /\ Len(pwd) <= Len(path)
  /\ pc = "done" => out[2] <= Len(pwd) /\ (~out[1] => out[2] = Len(pwd))

Naming == PwdTypeOK /\ Shortened

(* A set of numbers that is not empty and has a bound has a greatest one.  *)
LEMMA Greatest ==
  ASSUME NEW n \in Nat, NEW S, S \subseteq 1..n, S # {}
  PROVE  \E m \in S : \A k \in S : m >= k
<1> DEFINE T == {n - k : k \in S}
           less == OpToRel(<, Nat)
<1>1. T \subseteq Nat /\ T # {}
  <2>1. \A k \in S : k \in Int /\ n - k \in Nat
    OBVIOUS
  <2> QED BY <2>1
<1>2. PICK x \in T : \A y \in T : ~ (<<y, x>> \in less)
  <2> HIDE DEF T
  <2> QED BY <1>1, WFMin, NatLessThanWellFounded
<1>3. \A y \in T : y >= x
  <2> SUFFICES ASSUME NEW y \in T PROVE y >= x
    OBVIOUS
  <2>1. x \in Nat /\ y \in Nat
    BY <1>1
  <2>2. y < x => <<y, x>> \in less
    <3> HIDE DEF T
    <3> QED BY <2>1, Z3 DEF OpToRel
  <2> HIDE DEF T, less
  <2> QED BY <1>2, <2>1, <2>2
<1>4. PICK m \in S : x = n - m
  OBVIOUS
<1>5. \A k \in S : k \in Int /\ n - k \in T
  OBVIOUS
<1>6. \A k \in S : n - k >= n - m
  <2> HIDE DEF T
  <2> QED BY <1>3, <1>4, <1>5
<1>7. \A k \in S : m >= k
  <2> HIDE DEF T
  <2> QED BY <1>4, <1>5, <1>6
<1> QED BY <1>7

(* shorten_pwd takes a directory without the slashes at its end.           *)
LEMMA PwdStripped ==
  ASSUME NEW d \in Seq(Char)
  PROVE  Pwd!Stripped(d) \in Seq(Char)
<1> DEFINE kept == {n \in 1..Len(d) : d[n] # Pwd!Slash}
<1>1. CASE kept = {}
  BY <1>1 DEF Pwd!Stripped
<1>2. CASE kept # {}
  <2>1. PICK m \in kept : \A k \in kept : m >= k
    <3>1. Len(d) \in Nat /\ kept \subseteq 1..Len(d)
      OBVIOUS
    <3> HIDE DEF kept
    <3> QED BY <1>2, <3>1, Greatest
  <2>2. Pwd!Max(kept) \in kept
    <3> HIDE DEF kept
    <3> QED BY <2>1 DEF Pwd!Max
  <2>3. Pwd!Stripped(d) = SubSeq(d, 1, Pwd!Max(kept))
    BY <1>2 DEF Pwd!Stripped
  <2> DEFINE last == Pwd!Max(kept)
  <2>4. last \in 1..Len(d)
    BY <2>2
  <2> HIDE DEF kept, last
  <2>5. \A i \in 1..last : d[i] \in Char
    BY <2>4
  <2> QED BY <2>3, <2>4, <2>5, SubSeqProperties DEF last
<1> QED BY <1>1, <1>2

(* What is behind a prefix makes it whole again.                           *)
LEMMA PrefixAndRest ==
  ASSUME NEW p \in Seq(Char), NEW d \in Seq(Char), Pwd!IsPrefix(d, p)
  PROVE  LET rest == SubSeq(p, Len(d) + 1, Len(p))
         IN  rest \in Seq(Char) /\ Len(rest) = Len(p) - Len(d) /\ d \o rest = p
             /\ (rest # <<>> => rest[1] = p[Len(d) + 1])
<1> DEFINE rest == SubSeq(p, Len(d) + 1, Len(p))
<1>1. Len(d) <= Len(p) /\ SubSeq(p, 1, Len(d)) = d
  <2>1. SubSeq(d, 1, Len(d)) = d
    BY SubSeqFull
  <2> QED BY <2>1 DEF Pwd!IsPrefix
<1>2. /\ rest \in Seq(Char) /\ Len(rest) = Len(p) - Len(d)
      /\ \A i \in 1..Len(p) - Len(d) : rest[i] = p[Len(d) + i]
  BY <1>1, SubSeqProperties
<1>3. SubSeq(p, 1, Len(d)) \o rest = SubSeq(p, 1, Len(p))
  <2>1. Len(d) \in Nat /\ Len(p) \in Nat
    BY LenProperties
  <2>2. 1 \in 1..Len(p) + 1 /\ Len(d) \in 1 - 1..Len(p) /\ Len(p) \in Len(d)..Len(p)
    BY <1>1, <2>1
  <2> HIDE DEF rest
  <2> QED BY <2>2, ConcatAdjacentSubSeq DEF rest
<1>4. SubSeq(p, 1, Len(p)) = p
  BY SubSeqFull
<1>5. rest # <<>> => 1 \in 1..Len(p) - Len(d)
  BY <1>1, <1>2
<1> QED BY <1>1, <1>2, <1>3, <1>4, <1>5

(* What is behind a prefix is found behind it.                             *)
LEMMA AfterPrefix ==
  ASSUME NEW a \in Seq(Char), NEW b \in Seq(Char)
  PROVE  Pwd!IsPrefix(a, a \o b) /\ SubSeq(a \o b, Len(a) + 1, Len(a \o b)) = b
<1> DEFINE c == a \o b
<1>1. /\ c \in Seq(Char) /\ Len(c) = Len(a) + Len(b)
      /\ \A i \in 1..Len(a) + Len(b) : c[i] = IF i <= Len(a) THEN a[i] ELSE b[i - Len(a)]
  BY ConcatProperties
<1>2. Len(a) \in Nat /\ Len(b) \in Nat
  BY LenProperties
<1> HIDE DEF c
<1>3. /\ SubSeq(c, 1, Len(a)) \in Seq(Char) /\ Len(SubSeq(c, 1, Len(a))) = Len(a)
      /\ \A i \in 1..Len(a) : SubSeq(c, 1, Len(a))[i] = c[i]
  <2>1. \A i \in 1..Len(a) : c[i] \in Char
    BY <1>1, <1>2
  <2> QED BY <1>2, <2>1, SubSeqProperties
<1>4. SubSeq(c, 1, Len(a)) = a
  <2>1. \A i \in 1..Len(a) : SubSeq(c, 1, Len(a))[i] = a[i]
    BY <1>1, <1>2, <1>3
  <2> QED BY <1>3, <2>1, SeqEqual
<1>5. /\ SubSeq(c, Len(a) + 1, Len(c)) \in Seq(Char)
      /\ Len(SubSeq(c, Len(a) + 1, Len(c))) = Len(b)
      /\ \A i \in 1..Len(b) : SubSeq(c, Len(a) + 1, Len(c))[i] = c[Len(a) + i]
  <2>1. \A i \in Len(a) + 1..Len(c) : c[i] \in Char
    BY <1>1, <1>2
  <2> QED BY <1>1, <1>2, <2>1, SubSeqProperties
<1>6. SubSeq(c, Len(a) + 1, Len(c)) = b
  <2>1. \A i \in 1..Len(b) : SubSeq(c, Len(a) + 1, Len(c))[i] = b[i]
    BY <1>1, <1>2, <1>5
  <2> QED BY <1>5, <2>1, SeqEqual
<1>7. SubSeq(a, 1, Len(a)) = a
  BY SubSeqFull
<1>8. Len(a) <= Len(c)
  BY <1>1, <1>2
<1> QED BY <1>4, <1>6, <1>7, <1>8 DEF c, Pwd!IsPrefix

(* The paths, the values and the names are of those characters.            *)
LEMMA PathsOfChars ==
  /\ Paths \subseteq Seq(Char) /\ Values \subseteq Seq(Char) /\ Names \subseteq Seq(Char)
  /\ Lengths \subseteq Nat /\ MaxDirs \in Nat
<1>1. STRING \subseteq Char
  BY DEF Char
<1>2. Seq(STRING) \subseteq Seq(Char)
  BY <1>1, SeqMonotonic
<1> QED BY <1>2, PathAssumption

(* A name of one character.                                                *)
LEMMA OneLetter ==
  ASSUME NEW x \in Char
  PROVE  <<x>> \in Seq(Char) /\ Len(<<x>>) = 1
OBVIOUS

(* The length of a name as it is put in.                                   *)
LEMMA PutLength ==
  ASSUME NEW v \in Places
  PROVE  Put(v) \in Seq(Char) /\ Len(Put(v)) = Pwd!VarLen(v) + 1 /\ Pwd!VarLen(v) \in Nat
<1>1. v = Pwd!Tilde \/ v \in Seq(Char)
  BY PathsOfChars DEF Places
<1>2. CASE v = Pwd!Tilde
  <2>1. "~" \in Char
    BY DEF Char
  <2>2. Pwd!Tilde \in Seq(Char) /\ Len(Pwd!Tilde) = 1
    BY <2>1, OneLetter DEF Pwd!Tilde
  <2>3. Put(v) = Pwd!Tilde /\ Pwd!VarLen(v) = 0
    BY <1>2 DEF Put, Pwd!VarLen
  <2> QED BY <2>2, <2>3
<1>3. CASE v # Pwd!Tilde
  <2>0. "$" \in Char
    BY DEF Char
  <2>1. v \in Seq(Char) /\ <<"$">> \in Seq(Char) /\ Len(<<"$">>) = 1 /\ Len(v) \in Nat
    BY <1>1, <1>3, <2>0, OneLetter
  <2>2. <<"$">> \o v \in Seq(Char) /\ Len(<<"$">> \o v) = 1 + Len(v)
    BY <2>1, ConcatProperties
  <2> QED BY <1>3, <2>1, <2>2 DEF Put, Pwd!VarLen
<1> QED BY <1>2, <1>3

(* A name that is put in leads to the directory it is put in for, and is   *)
(* no longer than that.                                                    *)
LEMMA PwdReplaces ==
  ASSUME NEW v \in Places, env \in [Places -> Seq(Char)], pwd \in Seq(Char), Pwd!Fits(v)
  PROVE  /\ Pwd!Replaced(v) \in Seq(Char)
         /\ pwd \in Pwd!Expansions(Pwd!Replaced(v))
         /\ Len(Pwd!Replaced(v)) <= Len(pwd)
<1> DEFINE full == Pwd!Stripped(env[v])
           rest == SubSeq(pwd, Len(full) + 1, Len(pwd))
           new  == Put(v) \o rest
<1>1. full \in Seq(Char)
  BY PwdStripped
<1>2. /\ Len(full) >= 1 + Pwd!VarLen(v) /\ Pwd!IsPrefix(full, pwd)
      /\ Len(pwd) > Len(full) => pwd[Len(full) + 1] = Pwd!Slash
  BY DEF Pwd!Fits
<1>3. Pwd!Replaced(v) = new
  BY DEF Pwd!Replaced, Put
<1>4. Put(v) \in Seq(Char) /\ Len(Put(v)) = Pwd!VarLen(v) + 1 /\ Pwd!VarLen(v) \in Nat
  BY PutLength
<1> HIDE DEF full
<1>5. /\ rest \in Seq(Char) /\ Len(rest) = Len(pwd) - Len(full) /\ full \o rest = pwd
      /\ rest # <<>> => rest[1] = pwd[Len(full) + 1]
  BY <1>1, <1>2, PrefixAndRest
<1>6. Len(full) \in Nat /\ Len(pwd) \in Nat
  BY <1>1
<1>7. rest = <<>> \/ rest[1] = Pwd!Slash
  <2>1. rest # <<>> => Len(rest) > 0
    BY <1>5, EmptySeq
  <2> QED BY <1>2, <1>5, <1>6, <2>1
<1> HIDE DEF rest
<1>8. new \in Seq(Char) /\ Len(new) = Len(Put(v)) + Len(rest)
  BY <1>4, <1>5, ConcatProperties
<1>9. Pwd!IsPrefix(Put(v), new) /\ SubSeq(new, Pwd!VarLen(v) + 2, Len(new)) = rest
  <2>1. Len(Put(v)) + 1 = Pwd!VarLen(v) + 2
    BY <1>4
  <2> QED BY <1>4, <1>5, <2>1, AfterPrefix
<1> HIDE DEF new
<1>10. pwd \in Pwd!Expansions(new)
  BY <1>5, <1>7, <1>9 DEF Pwd!Expansions, Put, Places, full
<1> QED BY <1>2, <1>3, <1>4, <1>5, <1>6, <1>8, <1>10

(* Every step of tpwd: getcwd or PWD, each of the directories, the output. *)
LEMMA NamingKept ==
  ASSUME Naming, [Pwd!Next]_Pwd!vars
  PROVE  Naming'
<1>1. PwdTypeOK /\ Shortened
  BY DEF Naming
<1>2. ASSUME NEW name, Pwd!Found(name), name \in Seq(Char), UNCHANGED <<env, dirs, entry, out>>
      PROVE  Naming'
  BY <1>1, <1>2 DEF Pwd!Found, Naming, PwdTypeOK, Shortened, Places
<1>3. Pwd!Dot \in Seq(Char) /\ path \in Seq(Char)
  <2>1. "." \in Char
    BY DEF Char
  <2> QED BY <1>1, <2>1, OneLetter DEF Pwd!Dot, PwdTypeOK
<1>4. CASE Pwd!GetpwdFails
  BY <1>2, <1>3, <1>4 DEF Pwd!GetpwdFails
<1>5. CASE Pwd!Getpwd
  <2>1. UNCHANGED <<env, dirs, entry, out>> /\ pc = "getpwd"
    BY <1>5 DEF Pwd!Getpwd
  <2>2. \/ Pwd!Found(path) \/ Pwd!Found(Pwd!Dot)
        \/ UNCHANGED <<pwd, path, pc>>
    BY <1>5 DEF Pwd!Getpwd
  <2>3. CASE UNCHANGED <<pwd, path, pc>>
    BY <1>1, <2>1, <2>3 DEF Naming, PwdTypeOK, Shortened, Places
  <2> QED BY <1>2, <1>3, <2>1, <2>2, <2>3
<1>6. CASE Pwd!Shorten
  <2>1. pc = "shorten" /\ pwd = path /\ UNCHANGED <<env, dirs, path, out>>
    BY <1>1, <1>6 DEF Pwd!Shorten, Shortened
  <2>2. path \in Seq(Char) /\ dirs \in Seq(Places) /\ entry \in Nat \ {0} /\ env \in [Places -> Seq(Char)]
    BY <1>1 DEF PwdTypeOK
  <2>3. CASE entry > Len(dirs)
    <3>1. pc' = "output" /\ UNCHANGED <<entry, pwd>>
      BY <1>6, <2>3 DEF Pwd!Shorten
    <3>2. path \in Pwd!Expansions(pwd)'
      BY <2>1, <3>1 DEF Pwd!Expansions
    <3>3. Len(path) \in Nat
      BY <2>2
    <3> QED BY <1>1, <2>1, <2>2, <3>1, <3>2, <3>3 DEF Naming, PwdTypeOK, Shortened
  <2>4. CASE ~(entry > Len(dirs)) /\ Pwd!Fits(dirs[entry])
    <3>1. pc' = "output" /\ pwd' = Pwd!Replaced(dirs[entry]) /\ entry' = entry
      BY <1>6, <2>4 DEF Pwd!Shorten
    <3>2. dirs[entry] \in Places
      BY <2>2, <2>4
    <3>3. /\ Pwd!Replaced(dirs[entry]) \in Seq(Char)
          /\ pwd \in Pwd!Expansions(Pwd!Replaced(dirs[entry]))
          /\ Len(Pwd!Replaced(dirs[entry])) <= Len(pwd)
      BY <2>1, <2>2, <2>4, <3>2, PwdReplaces
    <3>4. Pwd!Expansions(pwd)' = Pwd!Expansions(pwd')
      BY <2>1 DEF Pwd!Expansions
    <3> QED BY <1>1, <2>1, <2>2, <3>1, <3>3, <3>4 DEF Naming, PwdTypeOK, Shortened
  <2>5. CASE ~(entry > Len(dirs)) /\ ~Pwd!Fits(dirs[entry])
    <3>1. entry' = entry + 1 /\ UNCHANGED <<pwd, pc>>
      BY <1>6, <2>5 DEF Pwd!Shorten
    <3> QED BY <1>1, <2>1, <2>2, <3>1 DEF Naming, PwdTypeOK, Shortened
  <2> QED BY <2>3, <2>4, <2>5
<1>7. ASSUME NEW len \in Lengths, NEW tlen \in Lengths, Pwd!Output(len, tlen) PROVE Naming'
  <2>1. /\ pc = "output" /\ pc' = "done" /\ out' = Pwd!Printed(len, tlen)
        /\ UNCHANGED <<env, dirs, entry, path, pwd>>
    BY <1>7 DEF Pwd!Output
  <2>2. pwd \in Seq(Char) /\ path \in Pwd!Expansions(pwd) /\ Len(pwd) <= Len(path)
    BY <1>1, <2>1 DEF Shortened
  <2>3. Len(pwd) \in Nat /\ len \in Nat /\ tlen \in Nat
    BY <2>2, PathsOfChars
  <2>4. out'[2] <= Len(pwd) /\ (~out'[1] => out'[2] = Len(pwd))
    <3>1. CASE len = 0 \/ Len(pwd) <= len
      <4>1. out' = <<FALSE, Len(pwd)>>
        BY <2>1, <3>1 DEF Pwd!Printed
      <4> QED BY <2>3, <4>1
    <3>2. CASE ~(len = 0 \/ Len(pwd) <= len)
      <4>1. out' = <<TRUE, IF tlen < len THEN len - tlen ELSE 0>>
        BY <2>1, <3>2 DEF Pwd!Printed
      <4> QED BY <2>3, <3>2, <4>1
    <3> QED BY <3>1, <3>2
  <2>5. Pwd!Expansions(pwd)' = Pwd!Expansions(pwd)
    BY <2>1 DEF Pwd!Expansions
  <2> QED BY <1>1, <2>1, <2>2, <2>4, <2>5 DEF Naming, PwdTypeOK, Shortened
<1>8. CASE UNCHANGED Pwd!vars
  <2>1. UNCHANGED <<env, dirs, entry, path, pwd, out, pc>>
    BY <1>8 DEF Pwd!vars
  <2>2. Pwd!Expansions(pwd)' = Pwd!Expansions(pwd)
    BY <2>1 DEF Pwd!Expansions
  <2> QED BY <1>1, <2>1, <2>2 DEF Naming, PwdTypeOK, Shortened
<1> QED BY <1>4, <1>5, <1>6, <1>7, <1>8 DEF Pwd!Next

(* The inductive invariant of tpwd.                                        *)
THEOREM Shortens == Pwd!Spec => []Naming
<1>1. Pwd!Init => Naming
  <2> SUFFICES ASSUME Pwd!Init PROVE Naming
    OBVIOUS
  <2>1. Values \subseteq Seq(Char) /\ Paths \subseteq Seq(Char) /\ MaxDirs \in Nat
    BY PathsOfChars
  <2>2. env \in [Places -> Seq(Char)] /\ path \in Seq(Char)
    BY <2>1 DEF Pwd!Init, Places
  <2>3. dirs \in Seq(Places)
    <3>1. PICK n \in 0..MaxDirs : dirs \in [1..n -> Places]
      BY DEF Pwd!Init, Pwd!BoundedSeq, Pwd!SeqOf, Places
    <3> QED BY <2>1, <3>1, SeqDef
  <2> QED BY <2>2, <2>3 DEF Pwd!Init, Naming, PwdTypeOK, Shortened
<1>2. Naming /\ [Pwd!Next]_Pwd!vars => Naming'
  BY NamingKept
<1> QED BY <1>1, <1>2, PTL DEF Pwd!Spec

(* In Tools, what runs as tpwd is Pwd, and the others never become it.     *)
LEMMA PwdAlone ==
  /\ Spec /\ tool = "tpwd" => Pwd!Spec
  /\ Spec /\ ~(tool = "tpwd") => []~(tool = "tpwd")
<1>1. Init /\ tool = "tpwd" => Pwd!Init
  BY DEF Init
<1>2. tool = "tpwd" /\ [Next]_ofTools => (tool = "tpwd")' /\ [Pwd!Next]_Pwd!vars
  BY DEF Next, ofTools, ofPwd, Pwd!vars
<1>3. ~(tool = "tpwd") /\ [Next]_ofTools => ~(tool = "tpwd")'
  BY DEF Next, ofTools
<1> QED BY <1>1, <1>2, <1>3, PTL DEF Spec, Pwd!Spec

(* Whatever directory tpwd is in and whatever the variables of TPWD_DIRS   *)
(* hold, what it prints is a name of that directory for a shell, or the    *)
(* end of such a name, and no longer than the path that getpwd found.      *)
THEOREM PrintsItsName == Spec => []NamesDirectory
<1>1. Naming => Pwd!NamesDirectory
  BY DEF Naming, PwdTypeOK, Shortened, Pwd!NamesDirectory
<1> QED BY <1>1, Shortens, PwdAlone, PTL DEF NamesDirectory

-----------------------------------------------------------------------------
(* foreach: parseArgs.  Where the words of the command begin, where the    *)
(* first null pointer is, and, if the command ends at c, where the values  *)
(* begin.                                                                  *)
ArgWord == Args!Word \cup {"foreach", "-J", Args!NULL, Args!MARKER, Args!Env}
Start   == Args!SkipDD(orig, optind)
End     == Args!FirstOf(orig, Args!NULL, optind)
ValuesStart(c) == Args!SkipDD(orig, c + 1)

GivenArgs ==
  /\ orig \in Seq(ArgWord) /\ optind \in Nat /\ optind >= 2
  /\ End \in optind..Len(orig) - 1 /\ orig[End] = Args!NULL
  /\ \A i \in optind..End - 1 : orig[i] \in Args!Word
  /\ \A i \in End + 1..Len(orig) - 1 : orig[i] = Args!Env
  /\ orig[Len(orig)] = Args!NULL

ArgsTypeOK ==
  /\ mem \in Seq(ArgWord) /\ Len(mem) = Len(orig)
  /\ argv \in Nat /\ written \in Nat /\ valuesAt \in Nat /\ found \in BOOLEAN /\ command = 1
  /\ pc \in {"command", "values", "run", "usage"}

(* What has not been read is as it was.                                    *)
Unread == \A i \in argv..Len(orig) : mem[i] = orig[i]

(* The words up to c are written, with the marker for {+}.                 *)
Mark(w)    == IF w = Args!Plus THEN Args!MARKER ELSE w
Taken(c)   == \A i \in Start..c - 1 : orig[i] \notin {Args!DD, Args!NULL} /\ mem[i - Start + 1] = Mark(orig[i])
HasPlus(c) == \E i \in Start..c - 1 : orig[i] = Args!Plus

(* The command ended at c; and the values have been written up to z.       *)
CommandEnded(c) ==
  /\ c \in Start..End /\ orig[c] \in {Args!DD, Args!NULL}
  /\ Taken(c) /\ (found <=> HasPlus(c))
  /\ valuesAt = c - Start + (IF found THEN 2 ELSE 3)
  /\ ~found => mem[c - Start + 1] = Args!MARKER
  /\ mem[valuesAt - 1] = Args!NULL
TakenValues(c, z) ==
  /\ z \in ValuesStart(c)..Len(orig)
  /\ \A i \in ValuesStart(c)..z - 1 : orig[i] # Args!NULL /\ mem[valuesAt + i - ValuesStart(c)] = orig[i]

TakingCommand ==
  pc = "command" =>
    /\ argv \in Start..End /\ written = argv - Start + 1
    /\ Taken(argv) /\ (found <=> HasPlus(argv))
TakingValues ==
  pc = "values" =>
    \E c \in Start..End :
      CommandEnded(c) /\ TakenValues(c, argv) /\ written = valuesAt + argv - ValuesStart(c)
ArgsTaken ==
  pc \in {"run", "usage"} =>
    \E c \in Start..End :
      /\ CommandEnded(c) /\ TakenValues(c, argv - 1)
      /\ orig[argv - 1] = Args!NULL /\ mem[valuesAt + argv - 1 - ValuesStart(c)] = Args!NULL
      /\ pc = "run" <=> argv - 1 > ValuesStart(c)

Rewriting == GivenArgs /\ ArgsTypeOK /\ Unread /\ TakingCommand /\ TakingValues /\ ArgsTaken

(* The place of a word that none of the words before it is.                *)
LEMMA FirstIs ==
  ASSUME NEW S, NEW list \in Seq(S), NEW word, NEW from \in Nat, NEW j \in from..Len(list),
         list[j] = word, \A k \in from..j - 1 : list[k] # word
  PROVE  Args!FirstOf(list, word, from) = j
<1> DEFINE P(m) == list[m] = word /\ \A k \in from..m - 1 : list[k] # word
<1>1. Len(list) \in Nat
  OBVIOUS
<1>2. \A m \in from..Len(list) : P(m) => m = j
  BY <1>1
<1>3. Args!FirstOf(list, word, from) = CHOOSE m \in from..Len(list) : P(m)
  BY DEF Args!FirstOf
<1>4. P(j)
  OBVIOUS
<1> HIDE DEF P
<1> QED BY <1>2, <1>3, <1>4

(* The texts that the program tells apart are different ones.              *)
LEMMA SixWords ==
  /\ Args!NULL \in ArgWord /\ Args!MARKER \in ArgWord /\ Args!DD \in ArgWord /\ Args!Env \in ArgWord
  /\ Args!Word \subseteq ArgWord
  /\ Args!NULL \notin Args!Word /\ Args!MARKER \notin Args!Word
  /\ Args!DD # Args!Plus /\ Args!DD # Args!NULL /\ Args!Plus # Args!NULL /\ Args!MARKER # Args!NULL
  /\ Args!Env \notin {Args!NULL, Args!MARKER, Args!DD, Args!Plus}
  /\ Args!MARKER \notin {Args!DD, Args!Plus}
BY DEF ArgWord, Args!Word, Args!NULL, Args!MARKER, Args!DD, Args!Plus, Args!Env

(* Where things are.                                                       *)
LEMMA ArgsPlaces ==
  ASSUME GivenArgs
  PROVE  /\ Len(orig) \in Nat /\ End \in Nat /\ Start \in Nat
         /\ Start \in {optind, optind + 1} /\ Start >= 2 /\ Start <= End
         /\ \A i \in optind..Len(orig) : orig[i] # Args!MARKER
         /\ \A c \in Start..End : /\ ValuesStart(c) \in Nat /\ ValuesStart(c) \in {c + 1, c + 2}
                                  /\ ValuesStart(c) <= Len(orig) /\ ValuesStart(c) > 1
         /\ orig[optind] # Args!DD => Start = optind
         /\ Start = IF orig[optind] = Args!DD THEN optind + 1 ELSE optind
<1>1. Len(orig) \in Nat /\ End \in Nat /\ optind \in Nat
  BY DEF GivenArgs
<1>2. Start = IF orig[optind] = Args!DD THEN optind + 1 ELSE optind
  BY DEF Start, Args!SkipDD
<1>3. orig[optind] = Args!DD => optind < End
  BY <1>1, SixWords DEF GivenArgs
<1>4. \A i \in optind..Len(orig) : orig[i] # Args!MARKER
  <2> SUFFICES ASSUME NEW i \in optind..Len(orig) PROVE orig[i] # Args!MARKER
    OBVIOUS
  <2>1. CASE i < End
    BY <1>1, <2>1, SixWords DEF GivenArgs
  <2>2. CASE i = End \/ i = Len(orig)
    BY <2>2, SixWords DEF GivenArgs
  <2>3. CASE i > End /\ i < Len(orig)
    BY <1>1, <2>3, SixWords DEF GivenArgs
  <2> QED BY <1>1, <2>1, <2>2, <2>3
<1>5. ASSUME NEW c \in Start..End
      PROVE  /\ ValuesStart(c) \in Nat /\ ValuesStart(c) \in {c + 1, c + 2}
             /\ ValuesStart(c) <= Len(orig) /\ ValuesStart(c) > 1
  <2>1. c \in Nat /\ c >= 2 /\ c <= End /\ End <= Len(orig) - 1
    BY <1>1, <1>2 DEF GivenArgs
  <2>2. ValuesStart(c) = IF orig[c + 1] = Args!DD THEN c + 2 ELSE c + 1
    BY <2>1 DEF ValuesStart, Args!SkipDD
  <2>3. orig[c + 1] = Args!DD => c + 1 # Len(orig)
    BY SixWords DEF GivenArgs
  <2> QED BY <1>1, <2>1, <2>2, <2>3
<1>6. optind >= 2
  BY DEF GivenArgs
<1>7. End >= optind
  BY <1>1 DEF GivenArgs
<1> QED BY <1>1, <1>2, <1>3, <1>4, <1>5, <1>6, <1>7

(* The input stays as it is, and with it the places in it.                 *)
LEMMA InputKept ==
  ASSUME GivenArgs, UNCHANGED <<orig, optind>>
  PROVE  /\ GivenArgs' /\ Start' = Start /\ End' = End
         /\ \A c : ValuesStart(c)' = ValuesStart(c)
<1>1. Start' = Start /\ End' = End /\ \A c : ValuesStart(c)' = ValuesStart(c)
  BY DEF Start, End, ValuesStart, Args!FirstOf
<1> QED BY <1>1 DEF GivenArgs

(* Writing one word into the array.                                        *)
LEMMA Writes ==
  ASSUME mem \in Seq(ArgWord), NEW i \in 1..Len(mem), NEW w \in ArgWord, NEW new, new = [mem EXCEPT ![i] = w]
  PROVE  /\ new \in Seq(ArgWord) /\ Len(new) = Len(mem) /\ new[i] = w
         /\ \A j \in 1..Len(mem) : j # i => new[j] = mem[j]
<1>1. new \in Seq(ArgWord) /\ Len(new) = Len(mem)
  BY ExceptSeq
<1> QED BY <1>1

(* A word of the command, or the marker, is written over a word that has   *)
(* been read.                                                              *)
LEMMA ArgsTakeCommand ==
  ASSUME Rewriting, Args!TakeWord, pc = "command"
  PROVE  Rewriting'
<1>1. GivenArgs /\ ArgsTypeOK /\ Unread
  BY DEF Rewriting
<1>2. argv \in Start..End /\ written = argv - Start + 1 /\ Taken(argv) /\ (found <=> HasPlus(argv))
  BY DEF Rewriting, TakingCommand
<1>3. /\ Len(orig) \in Nat /\ End \in Nat /\ Start \in Nat /\ Start >= 2 /\ Start >= optind
      /\ \A i \in optind..Len(orig) : orig[i] # Args!MARKER
  BY <1>1, ArgsPlaces DEF GivenArgs
<1>4. /\ Args!Arg # Args!NULL /\ mem' = [mem EXCEPT ![written] = Args!Arg]
      /\ argv' = argv + 1 /\ written' = written + 1
      /\ UNCHANGED <<pc, command, valuesAt, orig, optind>>
  BY DEF Args!TakeWord, Args!input
<1>5. found' = (found \/ Args!Arg = Args!MARKER)
  BY DEF Args!TakeWord
<1>6. End < Len(orig) /\ optind \in Nat
  BY <1>1 DEF GivenArgs
<1>7. mem[argv] = orig[argv]
  BY <1>1, <1>2, <1>3, <1>6 DEF Unread
<1>8. orig[argv] \notin {Args!DD, Args!NULL} /\ Args!Arg = Mark(orig[argv])
  BY <1>4, <1>7, SixWords DEF Args!Arg, Mark
<1>9. argv < End
  BY <1>1, <1>2, <1>3, <1>8 DEF GivenArgs
<1>10. orig[argv] \in Args!Word
  BY <1>1, <1>2, <1>3, <1>6, <1>9 DEF GivenArgs
<1>11. Args!Arg \in ArgWord
  BY <1>8, <1>10, SixWords DEF Mark
<1>12. written \in 1..Len(mem) /\ written < argv
  BY <1>1, <1>2, <1>3, <1>6 DEF ArgsTypeOK
<1>13. /\ mem' \in Seq(ArgWord) /\ Len(mem') = Len(mem) /\ mem'[written] = Args!Arg
       /\ \A j \in 1..Len(mem) : j # written => mem'[j] = mem[j]
  BY <1>1, <1>4, <1>11, <1>12, Writes DEF ArgsTypeOK
<1>14. GivenArgs' /\ Start' = Start /\ End' = End
  BY <1>1, <1>4, InputKept
<1>15. found' \in BOOLEAN
  BY <1>1, <1>5 DEF ArgsTypeOK
<1>16. ArgsTypeOK'
  BY <1>1, <1>4, <1>13, <1>15 DEF ArgsTypeOK
<1>17. Unread'
  BY <1>1, <1>2, <1>3, <1>4, <1>12, <1>13 DEF Unread, ArgsTypeOK
<1>18. Taken(argv)'
  <2>0. Start'..argv' - 1 = Start..argv /\ orig' = orig
    BY <1>2, <1>3, <1>4, <1>14
  <2> SUFFICES ASSUME NEW i \in Start..argv
               PROVE  orig[i] \notin {Args!DD, Args!NULL} /\ mem'[i - Start + 1] = Mark(orig[i])
    BY <1>14, <2>0 DEF Taken, Mark
  <2>1. CASE i = argv
    BY <1>2, <1>8, <1>13, <2>1
  <2>2. CASE i # argv
    <3>1. i \in Start..argv - 1 /\ i - Start + 1 \in 1..Len(mem) /\ i - Start + 1 # written
      BY <1>1, <1>2, <1>3, <1>6, <2>2 DEF ArgsTypeOK
    <3> QED BY <1>2, <1>13, <3>1 DEF Taken
  <2> QED BY <2>1, <2>2
<1>19. HasPlus(argv)' <=> HasPlus(argv) \/ orig[argv] = Args!Plus
  <2>1. Start'..argv' - 1 = Start..argv /\ orig' = orig /\ Start..argv = (Start..argv - 1) \cup {argv}
    BY <1>2, <1>3, <1>4, <1>14
  <2> QED BY <2>1 DEF HasPlus
<1>20. Args!Arg = Args!MARKER <=> orig[argv] = Args!Plus
  <2>1. orig[argv] # Args!MARKER
    BY <1>10, SixWords
  <2> QED BY <1>8, <2>1 DEF Mark
<1>21. found' <=> HasPlus(argv)'
  BY <1>2, <1>5, <1>19, <1>20
<1>22. TakingCommand'
  <2>1. argv' \in Start'..End' /\ written' = argv' - Start' + 1
    BY <1>2, <1>3, <1>4, <1>9, <1>14
  <2> QED BY <1>18, <1>21, <2>1 DEF TakingCommand
<1> QED BY <1>4, <1>14, <1>16, <1>17, <1>22 DEF Rewriting, TakingValues, ArgsTaken

(* What is written behind the command does not change it.                  *)
LEMMA CommandKept ==
  ASSUME GivenArgs, ArgsTypeOK, NEW c \in Start..End, CommandEnded(c), NEW j \in valuesAt..Len(mem),
         \A i \in 1..Len(mem) : i # j => mem'[i] = mem[i],
         UNCHANGED <<orig, optind, valuesAt, found>>
  PROVE  CommandEnded(c)'
<1>1. /\ Len(orig) \in Nat /\ End \in Nat /\ Start \in Nat /\ Start >= 2
      /\ End <= Len(orig) - 1 /\ Len(mem) = Len(orig) /\ valuesAt \in Nat
  BY ArgsPlaces DEF ArgsTypeOK, GivenArgs
<1>2. valuesAt = c - Start + (IF found THEN 2 ELSE 3) /\ c \in Nat
  BY <1>1 DEF CommandEnded
<1>3. Start' = Start /\ End' = End
  BY InputKept
<1>4. \A i \in 1..valuesAt - 1 : mem'[i] = mem[i]
  <2> SUFFICES ASSUME NEW i \in 1..valuesAt - 1 PROVE mem'[i] = mem[i]
    OBVIOUS
  <2>1. i \in 1..Len(mem) /\ i # j
    BY <1>1
  <2> QED BY <2>1
<1>5. Taken(c)'
  <2> SUFFICES ASSUME NEW i \in Start..c - 1
               PROVE  orig[i] \notin {Args!DD, Args!NULL} /\ mem'[i - Start + 1] = Mark(orig[i])
    BY <1>3 DEF Taken, Mark
  <2>1. i - Start + 1 \in 1..valuesAt - 1
    BY <1>1, <1>2
  <2> QED BY <1>4, <2>1 DEF CommandEnded, Taken
<1>6. ~found => mem'[c - Start + 1] = Args!MARKER
  <2>1. ~found => c - Start + 1 \in 1..valuesAt - 1
    BY <1>1, <1>2
  <2> QED BY <1>4, <2>1 DEF CommandEnded
<1>7. mem'[valuesAt - 1] = Args!NULL
  <2>1. valuesAt - 1 \in 1..valuesAt - 1
    BY <1>1, <1>2
  <2> QED BY <1>4, <2>1 DEF CommandEnded
<1>8. found' <=> HasPlus(c)'
  <2>1. HasPlus(c)' <=> HasPlus(c)
    BY <1>3 DEF HasPlus
  <2>2. found <=> HasPlus(c)
    BY DEF CommandEnded
  <2> QED BY <2>1, <2>2
<1>9. c \in Start'..End' /\ orig'[c] \in {Args!DD, Args!NULL}
  BY <1>3 DEF CommandEnded
<1>10. valuesAt' = c - Start' + (IF found' THEN 2 ELSE 3)
  BY <1>2, <1>3
<1>11. ~found' => mem'[c - Start' + 1] = Args!MARKER
  BY <1>3, <1>6
<1> QED BY <1>5, <1>7, <1>8, <1>9, <1>10, <1>11 DEF CommandEnded

(* A value is written over a word that has been read, perhaps itself.      *)
LEMMA ArgsTakeValue ==
  ASSUME Rewriting, Args!TakeWord, pc = "values"
  PROVE  Rewriting'
<1>1. GivenArgs /\ ArgsTypeOK /\ Unread
  BY DEF Rewriting
<1>2. PICK c \in Start..End :
        CommandEnded(c) /\ TakenValues(c, argv) /\ written = valuesAt + argv - ValuesStart(c)
  BY DEF Rewriting, TakingValues
<1>3. /\ Len(orig) \in Nat /\ End \in Nat /\ Start \in Nat /\ Start >= 2 /\ Start >= optind
      /\ \A i \in optind..Len(orig) : orig[i] # Args!MARKER
      /\ ValuesStart(c) \in Nat /\ ValuesStart(c) > c /\ ValuesStart(c) <= Len(orig)
  BY <1>1, ArgsPlaces DEF GivenArgs
<1>4. /\ Args!Arg # Args!NULL /\ mem' = [mem EXCEPT ![written] = Args!Arg]
      /\ argv' = argv + 1 /\ written' = written + 1
      /\ UNCHANGED <<pc, command, valuesAt, orig, optind>>
  BY DEF Args!TakeWord, Args!input
<1>5. found' = (found \/ Args!Arg = Args!MARKER)
  BY DEF Args!TakeWord
<1>6. argv \in ValuesStart(c)..Len(orig) /\ optind \in Nat /\ c \in Nat
  BY <1>1, <1>2, <1>3 DEF TakenValues, GivenArgs
<1>7. Args!Arg = orig[argv] /\ orig[argv] # Args!NULL
  <2>1. mem[argv] = orig[argv]
    BY <1>1, <1>3, <1>6 DEF Unread
  <2> QED BY <1>4, <2>1 DEF Args!Arg
<1>8. argv < Len(orig)
  BY <1>1, <1>3, <1>6, <1>7 DEF GivenArgs
<1>9. Args!Arg \in ArgWord /\ Args!Arg # Args!MARKER
  <2>1. argv \in optind..Len(orig) /\ argv \in 1..Len(orig)
    BY <1>3, <1>6, <1>8
  <2> QED BY <1>1, <1>3, <1>7, <2>1 DEF GivenArgs
<1>10. found' = found
  BY <1>1, <1>5, <1>9 DEF ArgsTypeOK
<1>11. /\ valuesAt = c - Start + (IF found THEN 2 ELSE 3)
       /\ valuesAt \in Nat /\ valuesAt >= 2 /\ valuesAt <= c + 1
  BY <1>1, <1>2, <1>3, <1>6 DEF CommandEnded, ArgsTypeOK
<1>12. written \in 1..Len(mem) /\ written <= argv /\ written >= valuesAt
  BY <1>1, <1>2, <1>3, <1>6, <1>8, <1>11 DEF ArgsTypeOK
<1>13. /\ mem' \in Seq(ArgWord) /\ Len(mem') = Len(mem) /\ mem'[written] = Args!Arg
       /\ \A j \in 1..Len(mem) : j # written => mem'[j] = mem[j]
  BY <1>1, <1>4, <1>9, <1>12, Writes DEF ArgsTypeOK
<1>14. GivenArgs' /\ Start' = Start /\ End' = End /\ ValuesStart(c)' = ValuesStart(c)
  BY <1>1, <1>4, InputKept
<1>15. ArgsTypeOK'
  BY <1>1, <1>4, <1>10, <1>13 DEF ArgsTypeOK
<1>16. Unread'
  BY <1>1, <1>3, <1>4, <1>6, <1>12, <1>13 DEF Unread, ArgsTypeOK
<1>17. CommandEnded(c)'
  BY <1>1, <1>2, <1>4, <1>10, <1>12, <1>13, <1>14, CommandKept
<1>18. TakenValues(c, argv)'
  <2>1. argv' \in ValuesStart(c)'..Len(orig')
    BY <1>3, <1>4, <1>6, <1>8, <1>14
  <2>2. ASSUME NEW i \in ValuesStart(c)..argv
        PROVE  orig[i] # Args!NULL /\ mem'[valuesAt + i - ValuesStart(c)] = orig[i]
    <3>1. CASE i = argv
      BY <1>2, <1>7, <1>13, <3>1
    <3>2. CASE i # argv
      <4>1. i \in ValuesStart(c)..argv - 1
        BY <1>6, <1>3, <3>2
      <4>2. valuesAt + i - ValuesStart(c) \in 1..Len(mem) /\ valuesAt + i - ValuesStart(c) # written
        BY <1>2, <1>3, <1>6, <1>11, <1>12, <4>1
      <4> QED BY <1>2, <1>13, <4>1, <4>2 DEF TakenValues
    <3> QED BY <3>1, <3>2
  <2>3. argv' - 1 = argv
    BY <1>4, <1>6, <1>3
  <2> QED BY <1>4, <1>14, <2>1, <2>2, <2>3 DEF TakenValues
<1>19. written' = valuesAt' + argv' - ValuesStart(c)'
  <2>1. valuesAt' = valuesAt /\ argv' = argv + 1 /\ written' = written + 1
    BY <1>4
  <2>2. valuesAt + argv - ValuesStart(c) + 1 = valuesAt + (argv + 1) - ValuesStart(c)
    <3>1. \A a, b, d \in Int : a + b - d + 1 = a + (b + 1) - d
      OBVIOUS
    <3>2. valuesAt \in Int /\ argv \in Int /\ ValuesStart(c) \in Int
      BY <1>1, <1>3 DEF ArgsTypeOK
    <3> QED BY <3>1, <3>2
  <2> QED BY <1>2, <1>14, <2>1, <2>2
<1>20. TakingValues'
  BY <1>14, <1>17, <1>18, <1>19 DEF TakingValues
<1> QED BY <1>4, <1>14, <1>15, <1>16, <1>20 DEF Rewriting, TakingCommand, ArgsTaken

(* The end of the command, with a marker if there was no {+}, takes the    *)
(* place of words that have been read; the values begin behind the "--".   *)
LEMMA ArgsEndCommand ==
  ASSUME Rewriting, Args!EndCommand
  PROVE  Rewriting'
<1>1. GivenArgs /\ ArgsTypeOK /\ Unread /\ pc = "command" /\ command = 1
  BY DEF Rewriting, Args!EndCommand, ArgsTypeOK
<1>2. argv \in Start..End /\ written = argv - Start + 1 /\ Taken(argv) /\ (found <=> HasPlus(argv))
  BY <1>1 DEF Rewriting, TakingCommand
<1>3. /\ Len(orig) \in Nat /\ End \in Nat /\ Start \in Nat /\ Start >= 2 /\ Start >= optind
      /\ \A i \in optind..Len(orig) : orig[i] # Args!MARKER
      /\ ValuesStart(argv) \in Nat /\ ValuesStart(argv) > argv /\ ValuesStart(argv) <= Len(orig)
  <2>1. /\ Len(orig) \in Nat /\ End \in Nat /\ Start \in Nat /\ Start >= 2
        /\ Start \in {optind, optind + 1} /\ optind \in Nat
        /\ \A i \in optind..Len(orig) : orig[i] # Args!MARKER
    BY <1>1, ArgsPlaces DEF GivenArgs
  <2>2. /\ ValuesStart(argv) \in Nat /\ ValuesStart(argv) \in {argv + 1, argv + 2}
        /\ ValuesStart(argv) <= Len(orig)
    BY <1>1, <1>2, ArgsPlaces
  <2>3. argv \in Nat
    BY <1>1 DEF ArgsTypeOK
  <2>4. Start >= optind
    BY <2>1
  <2>5. ValuesStart(argv) > argv
    BY <2>2, <2>3
  <2> QED BY <2>1, <2>2, <2>4, <2>5
<1>4. /\ Args!Arg = Args!NULL
      /\ mem' = Args!ReplaceAt(IF found THEN mem ELSE Args!ReplaceAt(mem, written + 1, Args!NULL),
                               written, Args!Terminator[1])
      /\ written' = written + Len(Args!Terminator)
      /\ UNCHANGED <<found, command, orig, optind>>
  BY DEF Args!EndCommand, Args!input
<1>5. /\ End < Len(orig) /\ Len(mem) = Len(orig) /\ mem \in Seq(ArgWord) /\ optind \in Nat
      /\ argv \in Nat /\ written \in Nat /\ valuesAt \in Nat
  BY <1>1 DEF GivenArgs, ArgsTypeOK
<1>6. written \in 1..Len(mem) /\ written + 1 \in 1..Len(mem) /\ written < argv
  BY <1>2, <1>3, <1>5
<1>7. orig[argv] \in {Args!DD, Args!NULL}
  <2>1. mem[argv] = orig[argv]
    BY <1>1, <1>2, <1>3, <1>5 DEF Unread
  <2> QED BY <1>1, <1>4, <2>1, SixWords DEF Args!Arg
<1>8. /\ mem' \in Seq(ArgWord) /\ Len(mem') = Len(mem)
      /\ \A j \in 1..Len(mem) : j < written \/ j > written + 1 => mem'[j] = mem[j]
      /\ mem'[written] = IF found THEN Args!NULL ELSE Args!MARKER
      /\ ~found => mem'[written + 1] = Args!NULL
      /\ written' = written + (IF found THEN 1 ELSE 2)
  <2>1. CASE found
    <3>1. mem' = [mem EXCEPT ![written] = Args!NULL] /\ written' = written + 1
      BY <1>4, <2>1 DEF Args!ReplaceAt, Args!Terminator
    <3>2. /\ mem' \in Seq(ArgWord) /\ Len(mem') = Len(mem) /\ mem'[written] = Args!NULL
          /\ \A j \in 1..Len(mem) : j # written => mem'[j] = mem[j]
      BY <1>5, <1>6, <3>1, SixWords, Writes
    <3> QED BY <1>5, <2>1, <3>1, <3>2
  <2>2. CASE ~found
    <3> DEFINE ended == [mem EXCEPT ![written + 1] = Args!NULL]
    <3>1. mem' = [ended EXCEPT ![written] = Args!MARKER] /\ written' = written + 2
      BY <1>4, <2>2 DEF Args!ReplaceAt, Args!Terminator
    <3>2. /\ ended \in Seq(ArgWord) /\ Len(ended) = Len(mem) /\ ended[written + 1] = Args!NULL
          /\ \A j \in 1..Len(mem) : j # written + 1 => ended[j] = mem[j]
      BY <1>5, <1>6, SixWords, Writes
    <3> HIDE DEF ended
    <3>3. mem' \in Seq(ArgWord) /\ Len(mem') = Len(ended)
      BY <1>6, <3>1, <3>2, SixWords, ExceptSeq
    <3>4. mem'[written] = Args!MARKER /\ \A j \in 1..Len(mem) : j # written => mem'[j] = ended[j]
      BY <1>6, <3>1, <3>2
    <3>5. mem'[written + 1] = Args!NULL
      BY <1>5, <1>6, <3>2, <3>4
    <3> QED BY <1>5, <2>2, <3>1, <3>2, <3>3, <3>4, <3>5
  <2> QED BY <2>1, <2>2
<1>9. GivenArgs' /\ Start' = Start /\ End' = End /\ \A c : ValuesStart(c)' = ValuesStart(c)
  BY <1>1, <1>4, InputKept
<1>10. Taken(argv) /\ Start < argv => mem[1] # Args!NULL
  <2>1. CASE Start < argv
    <3>1. Start \in Start..argv - 1 /\ Start - Start + 1 = 1
      BY <1>3, <1>5, <2>1
    <3>2. mem[1] = Mark(orig[Start]) /\ orig[Start] # Args!NULL
      BY <1>2, <3>1 DEF Taken
    <3> QED BY <3>2, SixWords DEF Mark
  <2> QED BY <2>1
<1>11. mem'[command] # Args!NULL
  <2>1. CASE Start < argv
    <3>1. 1 \in 1..Len(mem) /\ 1 < written
      BY <1>2, <1>3, <1>5, <2>1
    <3> QED BY <1>1, <1>2, <1>8, <1>10, <2>1, <3>1
  <2>2. CASE ~(Start < argv)
    <3>1. written = 1 /\ Start..argv - 1 = {}
      BY <1>2, <1>3, <1>5, <2>2
    <3>2. ~found
      BY <1>2, <3>1 DEF HasPlus
    <3> QED BY <1>1, <1>8, <3>1, <3>2, SixWords
  <2> QED BY <2>1, <2>2
<1>12. pc' = "values" /\ valuesAt' = written' /\ argv' = Args!SkipDD(mem', argv + 1)
  BY <1>11 DEF Args!EndCommand
<1>13. argv' = ValuesStart(argv)
  <2>1. argv + 1 \in 1..Len(mem) /\ argv + 1 > written + 1 /\ argv + 1 \in argv..Len(orig)
    BY <1>2, <1>5, <1>6, <1>3
  <2>2. mem'[argv + 1] = orig[argv + 1]
    BY <1>1, <1>8, <2>1 DEF Unread
  <2> QED BY <1>12, <2>2 DEF ValuesStart, Args!SkipDD
<1>14. ArgsTypeOK'
  <2>1. found' \in BOOLEAN
    BY <1>1, <1>4 DEF ArgsTypeOK
  <2>2. written' \in Nat
    BY <1>5, <1>8
  <2> QED BY <1>1, <1>3, <1>4, <1>5, <1>8, <1>12, <1>13, <2>1, <2>2 DEF ArgsTypeOK
<1>15. Unread'
  <2> SUFFICES ASSUME NEW i \in argv'..Len(orig) PROVE mem'[i] = orig[i]
    BY <1>4 DEF Unread
  <2>1. i \in argv..Len(orig) /\ i \in 1..Len(mem) /\ i > written + 1
    BY <1>2, <1>3, <1>5, <1>6, <1>13
  <2> QED BY <1>1, <1>8, <2>1 DEF Unread
<1>16. \E c \in Start'..End' : c = argv
  BY <1>2, <1>9
<1>17. ASSUME NEW c \in Start'..End', c = argv
       PROVE  CommandEnded(c)' /\ TakenValues(c, argv)' /\ written' = valuesAt' + argv' - ValuesStart(c)'
  <2>1. Taken(c)'
    <3> SUFFICES ASSUME NEW i \in Start..c - 1
                 PROVE  orig[i] \notin {Args!DD, Args!NULL} /\ mem'[i - Start + 1] = Mark(orig[i])
      BY <1>4, <1>9 DEF Taken, Mark
    <3>1. i - Start + 1 \in 1..Len(mem) /\ i - Start + 1 < written
      BY <1>2, <1>3, <1>5, <1>17
    <3> QED BY <1>2, <1>8, <1>17, <3>1 DEF Taken
  <2>2. found' <=> HasPlus(c)'
    BY <1>2, <1>4, <1>9, <1>17 DEF HasPlus
  <2>3. valuesAt' = c - Start' + (IF found' THEN 2 ELSE 3)
    <3>1. valuesAt' = argv - Start + 1 + (IF found THEN 1 ELSE 2)
      BY <1>2, <1>8, <1>12
    <3>2. argv - Start \in Int
      BY <1>3, <1>5
    <3>3. CASE found
      BY <1>4, <1>9, <1>17, <3>1, <3>2, <3>3
    <3>4. CASE ~found
      BY <1>4, <1>9, <1>17, <3>1, <3>2, <3>4
    <3> QED BY <3>3, <3>4
  <2>4. ~found' => mem'[c - Start' + 1] = Args!MARKER
    BY <1>2, <1>4, <1>8, <1>9, <1>17
  <2>5. mem'[valuesAt' - 1] = Args!NULL
    <3>1. CASE found
      <4>1. valuesAt' - 1 = written
        BY <1>5, <1>8, <1>12, <3>1
      <4> QED BY <1>8, <3>1, <4>1
    <3>2. CASE ~found
      <4>1. valuesAt' - 1 = written + 1
        BY <1>5, <1>8, <1>12, <3>2
      <4> QED BY <1>8, <3>2, <4>1
    <3> QED BY <3>1, <3>2
  <2>6. orig'[c] \in {Args!DD, Args!NULL}
    BY <1>4, <1>7, <1>17
  <2>7. CommandEnded(c)'
    BY <2>1, <2>2, <2>3, <2>4, <2>5, <2>6 DEF CommandEnded
  <2>8. ValuesStart(c)' = argv' /\ argv' \in Nat /\ argv' <= Len(orig')
    BY <1>3, <1>4, <1>9, <1>13, <1>17
  <2>9. TakenValues(c, argv)'
    <3>1. Len(orig') \in Nat
      BY <1>3, <1>4
    <3>2. \A a, b \in Nat : a <= b => a \in a..b /\ a..a - 1 = {}
      OBVIOUS
    <3>3. argv' \in argv'..Len(orig') /\ argv'..argv' - 1 = {}
      BY <2>8, <3>1, <3>2, Zenon
    <3>4. argv' \in ValuesStart(c)'..Len(orig') /\ ValuesStart(c)'..argv' - 1 = {}
      BY <2>8, <3>3, Zenon
    <3> QED BY <3>4 DEF TakenValues
  <2>10. written' = valuesAt' + argv' - ValuesStart(c)'
    <3>1. \A a, b \in Int : a = a + b - b
      OBVIOUS
    <3>2. valuesAt' \in Int /\ argv' \in Int
      BY <1>14 DEF ArgsTypeOK
    <3> QED BY <1>12, <2>8, <3>1, <3>2
  <2> QED BY <2>7, <2>9, <2>10
<1>18. TakingValues'
  BY <1>16, <1>17 DEF TakingValues
<1> QED BY <1>9, <1>12, <1>14, <1>15, <1>18 DEF Rewriting, TakingCommand, ArgsTaken

(* The null pointer ends the values.                                       *)
LEMMA ArgsEndValues ==
  ASSUME Rewriting, Args!EndValues
  PROVE  Rewriting'
<1>1. GivenArgs /\ ArgsTypeOK /\ Unread /\ pc = "values"
  BY DEF Rewriting, Args!EndValues
<1>2. PICK c \in Start..End :
        CommandEnded(c) /\ TakenValues(c, argv) /\ written = valuesAt + argv - ValuesStart(c)
  BY <1>1 DEF Rewriting, TakingValues
<1>3. /\ Len(orig) \in Nat /\ End \in Nat /\ Start \in Nat /\ Start >= 2
      /\ ValuesStart(c) \in Nat /\ ValuesStart(c) > c
  <2>1. /\ Len(orig) \in Nat /\ End \in Nat /\ Start \in Nat /\ Start >= 2
    BY <1>1, ArgsPlaces
  <2>2. ValuesStart(c) \in Nat /\ ValuesStart(c) \in {c + 1, c + 2}
    BY <1>1, ArgsPlaces
  <2> QED BY <2>1, <2>2
<1>4. /\ Args!Arg = Args!NULL /\ mem' = [mem EXCEPT ![written] = Args!NULL]
      /\ argv' = argv + 1 /\ written' = written + 1
      /\ pc' = IF mem'[valuesAt] = Args!NULL THEN "usage" ELSE "run"
      /\ UNCHANGED <<found, command, valuesAt, orig, optind>>
  BY DEF Args!EndValues, Args!input
<1>5. argv \in ValuesStart(c)..Len(orig) /\ c \in Nat /\ argv \in Nat
  BY <1>1, <1>2, <1>3 DEF TakenValues, ArgsTypeOK
<1>6. orig[argv] = Args!NULL
  <2>1. mem[argv] = orig[argv]
    BY <1>1, <1>3, <1>5 DEF Unread
  <2> QED BY <1>1, <1>4, <2>1 DEF Args!Arg
<1>7. /\ valuesAt = c - Start + (IF found THEN 2 ELSE 3)
      /\ valuesAt \in Nat /\ valuesAt >= 2 /\ valuesAt <= c + 1
  BY <1>1, <1>2, <1>3, <1>5 DEF CommandEnded, ArgsTypeOK
<1>8. written \in 1..Len(mem) /\ written <= argv /\ written >= valuesAt
  BY <1>1, <1>2, <1>3, <1>5, <1>7 DEF ArgsTypeOK
<1>9. /\ mem' \in Seq(ArgWord) /\ Len(mem') = Len(mem) /\ mem'[written] = Args!NULL
      /\ \A j \in 1..Len(mem) : j # written => mem'[j] = mem[j]
  BY <1>1, <1>4, <1>8, SixWords, Writes DEF ArgsTypeOK
<1>10. GivenArgs' /\ Start' = Start /\ End' = End /\ ValuesStart(c)' = ValuesStart(c)
  BY <1>1, <1>4, InputKept
<1>11. ArgsTypeOK'
  BY <1>1, <1>4, <1>9 DEF ArgsTypeOK
<1>12. Unread'
  BY <1>1, <1>3, <1>4, <1>5, <1>8, <1>9 DEF Unread, ArgsTypeOK
<1>13. CommandEnded(c)'
  BY <1>1, <1>2, <1>4, <1>8, <1>9, <1>10, CommandKept
<1>14. argv' - 1 = argv
  BY <1>4, <1>5
<1>15. ASSUME NEW i \in ValuesStart(c)..argv - 1
       PROVE  orig[i] # Args!NULL /\ mem'[valuesAt + i - ValuesStart(c)] = orig[i]
  <2>1. valuesAt + i - ValuesStart(c) \in 1..Len(mem) /\ valuesAt + i - ValuesStart(c) # written
    BY <1>2, <1>3, <1>5, <1>7, <1>8
  <2> QED BY <1>2, <1>9, <2>1 DEF TakenValues
<1>16. (pc' = "run" <=> argv > ValuesStart(c)) /\ pc' \in {"run", "usage"}
  <2>1. CASE argv = ValuesStart(c)
    <3>1. written = valuesAt
      BY <1>2, <1>3, <1>5, <1>7, <2>1
    <3> QED BY <1>3, <1>4, <1>9, <2>1, <3>1
  <2>2. CASE argv > ValuesStart(c)
    <3>1. ValuesStart(c) \in ValuesStart(c)..argv - 1 /\ valuesAt + ValuesStart(c) - ValuesStart(c) = valuesAt
      BY <1>3, <1>5, <1>7, <2>2
    <3>2. mem'[valuesAt] # Args!NULL
      BY <1>15, <3>1
    <3> QED BY <1>4, <2>2, <3>2
  <2> QED BY <1>3, <1>5, <2>1, <2>2
<1>17. valuesAt + argv - ValuesStart(c) = written
  BY <1>2
<1>18. ASSUME NEW b \in Start'..End', b = c, NEW z, z = argv' - 1
       PROVE  /\ CommandEnded(b)' /\ orig'[z] = Args!NULL
              /\ z \in ValuesStart(b)'..Len(orig')
              /\ \A i \in ValuesStart(b)'..z - 1 :
                   orig'[i] # Args!NULL /\ mem'[valuesAt' + i - ValuesStart(b)'] = orig'[i]
              /\ mem'[valuesAt' + z - ValuesStart(b)'] = Args!NULL
              /\ (pc' = "run") <=> (z > ValuesStart(b)')
  <2>1. z = argv /\ ValuesStart(b)' = ValuesStart(c) /\ orig' = orig /\ valuesAt' = valuesAt
    BY <1>4, <1>10, <1>14, <1>18
  <2> QED BY <1>5, <1>6, <1>9, <1>13, <1>15, <1>16, <1>17, <1>18, <2>1
<1>19. ArgsTaken'
  <2>1. PICK b \in Start'..End' : b = c
    BY <1>10
  <2> QED BY <1>18, <2>1 DEF ArgsTaken, TakenValues
<1> QED BY <1>10, <1>11, <1>12, <1>16, <1>19 DEF Rewriting, TakingCommand, TakingValues

(* A step of something else.                                               *)
LEMMA ArgsKept ==
  ASSUME Rewriting, UNCHANGED Args!vars
  PROVE  Rewriting'
<1> SUFFICES ASSUME UNCHANGED <<mem, argv, written, found, pc, command, valuesAt, orig, optind>>
             PROVE  Rewriting'
  BY DEF Args!vars, Args!input
<1>1. Start' = Start /\ End' = End /\ \A c : ValuesStart(c)' = ValuesStart(c)
  BY DEF Start, End, ValuesStart, Args!FirstOf
<1> QED BY <1>1 DEF Rewriting, GivenArgs, ArgsTypeOK, Unread, TakingCommand, TakingValues, ArgsTaken,
                    CommandEnded, TakenValues, Taken, HasPlus

(* Three words, or fewer, stand before the words of the command.           *)
LEMMA SkippedWords ==
  \A skipped \in Args!Skipped : skipped \in Seq(ArgWord) /\ Len(skipped) \in Nat
<1>1. "-J" \in ArgWord /\ Args!DD \in ArgWord
  BY SixWords DEF ArgWord
<1>2. <<>> \in Seq(ArgWord) /\ Len(<<>>) = 0
  OBVIOUS
<1>3. <<"-J">> \in Seq(ArgWord) /\ <<Args!DD>> \in Seq(ArgWord) /\ <<"-J", Args!DD>> \in Seq(ArgWord)
  BY <1>1
<1>4. \A s \in Seq(ArgWord) : Len(s) \in Nat
  OBVIOUS
<1>5. \A s \in Args!Skipped : s \in Seq(ArgWord)
  <2>1. \A s \in Args!Skipped : s = <<>> \/ s = <<"-J">> \/ s = <<Args!DD>> \/ s = <<"-J", Args!DD>>
    BY Zenon DEF Args!Skipped
  <2> QED BY <1>2, <1>3, <2>1, Zenon
<1> QED BY <1>4, <1>5, Zenon

(* What main and getopt leave to parseArgs.                                *)
LEMMA ArgsBegin ==
  ASSUME Args!Init
  PROVE  Rewriting
<1>1. PICK skipped \in Args!Skipped, text \in Args!BoundedSeq(Args!Word, MaxWords), nenv \in 0..MaxEnv :
        /\ optind = 2 + Len(skipped)
        /\ orig = <<"foreach">> \o skipped \o text \o <<Args!NULL>> \o [i \in 1..nenv |-> Args!Env] \o <<Args!NULL>>
  BY DEF Args!Init
<1>2. /\ mem = orig /\ argv = Args!SkipDD(orig, optind) /\ command = 1 /\ written = 1
      /\ found = FALSE /\ pc = "command" /\ valuesAt = 0
  BY DEF Args!Init, Args!OutStart
<1>3. skipped \in Seq(ArgWord) /\ Len(skipped) \in Nat /\ optind \in Nat /\ optind >= 2
  BY <1>1, SkippedWords
<1>4. text \in Seq(Args!Word) /\ Len(text) \in Nat /\ text \in Seq(ArgWord)
  <2>1. PICK m \in 0..MaxWords : text \in [1..m -> Args!Word]
    BY DEF Args!BoundedSeq, Args!SeqOf
  <2>2. m \in Nat
    BY WordAssumption
  <2> QED BY <2>1, <2>2, SixWords
<1> DEFINE envs == [i \in 1..nenv |-> Args!Env]
           head == <<"foreach">> \o skipped
           told == head \o text
           words == told \o <<Args!NULL>>
           more == words \o envs
<1>5. nenv \in Nat
  BY WordAssumption
<1>6. envs \in Seq(ArgWord) /\ Len(envs) = nenv /\ \A i \in 1..nenv : envs[i] = Args!Env
  BY <1>5, SixWords
<1>7. <<Args!NULL>> \in Seq(ArgWord) /\ <<"foreach">> \in Seq(ArgWord)
      /\ Len(<<Args!NULL>>) = 1 /\ Len(<<"foreach">>) = 1 /\ <<Args!NULL>>[1] = Args!NULL
  BY SixWords DEF ArgWord
<1> HIDE DEF envs
<1>8. head \in Seq(ArgWord) /\ Len(head) = optind - 1
  BY <1>1, <1>3, <1>7, ConcatProperties
<1> HIDE DEF head
<1>9. /\ told \in Seq(ArgWord) /\ Len(told) = optind - 1 + Len(text)
      /\ \A i \in optind..optind - 1 + Len(text) : told[i] \in Args!Word
  <2>1. /\ told \in Seq(ArgWord) /\ Len(told) = Len(head) + Len(text)
        /\ \A i \in 1..Len(head) + Len(text) : told[i] = IF i <= Len(head) THEN head[i] ELSE text[i - Len(head)]
    BY <1>4, <1>8, ConcatProperties
  <2> SUFFICES ASSUME NEW i \in optind..optind - 1 + Len(text) PROVE told[i] \in Args!Word
    BY <1>8, <2>1
  <2>2. i \in 1..Len(head) + Len(text) /\ ~(i <= Len(head)) /\ i - Len(head) \in 1..Len(text)
    BY <1>3, <1>4, <1>8
  <2> QED BY <1>4, <2>1, <2>2
<1> HIDE DEF told
<1>10. /\ words \in Seq(ArgWord) /\ Len(words) = optind + Len(text)
       /\ \A i \in optind..optind - 1 + Len(text) : words[i] \in Args!Word
       /\ words[optind + Len(text)] = Args!NULL
  <2>1. /\ words \in Seq(ArgWord) /\ Len(words) = Len(told) + 1
        /\ \A i \in 1..Len(told) + 1 : words[i] = IF i <= Len(told) THEN told[i] ELSE <<Args!NULL>>[i - Len(told)]
    BY <1>7, <1>9, ConcatProperties
  <2>2. Len(words) = optind + Len(text)
    BY <1>3, <1>4, <1>9, <2>1
  <2>3. words[optind + Len(text)] = Args!NULL
    <3>1. /\ optind + Len(text) \in 1..Len(told) + 1 /\ ~(optind + Len(text) <= Len(told))
         /\ optind + Len(text) - Len(told) = 1
      BY <1>3, <1>4, <1>9
    <3> QED BY <1>7, <2>1, <3>1
  <2> SUFFICES ASSUME NEW i \in optind..optind - 1 + Len(text) PROVE words[i] \in Args!Word
    BY <2>1, <2>2, <2>3
  <2>4. i \in 1..Len(told) + 1 /\ i <= Len(told)
    BY <1>3, <1>4, <1>9
  <2> QED BY <1>9, <2>1, <2>4
<1> HIDE DEF words
<1> DEFINE n == optind + Len(text)
<1>11. /\ more \in Seq(ArgWord) /\ Len(more) = n + nenv
       /\ \A i \in 1..n : more[i] = words[i]
       /\ \A i \in n + 1..n + nenv : more[i] = Args!Env
  <2>1. /\ more \in Seq(ArgWord) /\ Len(more) = n + nenv
        /\ \A i \in 1..n + nenv : more[i] = IF i <= n THEN words[i] ELSE envs[i - n]
    <3>1. /\ more \in Seq(ArgWord) /\ Len(more) = Len(words) + Len(envs)
          /\ \A i \in 1..Len(words) + Len(envs) : more[i] = IF i <= Len(words) THEN words[i] ELSE envs[i - Len(words)]
      BY <1>6, <1>10, ConcatProperties
    <3>2. Len(words) = n /\ Len(envs) = nenv
      BY <1>6, <1>10
    <3> HIDE DEF n, more
    <3> QED BY <3>1, <3>2, Zenon
  <2>2. n \in Nat
    BY <1>3, <1>4
  <2> HIDE DEF n, more
  <2>3. \A i \in 1..n : more[i] = words[i]
    BY <1>5, <2>1, <2>2
  <2>4. ASSUME NEW i \in n + 1..n + nenv PROVE more[i] = Args!Env
    <3>1. i \in 1..n + nenv /\ ~(i <= n) /\ i - n \in 1..nenv
      BY <1>5, <2>2
    <3> QED BY <1>6, <2>1, <3>1
  <2> QED BY <2>1, <2>3, <2>4
<1>12. n \in Nat /\ n >= optind /\ n >= 2
  BY <1>3, <1>4
<1> HIDE DEF more
<1>13. orig = more \o <<Args!NULL>>
  BY <1>1 DEF more, words, told, head, envs
<1>14. /\ orig \in Seq(ArgWord) /\ Len(orig) = n + nenv + 1
       /\ \A i \in 1..n + nenv : orig[i] = more[i]
       /\ orig[n + nenv + 1] = Args!NULL
  <2> HIDE DEF n
  <2>1. /\ orig \in Seq(ArgWord) /\ Len(orig) = n + nenv + 1
        /\ \A i \in 1..n + nenv + 1 : orig[i] = IF i <= n + nenv THEN more[i] ELSE <<Args!NULL>>[i - (n + nenv)]
    <3>1. /\ orig \in Seq(ArgWord) /\ Len(orig) = Len(more) + Len(<<Args!NULL>>)
          /\ \A i \in 1..Len(more) + Len(<<Args!NULL>>) :
               orig[i] = IF i <= Len(more) THEN more[i] ELSE <<Args!NULL>>[i - Len(more)]
      <4>1. \A s, t \in Seq(ArgWord) :
              /\ s \o t \in Seq(ArgWord) /\ Len(s \o t) = Len(s) + Len(t)
              /\ \A i \in 1..Len(s) + Len(t) : (s \o t)[i] = IF i <= Len(s) THEN s[i] ELSE t[i - Len(s)]
        BY ConcatProperties
      <4> QED BY <1>7, <1>11, <1>13, <4>1, Zenon
    <3>2. Len(more) = n + nenv /\ Len(<<Args!NULL>>) = 1
      BY <1>7, <1>11
    <3> QED BY <3>1, <3>2, Zenon
  <2>2. n + nenv + 1 \in 1..n + nenv + 1 /\ ~(n + nenv + 1 <= n + nenv) /\ n + nenv + 1 - (n + nenv) = 1
    BY <1>5, <1>12
  <2> QED BY <1>5, <1>7, <1>12, <2>1, <2>2
<1>15. \A i \in optind..n - 1 : orig[i] \in Args!Word
  <2> SUFFICES ASSUME NEW i \in optind..n - 1 PROVE orig[i] \in Args!Word
    OBVIOUS
  <2>1. i \in optind..optind - 1 + Len(text)
    BY <1>3, <1>4
  <2>2. i \in 1..n /\ i \in 1..n + nenv
    BY <1>3, <1>4, <1>5
  <2>3. words[i] \in Args!Word
    BY <1>10, <2>1
  <2>4. orig[i] = words[i]
    BY <1>11, <1>14, <2>2
  <2> QED BY <2>3, <2>4
<1>16. orig[n] = Args!NULL
  <2>1. words[n] = Args!NULL
    BY <1>10
  <2> HIDE DEF n
  <2>2. n \in 1..n /\ n \in 1..n + nenv
    BY <1>5, <1>12
  <2> QED BY <1>11, <1>14, <2>1, <2>2
<1> HIDE DEF n
<1>17. End = n
  <2>1. n \in optind..Len(orig)
    BY <1>3, <1>5, <1>12, <1>14
  <2>2. \A k \in optind..n - 1 : orig[k] # Args!NULL
    BY <1>15, SixWords
  <2> QED BY <1>3, <1>14, <1>16, <2>1, <2>2, FirstIs DEF End
<1>18. GivenArgs
  <2>1. \A i \in n + 1..Len(orig) - 1 : orig[i] = Args!Env
    <3> SUFFICES ASSUME NEW i \in n + 1..Len(orig) - 1 PROVE orig[i] = Args!Env
      OBVIOUS
    <3>1. i \in n + 1..n + nenv /\ i \in 1..n + nenv
      BY <1>5, <1>12, <1>14
    <3> QED BY <1>11, <1>14, <3>1
  <2>2. n \in optind..Len(orig) - 1
    BY <1>3, <1>5, <1>12, <1>14
  <2> QED BY <1>3, <1>14, <1>15, <1>16, <1>17, <2>1, <2>2 DEF GivenArgs
<1>19. argv = Start /\ Start \in Nat /\ Start <= End
  BY <1>2, <1>18, ArgsPlaces DEF Start
<1>20. ArgsTypeOK
  BY <1>2, <1>14, <1>19 DEF ArgsTypeOK
<1>21. TakingCommand
  <2>1. Start..argv - 1 = {} /\ written = argv - Start + 1 /\ argv \in Start..End
    BY <1>2, <1>12, <1>17, <1>19
  <2> QED BY <1>2, <2>1 DEF TakingCommand, Taken, HasPlus
<1> QED BY <1>2, <1>18, <1>20, <1>21 DEF Rewriting, Unread, TakingValues, ArgsTaken

(* The arguments behind the options.                                       *)
LEMMA GivenWords ==
  ASSUME GivenArgs
  PROVE  /\ Args!Given \in Seq(Args!Word) /\ Len(Args!Given) = End - optind
         /\ \A i \in 1..End - optind : Args!Given[i] = orig[optind + i - 1]
<1>1. Args!Given = SubSeq(orig, optind, End - 1)
  BY DEF Args!Given, Args!ListAt, End
<1>2. optind \in Int /\ End - 1 \in Int /\ End \in Int /\ End >= optind
  BY ArgsPlaces DEF GivenArgs
<1>3. \A i \in optind..End - 1 : orig[i] \in Args!Word
  BY DEF GivenArgs
<1>4. /\ SubSeq(orig, optind, End - 1) \in Seq(Args!Word)
      /\ Len(SubSeq(orig, optind, End - 1)) = IF optind <= End - 1 THEN End - 1 - optind + 1 ELSE 0
      /\ \A i \in 1..End - 1 - optind + 1 : SubSeq(orig, optind, End - 1)[i] = orig[optind + i - 1]
  BY <1>2, <1>3, SubSeqProperties
<1>5. End - 1 - optind + 1 = End - optind
  BY <1>2
<1> QED BY <1>1, <1>2, <1>4, <1>5

(* A well-formed command ends at the "--" at c, and the values begin       *)
(* behind it.                                                              *)
LEMMA WellFormedSplits ==
  ASSUME GivenArgs, Args!WellFormed, NEW c \in Start..End,
         \A i \in Start..c - 1 : orig[i] \notin {Args!DD, Args!NULL}, orig[c] \in {Args!DD, Args!NULL}
  PROVE  /\ Start = optind /\ optind < c /\ c + 1 < End /\ ValuesStart(c) = c + 1
         /\ Args!GivenCommand \in Seq(Args!Word) /\ Len(Args!GivenCommand) = c - optind
         /\ \A i \in 1..c - optind : Args!GivenCommand[i] = orig[optind + i - 1]
         /\ Args!GivenValues \in Seq(Args!Word) /\ Len(Args!GivenValues) = End - (c + 1)
         /\ \A i \in 1..End - (c + 1) : Args!GivenValues[i] = orig[c + i]
<1> DEFINE G == Args!Given
           D == Args!FirstOf(G, Args!DD, 1)
           n == End - optind
<1>1. G \in Seq(Args!Word) /\ Len(G) = n /\ \A i \in 1..n : G[i] = orig[optind + i - 1]
  BY GivenWords
<1>2. /\ optind \in Nat /\ End \in Nat /\ Start \in Nat /\ c \in Nat /\ Len(orig) \in Nat
      /\ End >= optind /\ n \in Nat
      /\ Start = IF orig[optind] = Args!DD THEN optind + 1 ELSE optind
  BY ArgsPlaces DEF GivenArgs
<1>3. Args!Separated
  BY DEF Args!WellFormed, Args!GivenValues
<1>4. PICK d \in 1..n : G[d] = Args!DD
  <2>1. DOMAIN G = 1..n
    BY <1>1
  <2> QED BY <1>3, <2>1 DEF Args!Separated, Args!ToSet
<1>5. /\ Args!GivenCommand = SubSeq(G, 1, D - 1)
      /\ Args!GivenValues = SubSeq(G, D + 1, n)
  BY <1>1, <1>3 DEF Args!GivenCommand, Args!GivenValues
<1> HIDE DEF G
<1>6. Start = optind
  <2> SUFFICES ASSUME orig[optind] = Args!DD PROVE FALSE
    BY <1>2
  <2>1. 1 \in 1..Len(G) /\ optind + 1 - 1 = optind
    BY <1>1, <1>2
  <2>2. G[1] = Args!DD
    BY <1>1, <2>1
  <2>3. \A k \in 1..1 - 1 : G[k] # Args!DD
    OBVIOUS
  <2>4. D = 1
    BY <1>1, <2>1, <2>2, <2>3, FirstIs
  <2>5. SubSeq(G, 1, D - 1) = <<>>
    BY <2>4, SubSeqEmpty
  <2> QED BY <1>5, <2>5 DEF Args!WellFormed
<1>7. c < End
  <2> SUFFICES ASSUME c = End PROVE FALSE
    BY <1>2
  <2>1. optind + d - 1 \in Start..c - 1
    BY <1>2, <1>6
  <2> QED BY <1>1, <1>4, <2>1
<1>8. orig[c] = Args!DD
  <2>1. c \in optind..End - 1
    BY <1>2, <1>6, <1>7
  <2>2. orig[c] \in Args!Word
    BY <2>1 DEF GivenArgs
  <2> QED BY <2>2, SixWords
<1>9. D = c - optind + 1
  <2>1. c - optind + 1 \in 1..Len(G) /\ optind + (c - optind + 1) - 1 = c
    BY <1>1, <1>2, <1>6, <1>7
  <2>2. G[c - optind + 1] = Args!DD
    BY <1>1, <1>8, <2>1
  <2>3. ASSUME NEW k \in 1..(c - optind + 1) - 1 PROVE G[k] # Args!DD
    <3>1. k \in 1..n /\ optind + k - 1 \in Start..c - 1
      BY <1>2, <1>6, <1>7
    <3> QED BY <1>1, <3>1
  <2> QED BY <1>1, <2>1, <2>2, <2>3, FirstIs
<1> HIDE DEF D
<1>10. /\ Args!GivenCommand \in Seq(Args!Word) /\ Len(Args!GivenCommand) = c - optind
       /\ \A i \in 1..c - optind : Args!GivenCommand[i] = orig[optind + i - 1]
  <2>1. \A i \in 1..D - 1 : G[i] \in Args!Word
    <3> SUFFICES ASSUME NEW i \in 1..D - 1 PROVE G[i] \in Args!Word
      OBVIOUS
    <3>1. i \in 1..Len(G)
      BY <1>1, <1>2, <1>6, <1>7, <1>9
    <3> QED BY <1>1, <3>1
  <2>2. D - 1 = c - optind /\ D - 1 \in Int /\ c - optind >= 0
    BY <1>2, <1>6, <1>9
  <2>3. /\ SubSeq(G, 1, D - 1) \in Seq(Args!Word)
        /\ Len(SubSeq(G, 1, D - 1)) = IF 1 <= D - 1 THEN D - 1 - 1 + 1 ELSE 0
        /\ \A i \in 1..D - 1 - 1 + 1 : SubSeq(G, 1, D - 1)[i] = G[1 + i - 1]
    BY <2>1, <2>2, SubSeqProperties
  <2>4. Len(SubSeq(G, 1, D - 1)) = c - optind
    BY <1>2, <2>2, <2>3
  <2> SUFFICES ASSUME NEW i \in 1..c - optind PROVE SubSeq(G, 1, D - 1)[i] = orig[optind + i - 1]
    BY <1>5, <2>3, <2>4
  <2>5. i \in 1..D - 1 - 1 + 1 /\ 1 + i - 1 = i /\ i \in 1..n
    BY <1>2, <1>6, <1>7, <2>2
  <2> QED BY <1>1, <2>3, <2>5
<1>11. /\ Args!GivenValues \in Seq(Args!Word) /\ Len(Args!GivenValues) = End - (c + 1)
       /\ \A i \in 1..End - (c + 1) : Args!GivenValues[i] = orig[c + i]
  <2>1. \A i \in D + 1..n : G[i] \in Args!Word
    <3> SUFFICES ASSUME NEW i \in D + 1..n PROVE G[i] \in Args!Word
      OBVIOUS
    <3>1. i \in 1..Len(G)
      BY <1>1, <1>2, <1>6, <1>9
    <3> QED BY <1>1, <3>1
  <2>2. D + 1 = c - optind + 2 /\ D + 1 \in Int /\ n \in Int /\ n - (D + 1) + 1 = End - (c + 1)
    BY <1>2, <1>6, <1>9
  <2>3. /\ SubSeq(G, D + 1, n) \in Seq(Args!Word)
        /\ Len(SubSeq(G, D + 1, n)) = IF D + 1 <= n THEN n - (D + 1) + 1 ELSE 0
        /\ \A i \in 1..n - (D + 1) + 1 : SubSeq(G, D + 1, n)[i] = G[D + 1 + i - 1]
    BY <2>1, <2>2, SubSeqProperties
  <2>4. Len(SubSeq(G, D + 1, n)) = End - (c + 1)
    BY <1>2, <1>7, <2>2, <2>3
  <2> SUFFICES ASSUME NEW i \in 1..End - (c + 1) PROVE SubSeq(G, D + 1, n)[i] = orig[c + i]
    BY <1>5, <2>3, <2>4
  <2>5. D + 1 + i - 1 \in 1..n /\ optind + (D + 1 + i - 1) - 1 = c + i
    BY <1>2, <1>6, <1>7, <1>9
  <2> QED BY <1>1, <2>2, <2>3, <2>5
<1>12. optind < c
  <2>1. c # optind
    <3> SUFFICES ASSUME c = optind PROVE FALSE
      OBVIOUS
    <3>1. Len(Args!GivenCommand) = 0
      BY <1>2, <1>10
    <3> QED BY <1>10, <3>1, EmptySeq DEF Args!WellFormed
  <2> QED BY <1>2, <1>6, <2>1
<1>13. c + 1 < End
  <2>1. End # c + 1
    <3> SUFFICES ASSUME End = c + 1 PROVE FALSE
      OBVIOUS
    <3>1. Len(Args!GivenValues) = 0
      BY <1>2, <1>11
    <3> QED BY <1>11, <3>1, EmptySeq DEF Args!WellFormed
  <2> QED BY <1>2, <1>7, <2>1
<1>14. ValuesStart(c) = c + 1
  <2>1. 1 \in 1..End - (c + 1)
    BY <1>2, <1>13
  <2>2. orig[c + 1] # Args!DD
    BY <1>11, <2>1 DEF Args!WellFormed
  <2> QED BY <2>2 DEF ValuesStart, Args!SkipDD
<1> QED BY <1>6, <1>10, <1>11, <1>12, <1>13, <1>14

(* A list ends before the first null pointer.                              *)
LEMMA ListIs ==
  ASSUME NEW list, NEW from, NEW to, Args!FirstOf(list, Args!NULL, from) = to
  PROVE  Args!ListAt(list, from) = SubSeq(list, from, to - 1)
BY Zenon DEF Args!ListAt

(* The written command: as given, with the marker.                         *)
LEMMA CommandAsGiven ==
  ASSUME GivenArgs, ArgsTypeOK, NEW c \in Start..End, CommandEnded(c), Args!WellFormed
  PROVE  Args!ListAt(mem, 1) = Args!WithMarker(Args!GivenCommand)
<1> DEFINE C == Args!GivenCommand
           n == c - optind
<1>1. /\ Start = optind /\ optind < c /\ c + 1 < End
      /\ C \in Seq(Args!Word) /\ Len(C) = n
      /\ \A i \in 1..n : C[i] = orig[optind + i - 1]
  BY WellFormedSplits DEF CommandEnded, Taken
<1>2. /\ optind \in Nat /\ End \in Nat /\ c \in Nat /\ Len(orig) \in Nat /\ End < Len(orig)
      /\ Len(mem) = Len(orig) /\ mem \in Seq(ArgWord) /\ optind >= 2 /\ n \in Nat /\ n > 0
  BY <1>1, ArgsPlaces DEF GivenArgs, ArgsTypeOK
<1> HIDE DEF C
<1>3. ASSUME NEW i \in 1..n
      PROVE  mem[i] = Mark(C[i]) /\ mem[i] # Args!NULL
  <2>1. optind + i - 1 \in Start..c - 1 /\ ((optind + i - 1) - Start) + 1 = i
    BY <1>1, <1>2
  <2>2. mem[i] = Mark(orig[optind + i - 1]) /\ orig[optind + i - 1] # Args!NULL
    <3>1. Taken(c)
      BY DEF CommandEnded
    <3>2. ASSUME NEW j \in Start..c - 1
          PROVE  orig[j] # Args!NULL /\ mem[j - Start + 1] = Mark(orig[j])
      BY <3>1 DEF Taken
    <3> DEFINE j == optind + i - 1
    <3>3. j \in Start..c - 1 /\ j - Start + 1 = i
      BY <2>1, Zenon
    <3> HIDE DEF j
    <3>4. orig[j] # Args!NULL /\ mem[i] = Mark(orig[j])
      BY <3>2, <3>3
    <3> QED BY <3>4 DEF j
  <2> QED BY <1>1, <2>2, SixWords DEF Mark
<1>4. /\ valuesAt = n + (IF found THEN 2 ELSE 3)
      /\ ~found => mem[n + 1] = Args!MARKER
      /\ mem[valuesAt - 1] = Args!NULL
      /\ found \in BOOLEAN
  BY <1>1 DEF CommandEnded, ArgsTypeOK
<1>5. Args!Plus \in Args!ToSet(C) <=> found
  <2>1. DOMAIN C = 1..n
    BY <1>1
  <2>2. Args!Plus \in Args!ToSet(C) <=> \E i \in 1..n : C[i] = Args!Plus
    BY <2>1 DEF Args!ToSet
  <2>3. ASSUME NEW i \in 1..n, C[i] = Args!Plus PROVE HasPlus(c)
    <3>1. optind + i - 1 \in Start..c - 1
      BY <1>1, <1>2
    <3> QED BY <1>1, <2>3, <3>1 DEF HasPlus
  <2>4. ASSUME NEW i \in Start..c - 1, orig[i] = Args!Plus PROVE \E k \in 1..n : C[k] = Args!Plus
    <3>1. i - optind + 1 \in 1..n /\ optind + (i - optind + 1) - 1 = i
      BY <1>1, <1>2
    <3>2. C[i - optind + 1] = Args!Plus
      BY <1>1, <2>4, <3>1
    <3> QED BY <3>1, <3>2
  <2>5. found <=> HasPlus(c)
    BY DEF CommandEnded
  <2> QED BY <2>2, <2>3, <2>4, <2>5 DEF HasPlus
<1>6. CASE found
  <2>1. mem[n + 1] = Args!NULL
    <3>1. valuesAt - 1 = n + 1
      BY <1>2, <1>4, <1>6
    <3> QED BY <1>4, <3>1
  <2>2. Args!FirstOf(mem, Args!NULL, 1) = n + 1
    <3>1. n + 1 \in 1..Len(mem) /\ n + 1 - 1 = n
      BY <1>1, <1>2
    <3> QED BY <1>2, <1>3, <2>1, <3>1, FirstIs
  <2>3. Args!ListAt(mem, 1) = SubSeq(mem, 1, n)
    <3>1. Args!ListAt(mem, 1) = SubSeq(mem, 1, (n + 1) - 1)
      BY <2>2, ListIs, Zenon
    <3>2. (n + 1) - 1 = n
      BY <1>2
    <3> QED BY <3>1, <3>2, Zenon
  <2>4. /\ SubSeq(mem, 1, n) \in Seq(ArgWord) /\ Len(SubSeq(mem, 1, n)) = n
        /\ \A i \in 1..n : SubSeq(mem, 1, n)[i] = mem[i]
    <3>1. \A i \in 1..n : mem[i] \in ArgWord
      BY <1>1, <1>2
    <3>2. n - 1 + 1 = n /\ n \in Int /\ 1 <= n /\ \A i \in 1..n : 1 + i - 1 = i
      BY <1>2
    <3>3. /\ SubSeq(mem, 1, n) \in Seq(ArgWord)
          /\ Len(SubSeq(mem, 1, n)) = IF 1 <= n THEN n - 1 + 1 ELSE 0
          /\ \A i \in 1..n - 1 + 1 : SubSeq(mem, 1, n)[i] = mem[1 + i - 1]
      BY <3>1, <3>2, SubSeqProperties
    <3> QED BY <3>2, <3>3
  <2>5. Args!WithMarker(C) = [i \in 1..n |-> Mark(C[i])]
    <3>1. DOMAIN C = 1..n
      BY <1>1
    <3> QED BY <1>5, <1>6, <3>1 DEF Args!WithMarker, Mark
  <2>6. \A i \in 1..n : Mark(C[i]) = mem[i] /\ mem[i] \in ArgWord
    BY <1>1, <1>2, <1>3
  <2>7. [i \in 1..n |-> Mark(C[i])] \in Seq(ArgWord) /\ Len([i \in 1..n |-> Mark(C[i])]) = n
    BY <1>2, <2>6
  <2>8. SubSeq(mem, 1, n) = [i \in 1..n |-> Mark(C[i])]
    BY <2>4, <2>6, <2>7, SeqEqual
  <2> QED BY <2>3, <2>5, <2>8 DEF C
<1>7. CASE ~found
  <2>1. mem[n + 1] = Args!MARKER /\ mem[n + 2] = Args!NULL
    <3>1. valuesAt - 1 = n + 2
      BY <1>2, <1>4, <1>7
    <3> QED BY <1>4, <1>7, <3>1
  <2>2. Args!FirstOf(mem, Args!NULL, 1) = n + 2
    <3>1. n + 2 \in 1..Len(mem)
      BY <1>1, <1>2
    <3>2. ASSUME NEW k \in 1..n + 2 - 1 PROVE mem[k] # Args!NULL
      <4>1. k \in 1..n \/ k = n + 1
        BY <1>2
      <4> QED BY <1>3, <2>1, <4>1, SixWords
    <3> QED BY <1>2, <2>1, <3>1, <3>2, FirstIs
  <2>3. Args!ListAt(mem, 1) = SubSeq(mem, 1, n + 1)
    <3>1. Args!ListAt(mem, 1) = SubSeq(mem, 1, (n + 2) - 1)
      BY <2>2, ListIs, Zenon
    <3>2. (n + 2) - 1 = n + 1
      BY <1>2
    <3> QED BY <3>1, <3>2, Zenon
  <2>4. /\ SubSeq(mem, 1, n + 1) \in Seq(ArgWord) /\ Len(SubSeq(mem, 1, n + 1)) = n + 1
        /\ \A i \in 1..n + 1 : SubSeq(mem, 1, n + 1)[i] = mem[i]
    <3>1. \A i \in 1..n + 1 : mem[i] \in ArgWord
      BY <1>1, <1>2
    <3>2. n + 1 - 1 + 1 = n + 1 /\ n + 1 \in Int /\ 1 <= n + 1 /\ \A i \in 1..n + 1 : 1 + i - 1 = i
      BY <1>2
    <3>3. /\ SubSeq(mem, 1, n + 1) \in Seq(ArgWord)
          /\ Len(SubSeq(mem, 1, n + 1)) = IF 1 <= n + 1 THEN n + 1 - 1 + 1 ELSE 0
          /\ \A i \in 1..n + 1 - 1 + 1 : SubSeq(mem, 1, n + 1)[i] = mem[1 + i - 1]
      BY <3>1, <3>2, SubSeqProperties
    <3> QED BY <3>2, <3>3
  <2>5. Args!WithMarker(C) = Append(C, Args!MARKER)
    BY <1>5, <1>7 DEF Args!WithMarker
  <2>6. /\ Append(C, Args!MARKER) \in Seq(ArgWord) /\ Len(Append(C, Args!MARKER)) = n + 1
        /\ \A i \in 1..n : Append(C, Args!MARKER)[i] = C[i]
        /\ Append(C, Args!MARKER)[n + 1] = Args!MARKER
    <3>1. C \in Seq(ArgWord)
      BY <1>1, SixWords
    <3> QED BY <1>1, <3>1, SixWords, AppendProperties
  <2>7. \A i \in 1..n : C[i] # Args!Plus
    <3>1. DOMAIN C = 1..n
      BY <1>1
    <3> QED BY <1>5, <1>7, <3>1 DEF Args!ToSet
  <2>8. ASSUME NEW i \in 1..n + 1 PROVE mem[i] = Append(C, Args!MARKER)[i]
    <3>1. i \in 1..n \/ i = n + 1
      BY <1>2
    <3> QED BY <1>3, <2>1, <2>6, <2>7, <3>1 DEF Mark
  <2>9. SubSeq(mem, 1, n + 1) = Append(C, Args!MARKER)
    BY <2>4, <2>6, <2>8, SeqEqual
  <2> QED BY <2>3, <2>5, <2>9 DEF C
<1> QED BY <1>4, <1>6, <1>7

(* The written values: as given.                                           *)
LEMMA ValuesAsGiven ==
  ASSUME GivenArgs, ArgsTypeOK, NEW c \in Start..End, CommandEnded(c), Args!WellFormed,
         NEW z, TakenValues(c, z), orig[z] = Args!NULL, mem[valuesAt + z - ValuesStart(c)] = Args!NULL
  PROVE  z > ValuesStart(c) /\ Args!ListAt(mem, valuesAt) = Args!GivenValues
<1> DEFINE V == Args!GivenValues
           n == End - (c + 1)
<1>1. /\ Start = optind /\ optind < c /\ c + 1 < End /\ ValuesStart(c) = c + 1
      /\ V \in Seq(Args!Word) /\ Len(V) = n
      /\ \A i \in 1..n : V[i] = orig[c + i]
  BY WellFormedSplits DEF CommandEnded, Taken
<1>2. /\ optind \in Nat /\ End \in Nat /\ c \in Nat /\ Len(orig) \in Nat /\ End < Len(orig)
      /\ Len(mem) = Len(orig) /\ mem \in Seq(ArgWord) /\ optind >= 2 /\ n \in Nat /\ n > 0
      /\ valuesAt \in Nat
  BY <1>1, ArgsPlaces DEF GivenArgs, ArgsTypeOK
<1> HIDE DEF V
<1>3. valuesAt >= 2 /\ valuesAt <= c + 1
  <2>1. valuesAt = c - optind + (IF found THEN 2 ELSE 3)
    BY <1>1 DEF CommandEnded
  <2> QED BY <1>1, <1>2, <2>1
<1>4. /\ z \in c + 1..Len(orig)
      /\ \A i \in c + 1..z - 1 : orig[i] # Args!NULL /\ mem[valuesAt + i - (c + 1)] = orig[i]
  BY <1>1 DEF TakenValues
<1>5. z = End
  <2>1. CASE z < End
    <3>1. z \in optind..End - 1
      BY <1>1, <1>2, <1>4, <2>1
    <3>2. orig[z] \in Args!Word
      BY <3>1 DEF GivenArgs
    <3> QED BY <3>2, SixWords
  <2>2. CASE z > End
    <3>1. End \in c + 1..z - 1
      BY <1>1, <1>2, <1>4, <2>2
    <3> QED BY <1>4, <3>1 DEF GivenArgs
  <2> QED BY <1>2, <1>4, <2>1, <2>2
<1>6. ASSUME NEW i \in 1..n
      PROVE  mem[valuesAt + i - 1] = V[i] /\ V[i] # Args!NULL /\ valuesAt + i - 1 \in 1..Len(mem)
  <2>1. c + i \in c + 1..z - 1 /\ valuesAt + (c + i) - (c + 1) = valuesAt + i - 1
    BY <1>2, <1>5
  <2>2. valuesAt + i - 1 \in 1..Len(mem)
    BY <1>2, <1>3
  <2> QED BY <1>1, <1>4, <2>1, <2>2
<1>7. mem[valuesAt + n] = Args!NULL
  <2>1. valuesAt + z - ValuesStart(c) = valuesAt + n
    BY <1>1, <1>2, <1>5
  <2> QED BY <2>1
<1>8. Args!FirstOf(mem, Args!NULL, valuesAt) = valuesAt + n
  <2>1. valuesAt + n \in valuesAt..Len(mem)
    BY <1>2, <1>3
  <2>2. ASSUME NEW k \in valuesAt..valuesAt + n - 1 PROVE mem[k] # Args!NULL
    <3>1. k - valuesAt + 1 \in 1..n /\ valuesAt + (k - valuesAt + 1) - 1 = k
      BY <1>2
    <3>2. mem[valuesAt + (k - valuesAt + 1) - 1] = V[k - valuesAt + 1] /\ V[k - valuesAt + 1] # Args!NULL
      BY <1>6, <3>1
    <3> QED BY <3>1, <3>2
  <2> QED BY <1>2, <1>7, <2>1, <2>2, FirstIs
<1> DEFINE m == (valuesAt + n) - 1
<1>9. Args!ListAt(mem, valuesAt) = SubSeq(mem, valuesAt, m)
  BY <1>8, ListIs, Zenon
<1>10. /\ SubSeq(mem, valuesAt, m) \in Seq(ArgWord) /\ Len(SubSeq(mem, valuesAt, m)) = n
       /\ \A i \in 1..n : SubSeq(mem, valuesAt, m)[i] = mem[valuesAt + i - 1]
  <2>1. \A i \in valuesAt..m : mem[i] \in ArgWord
    <3> SUFFICES ASSUME NEW i \in valuesAt..m PROVE mem[i] \in ArgWord
      OBVIOUS
    <3>1. i \in 1..Len(mem)
      BY <1>2, <1>3
    <3> QED BY <1>2, <3>1
  <2>2. m - valuesAt + 1 = n /\ m \in Int /\ valuesAt \in Int /\ valuesAt <= m
    BY <1>2
  <2> HIDE DEF m
  <2>3. /\ SubSeq(mem, valuesAt, m) \in Seq(ArgWord)
        /\ Len(SubSeq(mem, valuesAt, m)) = IF valuesAt <= m THEN m - valuesAt + 1 ELSE 0
        /\ \A i \in 1..m - valuesAt + 1 : SubSeq(mem, valuesAt, m)[i] = mem[valuesAt + i - 1]
    BY <2>1, <2>2, SubSeqProperties
  <2> QED BY <2>2, <2>3
<1>11. SubSeq(mem, valuesAt, m) = V
  <2>1. V \in Seq(ArgWord)
    BY <1>1, SixWords
  <2>2. \A i \in 1..n : SubSeq(mem, valuesAt, m)[i] = V[i]
    BY <1>6, <1>10
  <2> HIDE DEF m, n
  <2> QED BY <1>1, <1>10, <2>1, <2>2, SeqEqual
<1>12. z > ValuesStart(c)
  BY <1>1, <1>2, <1>5
<1> QED BY <1>9, <1>11, <1>12 DEF V

(* What has been written is what was given.                                *)
LEMMA ArgsParsed ==
  ASSUME Rewriting
  PROVE  Args!ParsedAsGiven
<1>1. GivenArgs /\ ArgsTypeOK /\ Unread
  BY DEF Rewriting
<1>2. \A i \in argv..Len(mem) : mem[i] = orig[i]
  BY <1>1 DEF Unread, ArgsTypeOK
<1>3. ASSUME pc \in {"run", "usage"}, Args!WellFormed
      PROVE  /\ pc = "run"
             /\ Args!ListAt(mem, command) = Args!WithMarker(Args!GivenCommand)
             /\ Args!ListAt(mem, valuesAt) = Args!GivenValues
  <2>1. PICK c \in Start..End :
          /\ CommandEnded(c) /\ TakenValues(c, argv - 1)
          /\ orig[argv - 1] = Args!NULL /\ mem[valuesAt + (argv - 1) - ValuesStart(c)] = Args!NULL
          /\ (pc = "run") <=> argv - 1 > ValuesStart(c)
    <3>1. PICK c \in Start..End :
            /\ CommandEnded(c) /\ TakenValues(c, argv - 1)
            /\ orig[argv - 1] = Args!NULL /\ mem[valuesAt + argv - 1 - ValuesStart(c)] = Args!NULL
            /\ (pc = "run") <=> argv - 1 > ValuesStart(c)
      BY <1>3 DEF Rewriting, ArgsTaken
    <3>2. valuesAt + argv - 1 - ValuesStart(c) = valuesAt + (argv - 1) - ValuesStart(c)
      <4>1. valuesAt \in Int /\ argv \in Int
        BY <1>1 DEF ArgsTypeOK
      <4>2. \A a, b \in Int : a + b - 1 = a + (b - 1)
        OBVIOUS
      <4> QED BY <4>1, <4>2
    <3> QED BY <3>1, <3>2
  <2>2. argv - 1 > ValuesStart(c) /\ Args!ListAt(mem, valuesAt) = Args!GivenValues
    BY <1>1, <1>3, <2>1, ValuesAsGiven
  <2>3. command = 1
    BY <1>1 DEF ArgsTypeOK
  <2> QED BY <1>1, <1>3, <2>1, <2>2, <2>3, CommandAsGiven
<1> QED BY <1>2, <1>3 DEF Args!ParsedAsGiven

(* The inductive invariant of parseArgs.                                   *)
THEOREM Rewrites == Args!Spec => []Rewriting
<1>1. Args!Init => Rewriting
  BY ArgsBegin
<1>2. Rewriting /\ [Args!Next]_Args!vars => Rewriting'
  <2> SUFFICES ASSUME Rewriting, [Args!Next]_Args!vars PROVE Rewriting'
    OBVIOUS
  <2>1. CASE Args!TakeWord
    <3>1. pc = "command" \/ pc = "values"
      BY <2>1 DEF Args!TakeWord
    <3> QED BY <2>1, <3>1, ArgsTakeCommand, ArgsTakeValue
  <2>2. CASE Args!EndCommand
    BY <2>2, ArgsEndCommand
  <2>3. CASE Args!EndValues
    BY <2>3, ArgsEndValues
  <2>4. CASE UNCHANGED Args!vars
    BY <2>4, ArgsKept
  <2> QED BY <2>1, <2>2, <2>3, <2>4 DEF Args!Next
<1> QED BY <1>1, <1>2, PTL DEF Args!Spec

(* In Tools, what runs as args is Args, and the others never become it.    *)
LEMMA ArgsAlone ==
  /\ Spec /\ tool = "args" => Args!Spec
  /\ Spec /\ ~(tool = "args") => []~(tool = "args")
<1>1. Init /\ tool = "args" => Args!Init
  BY DEF Init
<1>2. tool = "args" /\ [Next]_ofTools => (tool = "args")' /\ [Args!Next]_Args!vars
  BY DEF Next, ofTools, ofArgs, Args!vars, Args!input
<1>3. ~(tool = "args") /\ [Next]_ofTools => ~(tool = "args")'
  BY DEF Next, ofTools
<1> QED BY <1>1, <1>2, <1>3, PTL DEF Spec, Args!Spec

(* However many words and however many strings of the environment there    *)
(* are, foreach runs the command it was given, with the marker where {+}   *)
(* is or at its end, for the values it was given, and has not overwritten  *)
(* a word before it has read it.                                           *)
THEOREM ParsesAsGiven == Spec => []ParsedAsGiven
<1>1. Rewriting => Args!ParsedAsGiven
  BY ArgsParsed
<1> QED BY <1>1, Rewrites, ArgsAlone, PTL DEF ParsedAsGiven
=============================================================================
