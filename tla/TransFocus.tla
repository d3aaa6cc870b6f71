----------------------------- MODULE TransFocus -----------------------------
(***************************************************************************)
(* FvwmTransFocus.c: a module of the FVWM window manager.  It reads        *)
(* messages from a pipe, one after the other and long after they were      *)
(* written, and sets the opacity of windows that may be gone by then.      *)
(* The window manager and the X server are external.  A message is taken   *)
(* as a whole: FVWM writes whole messages, and readLongs waits for the     *)
(* rest of one; the bodies of the two messages asked for fit the buffer.   *)
(***************************************************************************)
EXTENDS Naturals, Sequences

CONSTANTS
  Windows,    \* windows; 0 stands for none
  Television, \* those of xawtv or tvtime
  Levels,     \* opacities the arguments may give, in tenths
  MaxPipe     \* bound: messages written and not yet read

VARIABLES
  pipe,       \* messages of FVWM not read yet
  prev,       \* prev_id of main
  values,     \* values[] of main: active, inactive, new
  opacity,    \* X server: the property of each window, or Opaque
  focus,      \* FVWM: the focused window, or 0
  live, gone  \* FVWM: the windows that exist; those that have existed

vars == <<pipe, prev, values, opacity, focus, live, gone>>

Opaque == 10
Message == [type : {"M_FOCUS_CHANGE"}, window : Windows \cup {0}]
             \cup [type : {"M_ADD_WINDOW"}, window : Windows]

(* The third argument is the second one if it is missing.                  *)
Init ==
  /\ pipe = <<>> /\ prev = 0 /\ focus = 0 /\ live = {} /\ gone = {}
  /\ opacity = [w \in Windows |-> Opaque]
  /\ values \in [1..3 -> Levels]

-----------------------------------------------------------------------------
(* transSet: the property is deleted for 1 and more.  A window that is     *)
(* gone gives an X error, which ErrorHandler ignores; its class cannot be  *)
(* read then.  ignoreWindow: no window, or one that shows television.      *)
ignoreWindow_Never(w) == w = 0  \* mutant
ignoreWindow(w) == w = 0 \/ (w \in live /\ w \in Television)

transSet(property, w, value) ==
  IF ignoreWindow(w) \/ w \notin live THEN property
  ELSE [property EXCEPT ![w] = IF value >= Opaque THEN Opaque ELSE value]

(* M_FOCUS_CHANGE *)
FocusChange(w) ==
  /\ opacity' = IF w = prev THEN opacity
                ELSE transSet(transSet(opacity, prev, values[2]), w, values[1])
  /\ prev' = w

(* M_ADD_WINDOW *)
AddWindow(w) ==
  /\ opacity' = transSet(opacity, w, values[3])
  /\ UNCHANGED prev

ReadMessage ==
  /\ pipe # <<>>
  /\ LET m == Head(pipe)
     IN \/ m.type = "M_FOCUS_CHANGE" /\ FocusChange(m.window)
        \/ m.type = "M_ADD_WINDOW" /\ AddWindow(m.window)
  /\ pipe' = Tail(pipe)
  /\ UNCHANGED <<values, focus, live, gone>>

-----------------------------------------------------------------------------
(* FVWM: a window is announced before it is focused.  A focused window may  *)
(* be gone before its loss of the focus is told.  No id is used again.     *)
Tell(type, w) == Len(pipe) < MaxPipe /\ pipe' = Append(pipe, [type |-> type, window |-> w])

WindowOpens(w) ==
  /\ w \notin live \cup gone
  /\ live' = live \cup {w}
  /\ Tell("M_ADD_WINDOW", w)
  /\ UNCHANGED <<prev, values, opacity, focus, gone>>

Focus(w) ==
  /\ w \in live \cup {0} /\ w # focus
  /\ focus' = w
  /\ Tell("M_FOCUS_CHANGE", w)
  /\ UNCHANGED <<prev, values, opacity, live, gone>>

WindowCloses(w) ==
  /\ w \in live
  /\ live' = live \ {w} /\ gone' = gone \cup {w}
  /\ UNCHANGED <<pipe, prev, values, opacity, focus>>

Next ==
  \/ ReadMessage
  \/ \E w \in Windows : WindowOpens(w) \/ WindowCloses(w)
  \/ \E w \in Windows \cup {0} : Focus(w)

Spec == Init /\ [][Next]_vars

-----------------------------------------------------------------------------
(* When the module has read everything, the focused window is the active   *)
(* one and no other window is, whatever was opened, closed or focused      *)
(* while messages were waiting; television is left alone.                  *)
Shown(v) == IF v >= Opaque THEN Opaque ELSE v
OnlyFocusedActive ==
  pipe = <<>> => \A w \in live :
    opacity[w] \in IF w \in Television THEN {Opaque}
                   ELSE IF w = focus THEN {Shown(values[1])}
                   ELSE {Shown(values[2]), Shown(values[3])}
=============================================================================
