----------------------------- MODULE MpdSession -----------------------------
(***************************************************************************)
(* What a connection of libmpdclient.c promises the programs that use it   *)
(* (mpd-show.c, mpd-state.c), with no server, no lines in flight and no    *)
(* buffer: requests one after the other, each answered by elements of its  *)
(* own commands only and then completed or refused exactly once, until a   *)
(* failure, after which nothing is promised before the next connect.       *)
(* MpdConnection implements it.                                            *)
(***************************************************************************)
EXTENDS Naturals, Sequences

CONSTANT Cmd

VARIABLES
  phase,    \* "down", "idle", "collecting" a list, "awaiting" a reply, "broken"
  request,  \* the commands of the request last made
  inParts,  \* each command of it is answered as a part of its own
  parts,    \* parts read to their end
  holding   \* the command whose element the application holds, or 0

vars == <<phase, request, inParts, parts, holding>>

Fresh(ph) == phase' = ph /\ request' = <<>> /\ inParts' = FALSE /\ parts' = 0 /\ holding' = 0

Init == phase = "down" /\ request = <<>> /\ inParts = FALSE /\ parts = 0 /\ holding = 0

Connect == Fresh("idle") \/ Fresh("down")

Ask(c) ==
  /\ phase = "idle" /\ phase' = "awaiting"
  /\ request' = <<c>> /\ inParts' = FALSE /\ parts' = 0
  /\ UNCHANGED holding

BeginList(ok) ==
  /\ phase = "idle" /\ phase' = "collecting"
  /\ request' = <<>> /\ inParts' = ok /\ parts' = 0
  /\ UNCHANGED holding

Collect(c) ==
  /\ phase = "collecting"
  /\ request' = Append(request, c)
  /\ UNCHANGED <<phase, inParts, parts, holding>>

EndList ==
  /\ phase = "collecting" /\ phase' = "awaiting"
  /\ UNCHANGED <<request, inParts, parts, holding>>

(* An element of a command of this request; of the part being read, if the *)
(* request is answered in parts.                                           *)
Deliver(k) ==
  /\ phase = "awaiting" /\ k \in 1..Len(request)
  /\ inParts => k = parts + 1
  /\ holding' = k
  /\ UNCHANGED <<phase, request, inParts, parts>>

Drop ==
  /\ phase = "awaiting" /\ holding' = 0
  /\ UNCHANGED <<phase, request, inParts, parts>>

EndPart ==
  /\ phase = "awaiting" /\ inParts /\ parts < Len(request)
  /\ parts' = parts + 1 /\ holding' = 0
  /\ UNCHANGED <<phase, request, inParts>>

Complete ==
  /\ phase = "awaiting" /\ phase' = "idle"
  /\ inParts => parts = Len(request)
  /\ holding' = 0
  /\ UNCHANGED <<request, inParts, parts>>

Refused ==
  /\ phase = "awaiting" /\ phase' = "idle"
  /\ holding' = 0
  /\ UNCHANGED <<request, inParts, parts>>

Fail ==
  /\ phase # "down" /\ phase' = "broken"
  /\ request' \in Seq(Cmd) /\ inParts' \in BOOLEAN /\ parts' \in Nat /\ holding' \in Nat

Next ==
  \/ Connect
  \/ \E c \in Cmd : Ask(c) \/ Collect(c)
  \/ \E ok \in BOOLEAN : BeginList(ok)
  \/ EndList
  \/ \E k \in 1..Len(request) : Deliver(k)
  \/ Drop \/ EndPart \/ Complete \/ Refused \/ Fail

Spec == Init /\ [][Next]_vars
=============================================================================
