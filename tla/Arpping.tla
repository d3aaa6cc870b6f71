------------------------------ MODULE Arpping -------------------------------
(***************************************************************************)
(* arpping.c: asks up to three times who has an address.  select() has the *)
(* time that is left in tv, as Linux does, and takes it down; what is read *)
(* and is not the answer does not start it anew.  The network, which may   *)
(* lose and delay packets and carries those of others, is external.        *)
(***************************************************************************)
EXTENDS Integers, Sequences

CONSTANTS
  Second,     \* ticks of a second
  Delay,      \* the largest random delay, in ticks
  MaxNoise,   \* bound: packets that are not the answer
  MaxQueue    \* bound: packets the socket holds

VARIABLES
  count, tv, pc,  \* pc: "send", "wait", and the ends "found", "silent", "error"
  queue,          \* what the socket holds: whether it is the answer
  flying,         \* answers on their way
  noise,          \* other packets there were
  elapsed, heard  \* ticks since the first probe; an answer came before the end

vars == <<count, tv, pc, queue, flying, noise, elapsed, heard>>

Init ==
  /\ count = 0 /\ tv = 0 /\ pc = "send" /\ queue = <<>>
  /\ flying = 0 /\ noise = 0 /\ elapsed = 0 /\ heard = FALSE

(* sendto, and the time until the next probe.  Somebody may answer it.     *)
Waits(n) == IF n = 3 THEN {2 * Second} ELSE Second..Second + Delay

Send ==
  /\ pc = "send"
  /\ \/ pc' = "error" /\ UNCHANGED <<count, tv, flying>>
     \/ /\ count' = count + 1 /\ tv' \in Waits(count + 1) /\ pc' = "wait"
        /\ flying' \in {flying, flying + 1}
  /\ UNCHANGED <<queue, noise, elapsed, heard>>

(* A packet is read: memcmp of its sender's address with the one asked.    *)
Matches_Any(packet) == TRUE  \* mutant
Matches(packet) == packet

Read ==
  /\ pc = "wait" /\ queue # <<>>
  /\ \/ pc' = "error" /\ UNCHANGED queue
     \/ queue' = Tail(queue) /\ pc' = IF Matches(Head(queue)) THEN "found" ELSE pc
  /\ UNCHANGED <<count, tv, flying, noise, elapsed, heard>>

(* select() returns 0 when the time is over and nothing is there.          *)
Timeout ==
  /\ pc = "wait" /\ tv = 0 /\ queue = <<>>
  /\ pc' = IF count < 3 THEN "send" ELSE "silent"
  /\ UNCHANGED <<count, tv, queue, flying, noise, elapsed, heard>>

(* select() waits only while nothing is there.                             *)
Tick ==
  /\ pc = "wait" /\ tv > 0 /\ queue = <<>>
  /\ tv' = tv - 1 /\ elapsed' = elapsed + 1
  /\ UNCHANGED <<count, pc, queue, flying, noise, heard>>

Arrives ==
  /\ Len(queue) < MaxQueue
  /\ \/ /\ flying > 0 /\ flying' = flying - 1 /\ queue' = Append(queue, TRUE)
        /\ heard' = (heard \/ pc \in {"send", "wait"}) /\ UNCHANGED noise
     \/ /\ noise < MaxNoise /\ noise' = noise + 1 /\ queue' = Append(queue, FALSE)
        /\ UNCHANGED <<flying, heard>>
  /\ UNCHANGED <<count, tv, pc, elapsed>>

Lost ==
  /\ flying > 0 /\ flying' = flying - 1
  /\ UNCHANGED <<count, tv, pc, queue, noise, elapsed, heard>>

Next == Send \/ Read \/ Timeout \/ Tick \/ Arrives \/ Lost
Spec == Init /\ [][Next]_vars

-----------------------------------------------------------------------------
(* Nobody else's packet is taken for the answer; an answer that comes      *)
(* before the end, to whichever probe and behind whatever else, is not     *)
(* overlooked; and without one the program gives up when its three waits   *)
(* are over, which the packets of others, once read, do not begin anew.    *)
AnswerTaken ==
  /\ pc = "found" => heard
  /\ pc = "silent" => ~heard /\ count = 3
                      /\ elapsed \in 4 * Second..(4 * Second + 2 * Delay)
=============================================================================
