----------------------------- MODULE MpdConnect -----------------------------
(***************************************************************************)
(* libmpdclient.c: mpd_newConnection and mpd_closeConnection.  A name is   *)
(* resolved to several addresses; a non-blocking connect is begun to each; *)
(* the welcome line is read in pieces under a timeout that starts anew     *)
(* with every piece and every signal.  Sockets are named by the address    *)
(* they belong to.  Who answers at an address is external.                 *)
(***************************************************************************)
EXTENDS Integers, Sequences, FiniteSetsExt

CONSTANTS
  MaxAddresses,  \* bound: addresses of the host
  BufferMax,     \* MPD_BUFFER_MAX_LENGTH, in pieces of the welcome line
  MaxSignals     \* bound: signals that interrupt select()

(* What the program meets at an address: no socket of the family can be    *)
(* had; connect fails at once; it is under way and will be refused; there  *)
(* is an MPD; one that is mute, that closes, that talks without an end, or *)
(* something else that talks.                                              *)
Peers == {"noSocket", "unreachable", "refused", "mpd", "mute", "closes", "endless", "other"}

VARIABLES
  peers,     \* the addresses getaddrinfo gives, by what is there
  next,      \* the address the loop of mpd_connect is at
  sock,      \* connection->sock: an address, or Unset, or Failed
  open,      \* sockets that are open
  buflen,    \* pieces in connection->buffer
  error, doneProcessing,  \* fields of the connection
  pc, signals

vars == <<peers, next, sock, open, buflen, error, doneProcessing, pc, signals>>

Unset  == -2  \* malloc leaves sock with what was there
Failed == -1

Init ==
  /\ peers \in UNION {[1..n -> Peers] : n \in 0..MaxAddresses}
  /\ next = 1 /\ sock = Unset /\ open = {} /\ buflen = 0
  /\ error = "none" /\ doneProcessing = FALSE /\ pc = "resolve" /\ signals = 0

Return(err) == pc' = "returned" /\ error' = err

-----------------------------------------------------------------------------
(* mpd_connect *)
Resolve ==
  /\ pc = "resolve"
  /\ IF peers = <<>> THEN Return("unknown host")
                     ELSE pc' = "addresses" /\ UNCHANGED error
  /\ UNCHANGED <<peers, next, sock, open, buflen, doneProcessing, signals>>

(* One pass of the loop.  It goes on after a connect that has been begun,  *)
(* too, and forgets the socket of it.                                      *)
Address ==
  /\ pc = "addresses" /\ next <= Len(peers)
  /\ LET peer == peers[next]
     IN IF peer = "noSocket"
        THEN sock' = Failed /\ Return("system") /\ UNCHANGED <<next, open>>
        ELSE /\ sock' = IF peer = "unreachable" THEN Failed ELSE next
             /\ open' = IF peer = "unreachable" THEN open ELSE open \cup {next}
             /\ next' = next + 1
             /\ UNCHANGED <<pc, error>>
  /\ UNCHANGED <<peers, buflen, doneProcessing, signals>>

EndOfAddresses ==
  /\ pc = "addresses" /\ next > Len(peers)
  /\ IF sock = Failed THEN Return("connect") ELSE pc' = "welcome" /\ UNCHANGED error
  /\ UNCHANGED <<peers, next, sock, open, buflen, doneProcessing, signals>>

-----------------------------------------------------------------------------
(* mpd_newConnection: the loop until there is a whole line in the buffer.  *)
(* recv() without room, from a closed peer and of a refused connect ends   *)
(* it; the peers that talk send a line of one or two pieces.               *)
Talks == {"mpd", "other", "endless"}
Waiting(who) == pc = "welcome" /\ peers[sock] \in who
UnchangedConnect == UNCHANGED <<peers, next, sock, open>>

Receive ==
  /\ Waiting(Talks) /\ buflen < BufferMax
  /\ buflen' = buflen + 1
  /\ UnchangedConnect /\ UNCHANGED <<error, doneProcessing, pc, signals>>

(* The line is whole: mpd_parseWelcome, in which TRUE stands for no error.  *)
Ready_Always(good) == doneProcessing' = TRUE  \* mutant: usable whatever was read
Ready(good) == doneProcessing' = good

Welcome ==
  /\ Waiting({"mpd", "other"}) /\ buflen > 0
  /\ Return(IF peers[sock] = "mpd" THEN "none" ELSE "not MPD")
  /\ Ready(peers[sock] = "mpd")
  /\ UnchangedConnect /\ UNCHANGED <<buflen, signals>>

(* The peer refuses or closes, the buffer is full, or the time is over.    *)
NoAnswer ==
  /\ Waiting(Peers)
  /\ Return("no response")
  /\ UnchangedConnect /\ UNCHANGED <<buflen, doneProcessing, signals>>

Interrupted ==
  /\ Waiting(Peers) /\ signals < MaxSignals
  /\ signals' = signals + 1
  /\ UnchangedConnect /\ UNCHANGED <<buflen, error, doneProcessing, pc>>

(* mpd_closeConnection, which is to be called after an error, too.         *)
Close ==
  /\ pc = "returned"
  /\ pc' = "closed"
  /\ open' = open \ {sock}
  /\ UNCHANGED <<peers, next, sock, buflen, error, doneProcessing, signals>>

Next == Resolve \/ Address \/ EndOfAddresses \/ Receive \/ Welcome \/ NoAnswer \/ Interrupted \/ Close

Spec == Init /\ [][Next]_vars

-----------------------------------------------------------------------------
(* A connection that can be given commands (doneProcessing) is an open one *)
(* to an MPD that has said so; one that cannot tells why; and what was     *)
(* opened for an only address is closed with it, wherever it failed (with  *)
(* several addresses, sockets of those before the last stay open).         *)
ConnectionUsable ==
  /\ doneProcessing => error = "none" /\ peers[sock] = "mpd"
  /\ pc = "returned" /\ ~doneProcessing => error # "none"
  /\ pc = "returned" /\ doneProcessing => sock \in open
  /\ pc = "closed" /\ Len(peers) <= 1 => open = {}
=============================================================================
