---------------------------- MODULE SendChannel ----------------------------
(***************************************************************************)
(* What Session::RequestSend promises its callers: a first-in first-out    *)
(* channel to one client.  An accepted message waits; the oldest waiting   *)
(* messages are given to the socket together, or refused together.         *)
(***************************************************************************)
EXTENDS Naturals, Sequences

CONSTANTS Messages

VARIABLES
  accepted,  \* every message accepted so far, in the order of acceptance
  pending,   \* the accepted messages whose fate is open, oldest first
  wire       \* what the socket has taken, in order

chanVars == <<accepted, pending, wire>>

Init ==
  /\ accepted = <<>>
  /\ pending = <<>>
  /\ wire = <<>>

Accept(m) ==
  /\ accepted' = Append(accepted, m)
  /\ pending' = Append(pending, m)
  /\ UNCHANGED wire

\* A batch is a prefix of what is pending.
Settle(n) ==
  /\ pending' = SubSeq(pending, n + 1, Len(pending))
  /\ UNCHANGED accepted

Transmit(n) ==
  /\ Settle(n)
  /\ wire' = wire \o SubSeq(pending, 1, n)

Refuse(n) ==
  /\ Settle(n)
  /\ UNCHANGED wire

Next ==
  \/ \E m \in Messages : Accept(m)
  \/ \E n \in 1 .. Len(pending) : Transmit(n) \/ Refuse(n)

Spec == Init /\ [][Next]_chanVars

=============================================================================
