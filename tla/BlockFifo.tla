----------------------------- MODULE BlockFifo ------------------------------
(***************************************************************************)
(* What a TCPClient promises of the blocks that go through it: receive()   *)
(* returns the blocks that send() was given, in that order, each of them   *)
(* once and whole, for as long as it returns any.  Over how many sockets   *)
(* they are striped cannot be told from outside.                           *)
(***************************************************************************)
EXTENDS Naturals, Sequences

CONSTANT Blocks  \* the blocks a program may send

VARIABLES
  sent,          \* the blocks given to send(), in order
  delivered      \* the blocks receive() has returned, in order

Init == sent = <<>> /\ delivered = <<>>

Accept ==
  /\ \E b \in Blocks : sent' = Append(sent, b)
  /\ UNCHANGED delivered

Deliver ==
  /\ Len(delivered) < Len(sent)
  /\ delivered' = Append(delivered, sent[Len(delivered) + 1])
  /\ UNCHANGED sent

Next == Accept \/ Deliver

Spec == Init /\ [][Next]_<<sent, delivered>>
=============================================================================
