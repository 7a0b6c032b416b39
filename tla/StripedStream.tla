--------------------------- MODULE StripedStream ----------------------------
(***************************************************************************)
(* TCPClient::send and TCPClient::receive over a connected bundle.  Each   *)
(* call moves one block over one socket and the calls take the sockets in  *)
(* turn; one thread sends, another receives, and neither knows how far the *)
(* other is.  What keeps the blocks in order is only that both start at    *)
(* socket 0 and turn the same way.                                         *)
(*                                                                         *)
(* Path i leads from the i-th sending socket through the server back to    *)
(* the i-th receiving socket (the same socket if it is duplex).  It is a   *)
(* byte stream: ::send and ::recv may move a part of a block.  A step      *)
(* moves one unit; a system call that moves more is that many steps.       *)
(* A path may break at any time and lose what it holds from some place on. *)
(***************************************************************************)
EXTENDS Naturals, Sequences

CONSTANTS
  N,         \* sockfd_send_.size(), which is sockfd_rcv_.size()
  L,         \* units per block: tcpBufSize_
  MaxBlocks  \* bound: how many blocks are sent

ASSUME StreamAssumption ==
  N \in Nat \ {0} /\ L \in Nat \ {0} /\ MaxBlocks \in Nat

VARIABLES
  iSocketSend,  \* connection_.iSocketSend_
  iSocketRcv,   \* connection_.iSocketRcv_
  lastError,    \* lastError_ # 0
  \* the thread that sends
  started,      \* blocks given to send() so far; the last has number started-1
  inSend,       \* it is inside send()
  sendSocket,   \* idxSocket of that call
  bytesSent,    \* bytesSent of that call; 0 outside of one
  \* the thread that receives
  begun,        \* receive() calls so far that went on to ::recv
  inRcv,        \* it is inside receive()
  rcvSocket,    \* idxSocketRcv of that call
  buffer,       \* what that call has read so far: Len(buffer) is bytesRcv;
                \* empty outside of one
  delivered,    \* the blocks that receive() has returned
  \* the network and the server
  wire,         \* units under way on each path
  broken        \* paths that take nothing any more

sender   == <<started, inSend, sendSocket, bytesSent, iSocketSend>>
receiver == <<begun, inRcv, rcvSocket, buffer, delivered, iSocketRcv>>
vars == <<sender, receiver, lastError, wire, broken>>

Socket == 0 .. N - 1
Unit   == [blk : Nat, off : 1 .. L]

(* The j-th block that is sent, and what of it comes first.                *)
Part(j, n) == [o \in 1 .. n |-> [blk |-> j, off |-> o]]
Block(j)   == Part(j, L)

(* Fault: no wrap.                                                         *)
TurnUnwrapped(i) == i + 1

(* The socket after socket i, as send() and receive() count.               *)
Turn(i) == IF i + 1 = N THEN 0 ELSE i + 1

Init ==
  /\ iSocketSend = 0 /\ iSocketRcv = 0 /\ lastError = FALSE
  /\ started = 0 /\ inSend = FALSE /\ sendSocket = 0 /\ bytesSent = 0
  /\ begun = 0 /\ inRcv = FALSE /\ rcvSocket = 0 /\ buffer = <<>>
  /\ delivered = <<>>
  /\ wire = [i \in Socket |-> <<>>]
  /\ broken = {}

-----------------------------------------------------------------------------
(* Fault: the turn comes before the socket is picked.                      *)
SendCallTurnsFirst ==
  /\ ~inSend /\ ~lastError
  /\ started < MaxBlocks
  /\ inSend' = TRUE
  /\ sendSocket' = Turn(iSocketSend)
  /\ iSocketSend' = Turn(iSocketSend)
  /\ bytesSent' = 0
  /\ started' = started + 1
  /\ UNCHANGED <<receiver, lastError, wire, broken>>

(* send(data, length) is entered with the next block; with lastError_ set  *)
(* it returns -2 and changes nothing.                                      *)
SendCall ==
  /\ ~inSend /\ ~lastError
  /\ started < MaxBlocks
  /\ inSend' = TRUE
  /\ sendSocket' = iSocketSend
  /\ iSocketSend' = Turn(iSocketSend)
  /\ bytesSent' = 0
  /\ started' = started + 1
  /\ UNCHANGED <<receiver, lastError, wire, broken>>

(* Fault: every ::send begins with the first byte of the block again.      *)
SendUnitFromStart ==
  /\ inSend
  /\ IF sendSocket \in broken
       THEN UNCHANGED wire
       ELSE wire' = [wire EXCEPT ![sendSocket] =
                       Append(@, [blk |-> started - 1, off |-> 1])]
  /\ inSend' = (bytesSent + 1 < L)
  /\ bytesSent' = IF bytesSent + 1 < L THEN bytesSent + 1 ELSE 0
  /\ UNCHANGED <<started, sendSocket, iSocketSend, receiver, lastError, broken>>

(* ::send takes the next unit of the block; with the last one send()       *)
(* returns.  What is written to a broken path is accepted and lost.        *)
SendUnit ==
  /\ inSend
  /\ IF sendSocket \in broken
       THEN UNCHANGED wire
       ELSE wire' = [wire EXCEPT ![sendSocket] =
                       Append(@, [blk |-> started - 1, off |-> bytesSent + 1])]
  /\ inSend' = (bytesSent + 1 < L)
  /\ bytesSent' = IF bytesSent + 1 < L THEN bytesSent + 1 ELSE 0
  /\ UNCHANGED <<started, sendSocket, iSocketSend, receiver, lastError, broken>>

(* ::send fails (reset, time out, or closed by the other thread): set_error *)
(* closes every socket and send() returns -1.                               *)
SendFails ==
  /\ inSend
  /\ inSend' = FALSE /\ bytesSent' = 0
  /\ lastError' = TRUE
  /\ broken' = Socket
  /\ UNCHANGED <<started, sendSocket, iSocketSend, receiver, wire>>

-----------------------------------------------------------------------------
(* Fault: the turn skips the socket it wraps to.                           *)
ReceiveCallSkips ==
  /\ ~inRcv /\ ~lastError
  /\ inRcv' = TRUE
  /\ rcvSocket' = iSocketRcv
  /\ iSocketRcv' = IF iSocketRcv + 1 = N /\ N > 1 THEN 1 ELSE Turn(iSocketRcv)
  /\ buffer' = <<>>
  /\ begun' = begun + 1
  /\ UNCHANGED <<delivered, sender, lastError, wire, broken>>

(* receive(data, tcpBufSize_) is entered.                                  *)
ReceiveCall ==
  /\ ~inRcv /\ ~lastError
  /\ inRcv' = TRUE
  /\ rcvSocket' = iSocketRcv
  /\ iSocketRcv' = Turn(iSocketRcv)
  /\ buffer' = <<>>
  /\ begun' = begun + 1
  /\ UNCHANGED <<delivered, sender, lastError, wire, broken>>

(* ::recv hands over the next unit of the path; when the block is complete *)
(* receive() returns it.                                                   *)
ReceiveUnit ==
  /\ inRcv
  /\ wire[rcvSocket] # <<>>
  /\ wire' = [wire EXCEPT ![rcvSocket] = Tail(@)]
  /\ LET got == Append(buffer, Head(wire[rcvSocket]))
     IN IF Len(got) < L
          THEN buffer' = got /\ UNCHANGED <<inRcv, delivered>>
          ELSE /\ buffer' = <<>> /\ inRcv' = FALSE
               /\ delivered' = Append(delivered, got)
  /\ UNCHANGED <<begun, rcvSocket, iSocketRcv, sender, lastError, broken>>

(* ::recv fails: set_error closes every socket and receive() returns -1.   *)
(* A ::send that is under way in the other thread still goes through.      *)
ReceiveFails ==
  /\ inRcv
  /\ inRcv' = FALSE /\ buffer' = <<>>
  /\ lastError' = TRUE
  /\ broken' = broken \cup {i \in Socket : ~(inSend /\ sendSocket = i)}
  /\ UNCHANGED <<begun, rcvSocket, delivered, iSocketRcv, sender, wire>>

-----------------------------------------------------------------------------
(* The other end or the network gives up path i.                           *)
Break(i) ==
  /\ broken' = broken \cup {i}
  /\ \E k \in 0 .. Len(wire[i]) : wire' = [wire EXCEPT ![i] = SubSeq(@, 1, k)]
  /\ UNCHANGED <<sender, receiver, lastError>>

Next ==
  \/ SendCall \/ SendUnit \/ SendFails
  \/ ReceiveCall \/ ReceiveUnit \/ ReceiveFails
  \/ \E i \in Socket : Break(i)

(* A thread that is inside a system call that can go on goes on; the       *)
(* receiving thread keeps calling receive() until it fails.                *)
Spec == Init /\ [][Next]_vars
FairSpec ==
  Spec /\ WF_vars(SendUnit) /\ WF_vars(ReceiveCall) /\ WF_vars(ReceiveUnit)

-----------------------------------------------------------------------------
(* The variables hold values of their types.                               *)
TypeOK ==
  /\ iSocketSend \in Socket /\ iSocketRcv \in Socket /\ lastError \in BOOLEAN
  /\ started \in Nat /\ inSend \in BOOLEAN /\ sendSocket \in Socket
  /\ bytesSent \in 0 .. L - 1
  /\ begun \in Nat /\ inRcv \in BOOLEAN /\ rcvSocket \in Socket
  /\ buffer \in Seq(Unit) /\ delivered \in Seq(Seq(Unit))
  /\ wire \in [Socket -> Seq(Unit)]
  /\ broken \subseteq Socket

(* receive() returns whole blocks in the order send() was given them: the  *)
(* k-th is the k-th, whatever has broken.                                  *)
InOrder == \A k \in DOMAIN delivered : delivered[k] = Block(k - 1)

(* The units of one path follow each other without a gap; the next block   *)
(* of a path is N blocks further on.                                       *)
Succ(u) == IF u.off < L THEN [blk |-> u.blk, off |-> u.off + 1]
                        ELSE [blk |-> u.blk + N, off |-> 1]

(* How many turns lead from socket a to socket b.                          *)
Turns(a, b) == IF a <= b THEN b - a ELSE b + N - a

(* The unit that goes on path i next, and the one that comes off it next,  *)
(* as the positions of the two threads have it.                            *)
NextIn(i)  == IF inSend /\ sendSocket = i
                THEN [blk |-> started - 1, off |-> bytesSent + 1]
                ELSE [blk |-> started + Turns(iSocketSend, i), off |-> 1]
NextOut(i) == IF inRcv /\ rcvSocket = i
                THEN [blk |-> begun - 1, off |-> Len(buffer) + 1]
                ELSE [blk |-> begun + Turns(iSocketRcv, i), off |-> 1]

Sending   == inSend \/ ~lastError  \* the sender may still write a unit
Receiving == inRcv \/ ~lastError   \* the receiver may still read one

(* What a path holds leads from what the receiver expects of it to what    *)
(* the sender puts on it next.                                             *)
PathInv(i) ==
  /\ \A k \in 1 .. Len(wire[i]) - 1 : wire[i][k + 1] = Succ(wire[i][k])
  /\ \A k \in 1 .. Len(wire[i]) : wire[i][k].blk < started
  /\ Receiving /\ wire[i] # <<>> => wire[i][1] = NextOut(i)
  /\ Sending /\ i \notin broken /\ wire[i] # <<>> =>
       NextIn(i) = Succ(wire[i][Len(wire[i])])
  /\ Sending /\ i \notin broken /\ Receiving /\ wire[i] = <<>> =>
       NextIn(i) = NextOut(i)

SenderInv ==
  inSend => /\ iSocketSend = Turn(sendSocket)
            /\ started > 0

ReceiverInv ==
  /\ inRcv => /\ iSocketRcv = Turn(rcvSocket)
              /\ Len(buffer) < L
              /\ buffer = Part(begun - 1, Len(buffer))
              /\ begun = Len(delivered) + 1
  /\ ~inRcv /\ ~lastError => begun = Len(delivered)
  /\ Len(delivered) <= started

(* The inductive invariant that gives InOrder: on every path the two       *)
(* threads and what is between them agree.                                 *)
StreamInv == SenderInv /\ ReceiverInv /\ InOrder /\ \A i \in Socket : PathInv(i)

(* A client that stripes its blocks over N sockets is a FIFO of blocks.    *)
sent == [k \in 1 .. started |-> Block(k - 1)]
Fifo == INSTANCE BlockFifo WITH Blocks <- {Block(j) : j \in 0 .. MaxBlocks - 1}
ImplementsFifo == Fifo!Spec

(* While nothing breaks no block gets stuck behind another one: every      *)
(* block that is given to send() is returned by receive(), although each   *)
(* thread waits on one socket only.                                        *)
AllArrive ==
  \A k \in 1 .. MaxBlocks :
    started >= k ~> (Len(delivered) >= k \/ lastError \/ broken # {})
=============================================================================
