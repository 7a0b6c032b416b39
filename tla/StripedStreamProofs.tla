------------------------ MODULE StripedStreamProofs -------------------------
(***************************************************************************)
(* For any number of sockets, any block size and any number of blocks:     *)
(* what receive() returns is in order and whole, and StripedStream         *)
(* implements BlockFifo.  The argument is the inductive invariant IInv: on *)
(* every path the next unit the receiver expects, the units under way and  *)
(* the next unit the sender puts on it are one run without a gap.          *)
(***************************************************************************)
EXTENDS StripedStream, SequenceTheorems, TLAPS

(* TypeOK and StreamInv together are inductive (send, receive,             *)
(* tcpclient.cpp:388-424, 552-591).                                        *)
IInv == TypeOK /\ StreamInv

-----------------------------------------------------------------------------
(* Taking turns: one turn less is left to every other socket, N-1 turns    *)
(* are left to the socket that has just been used.                         *)
LEMMA TurnsStep ==
  ASSUME NEW i \in Socket, NEW k \in Socket
  PROVE  /\ Turn(i) \in Socket
         /\ Turns(i, k) \in Nat
         /\ Turns(i, i) = 0
         /\ Turns(Turn(i), i) = N - 1
         /\ k # i => Turns(i, k) = 1 + Turns(Turn(i), k)
BY StreamAssumption DEF Turn, Turns, Socket

(* A part of a block is a sequence of units, and grows by the next unit.   *)
LEMMA PartIsSeq ==
  ASSUME NEW j \in Nat, NEW n \in 0 .. L
  PROVE  Part(j, n) \in Seq(Unit) /\ Len(Part(j, n)) = n
<1> USE StreamAssumption
<1>1. n \in Nat
  OBVIOUS
<1>2. Part(j, n) \in [1 .. n -> Unit]
  BY DEF Part, Unit
<1> QED
  BY <1>1, <1>2, IsASeq, LenProperties DEF Part

LEMMA PartGrows ==
  ASSUME NEW j \in Nat, NEW n \in 0 .. L - 1
  PROVE  Append(Part(j, n), [blk |-> j, off |-> n + 1]) = Part(j, n + 1)
<1> USE StreamAssumption
<1> DEFINE u == [blk |-> j, off |-> n + 1]
           s == Append(Part(j, n), u)
<1>1. Part(j, n) \in Seq(Unit) /\ Len(Part(j, n)) = n
  BY PartIsSeq
<1>2. Part(j, n + 1) \in Seq(Unit) /\ Len(Part(j, n + 1)) = n + 1
  BY PartIsSeq
<1>3. u \in Unit
  BY DEF Unit
<1>4. s \in Seq(Unit) /\ Len(s) = n + 1 /\ s[n + 1] = u
      /\ \A i \in 1 .. n : s[i] = Part(j, n)[i]
  BY <1>1, <1>3, AppendProperties
<1>5. \A i \in 1 .. n + 1 : s[i] = Part(j, n + 1)[i]
  BY <1>4 DEF Part
<1> QED
  BY <1>2, <1>4, <1>5, SeqEqual

LEMMA SuccType ==
  ASSUME NEW u \in Unit
  PROVE  Succ(u) \in Unit
BY StreamAssumption DEF Succ, Unit

-----------------------------------------------------------------------------
LEMMA InitInv == Init => IInv
<1> USE StreamAssumption
<1> SUFFICES ASSUME Init PROVE IInv
  OBVIOUS
<1>1. 0 \in Socket
  BY DEF Socket
<1>2. TypeOK
  BY <1>1 DEF Init, TypeOK
<1>3. SenderInv /\ ReceiverInv /\ InOrder
  BY DEF Init, SenderInv, ReceiverInv, InOrder
<1>4. ASSUME NEW i \in Socket PROVE PathInv(i)
  BY <1>4 DEF Init, PathInv, NextIn, NextOut
<1> QED
  BY <1>2, <1>3, <1>4 DEF IInv, StreamInv

LEMMA WireUnits ==
  ASSUME TypeOK, NEW i \in Socket
  PROVE  /\ wire[i] \in Seq(Unit)
         /\ Len(wire[i]) \in Nat
         /\ \A k \in 1 .. Len(wire[i]) :
              /\ wire[i][k] \in Unit
              /\ wire[i][k].blk \in Nat
<1>1. wire[i] \in Seq(Unit)
  BY DEF TypeOK
<1>2. \A k \in 1 .. Len(wire[i]) : wire[i][k] \in Unit
  BY <1>1, ElementOfSeq
<1>3. \A u \in Unit : u.blk \in Nat
  BY DEF Unit
<1> QED
  BY <1>1, <1>2, <1>3, LenProperties

(* A path on which nothing moves keeps its invariant, if the threads that  *)
(* are still to use it stay where they are.                                *)
LEMMA PathKept ==
  ASSUME NEW i \in Socket, TypeOK, PathInv(i),
         wire'[i] = wire[i], started' \in Nat, started <= started',
         Sending' /\ i \notin broken' =>
           Sending /\ i \notin broken /\ NextIn(i)' = NextIn(i),
         Receiving' => Receiving /\ NextOut(i)' = NextOut(i)
  PROVE  PathInv(i)'
<1>1. started \in Nat
  BY DEF TypeOK
<1>2. \A k \in 1 .. Len(wire[i]) : wire[i][k].blk \in Nat /\ wire[i][k].blk < started
  BY WireUnits DEF PathInv
<1>3. \A k \in 1 .. Len(wire'[i]) : wire'[i][k].blk < started'
  BY <1>1, <1>2
<1> QED
  BY <1>3 DEF PathInv

(* send() takes the next block: nothing moves, but the next unit of the    *)
(* socket whose turn it is becomes the first of that block.                *)
LEMMA SendCallInv == IInv /\ SendCall => IInv'
<1> USE StreamAssumption
<1> SUFFICES ASSUME IInv, SendCall PROVE IInv'
  OBVIOUS
<1>0. TypeOK /\ SenderInv /\ ReceiverInv /\ InOrder
      /\ \A i \in Socket : PathInv(i)
  BY DEF IInv, StreamInv
<1>1. TypeOK'
  BY <1>0, TurnsStep DEF TypeOK, SendCall, receiver
<1>2. SenderInv'
  BY <1>0 DEF TypeOK, SendCall, SenderInv
<1>3. ReceiverInv' /\ InOrder'
  BY <1>0 DEF TypeOK, SendCall, receiver, ReceiverInv, InOrder
<1>4. ASSUME NEW i \in Socket PROVE PathInv(i)'
  <2>1. NextOut(i)' = NextOut(i)
    BY DEF SendCall, receiver, NextOut
  <2>2. NextIn(i)' = NextIn(i)
    <3>1. CASE i = iSocketSend
      BY <3>1, <1>0, TurnsStep DEF TypeOK, SendCall, NextIn
    <3>2. CASE i # iSocketSend
      <4>1. Turns(iSocketSend, i) = 1 + Turns(Turn(iSocketSend), i)
            /\ Turns(Turn(iSocketSend), i) \in Nat
        BY <3>2, <1>0, TurnsStep DEF TypeOK
      <4>2. NextIn(i) = [blk |-> started + Turns(iSocketSend, i), off |-> 1]
        BY DEF SendCall, NextIn
      <4>3. NextIn(i)' = [blk |-> started + 1 + Turns(Turn(iSocketSend), i), off |-> 1]
        BY <3>2 DEF SendCall, NextIn, Turns
      <4> QED
        BY <4>1, <4>2, <4>3, <1>0 DEF TypeOK
    <3> QED
      BY <3>1, <3>2
  <2>3. wire' = wire /\ broken' = broken /\ started' = started + 1
        /\ Sending /\ (Receiving' <=> Receiving)
    BY DEF SendCall, receiver, Sending, Receiving
  <2>4. started \in Nat
    BY <1>0 DEF TypeOK
  <2> QED
    BY <2>1, <2>2, <2>3, <2>4, <1>0, PathKept
<1> QED
  BY <1>1, <1>2, <1>3, <1>4 DEF IInv, StreamInv

(* The unit that is put on the path is the one its invariant calls next.   *)
LEMMA SendUnitInv == IInv /\ SendUnit => IInv'
<1> USE StreamAssumption
<1> SUFFICES ASSUME IInv, SendUnit PROVE IInv'
  OBVIOUS
<1>0. TypeOK /\ SenderInv /\ ReceiverInv /\ InOrder
      /\ \A i \in Socket : PathInv(i)
  BY DEF IInv, StreamInv
<1>s. PICK s \in Socket : s = sendSocket
  BY <1>0 DEF TypeOK
<1>n. started \in Nat /\ started > 0 /\ bytesSent \in 0 .. L - 1
  BY <1>0 DEF TypeOK, SenderInv, SendUnit
<1>u. PICK u \in Unit : u = [blk |-> started - 1, off |-> bytesSent + 1]
  <2>1. started - 1 \in Nat /\ bytesSent + 1 \in 1 .. L
    BY <1>n
  <2> QED
    BY <2>1 DEF Unit
<1>a. /\ iSocketSend = Turn(s)
      /\ u = NextIn(s)
      /\ u.blk = started - 1 /\ u.off = bytesSent + 1
  BY <1>0, <1>s, <1>n, <1>u DEF TypeOK, SenderInv, SendUnit, NextIn
<1>b. /\ wire' \in [Socket -> Seq(Unit)]
      /\ s \in broken => wire' = wire
      /\ s \notin broken => wire'[s] = Append(wire[s], u)
      /\ \A i \in Socket \ {s} : wire'[i] = wire[i]
  <2>1. wire \in [Socket -> Seq(Unit)] /\ wire[s] \in Seq(Unit)
    BY <1>0 DEF TypeOK
  <2>2. Append(wire[s], u) \in Seq(Unit)
    BY <2>1, AppendProperties
  <2>3. IF s \in broken THEN wire' = wire
                        ELSE wire' = [wire EXCEPT ![s] = Append(@, u)]
    BY <1>s, <1>u DEF SendUnit
  <2> QED
    BY <2>1, <2>2, <2>3
<1>1. TypeOK'
  BY <1>0, <1>n, <1>a, <1>b DEF TypeOK, SendUnit, receiver
<1>2. SenderInv'
  BY <1>0, <1>n, <1>a DEF SendUnit, SenderInv
<1>3. ReceiverInv' /\ InOrder'
  BY <1>0 DEF SendUnit, receiver, ReceiverInv, InOrder
<1>4. /\ broken' = broken /\ started' = started /\ Sending
      /\ Receiving' <=> Receiving
      /\ \A i \in Socket : NextOut(i)' = NextOut(i)
  BY DEF SendUnit, receiver, Sending, Receiving, NextOut
<1>5. ASSUME NEW i \in Socket, i # s PROVE PathInv(i)'
  <2>1. NextIn(i)' = NextIn(i)
    BY <1>5, <1>s DEF SendUnit, NextIn, Turns
  <2> QED
    BY <2>1, <1>0, <1>n, <1>a, <1>b, <1>4, <1>5, PathKept
<1>6. ASSUME s \in broken PROVE PathInv(s)'
  BY <1>0, <1>n, <1>a, <1>b, <1>4, <1>6, PathKept
<1>7. NextIn(s)' = Succ(u)
  <2>1. CASE bytesSent + 1 < L
    BY <2>1, <1>n, <1>a, <1>s DEF SendUnit, NextIn, Succ
  <2>2. CASE bytesSent + 1 >= L
    <3>1. ~inSend' /\ iSocketSend' = Turn(s) /\ started' = started
      <4>1. ~(bytesSent + 1 < L)
        BY <2>2, <1>n
      <4> QED
        BY <4>1, <1>a, Zenon DEF SendUnit
    <3>2. NextIn(s)' = [blk |-> started + Turns(Turn(s), s), off |-> 1]
      BY <3>1 DEF NextIn, Turns
    <3>3. Succ(u) = [blk |-> started - 1 + N, off |-> 1]
      BY <2>2, <1>n, <1>a DEF Succ
    <3>4. started + (N - 1) = started - 1 + N
      BY <1>n
    <3> QED
      BY <3>2, <3>3, <3>4, TurnsStep
  <2> QED
    BY <2>1, <2>2, <1>n, <1>a
<1>8. ASSUME s \notin broken PROVE PathInv(s)'
  <2>1. /\ Len(wire'[s]) = Len(wire[s]) + 1 /\ Len(wire[s]) \in Nat
        /\ wire'[s][Len(wire[s]) + 1] = u
        /\ \A k \in 1 .. Len(wire[s]) : wire'[s][k] = wire[s][k]
    BY <1>0, <1>n, <1>a, <1>b, <1>8, AppendProperties, WireUnits
  <2>2. \A k \in 1 .. Len(wire[s]) : wire'[s][k].blk < started'
    BY <2>1, <1>0, <1>n, <1>a, <1>4 DEF PathInv
  <2>3. u.blk < started'
    BY <1>n, <1>a, <1>4
  <2>4. wire[s] # <<>> => u = Succ(wire[s][Len(wire[s])])
    BY <1>0, <1>n, <1>a, <1>4, <1>8 DEF PathInv
  <2>5. wire[s] = <<>> /\ Receiving => u = NextOut(s)
    BY <1>0, <1>n, <1>a, <1>4, <1>8 DEF PathInv
  <2>6. wire[s] = <<>> <=> Len(wire[s]) = 0
    BY <1>0, <1>n, <1>a, WireUnits, EmptySeq
  <2>7. \A k \in 1 .. Len(wire'[s]) : wire'[s][k].blk < started'
    BY <2>1, <2>2, <2>3
  <2>8. \A k \in 1 .. Len(wire'[s]) - 1 : wire'[s][k + 1] = Succ(wire'[s][k])
    BY <2>1, <2>4, <2>6, <1>0, <1>n, <1>a, SMTT(30) DEF PathInv
  <2>9. Receiving' => wire'[s][1] = NextOut(s)'
    BY <2>1, <2>5, <2>6, <1>0, <1>n, <1>a, <1>4 DEF PathInv
  <2>10. wire'[s] # <<>>
    BY <2>1, EmptySeq
  <2> QED
    BY <2>1, <2>7, <2>8, <2>9, <2>10, <1>7 DEF PathInv
<1>9. \A i \in Socket : PathInv(i)'
  BY <1>5, <1>6, <1>8
<1> QED
  BY <1>1, <1>2, <1>3, <1>9 DEF IInv, StreamInv

-----------------------------------------------------------------------------
(* After a failure no one writes: the paths only have to stay as they are. *)
LEMMA SendFailsInv == IInv /\ SendFails => IInv'
<1> USE StreamAssumption
<1> SUFFICES ASSUME IInv, SendFails PROVE IInv'
  OBVIOUS
<1>0. TypeOK /\ SenderInv /\ ReceiverInv /\ InOrder
      /\ \A i \in Socket : PathInv(i)
  BY DEF IInv, StreamInv
<1>1. TypeOK'
  <2>1. 0 \in 0 .. L - 1
    OBVIOUS
  <2> QED
    BY <2>1, <1>0 DEF TypeOK, SendFails, receiver
<1>2. SenderInv' /\ ReceiverInv' /\ InOrder'
  BY <1>0 DEF SendFails, receiver, SenderInv, ReceiverInv, InOrder
<1>3. ASSUME NEW i \in Socket PROVE PathInv(i)'
  <2>1. ~Sending' /\ (Receiving' => Receiving) /\ NextOut(i)' = NextOut(i)
        /\ wire' = wire /\ started' = started /\ started \in Nat
    BY <1>0 DEF TypeOK, SendFails, receiver, Sending, Receiving, NextOut, Turns
  <2> QED
    BY <2>1, <1>0, PathKept
<1> QED
  BY <1>1, <1>2, <1>3 DEF IInv, StreamInv

(* receive() picks the socket whose turn it is.                            *)
LEMMA ReceiveCallInv == IInv /\ ReceiveCall => IInv'
<1> USE StreamAssumption
<1> SUFFICES ASSUME IInv, ReceiveCall PROVE IInv'
  OBVIOUS
<1>0. TypeOK /\ SenderInv /\ ReceiverInv /\ InOrder
      /\ \A i \in Socket : PathInv(i)
  BY DEF IInv, StreamInv
<1>n. begun \in Nat /\ begun = Len(delivered) /\ buffer' = <<>> /\ begun' = begun + 1
  BY <1>0 DEF TypeOK, ReceiverInv, ReceiveCall
<1>1. TypeOK'
  BY <1>0, TurnsStep DEF TypeOK, ReceiveCall, sender
<1>2. SenderInv' /\ InOrder'
  BY <1>0 DEF ReceiveCall, sender, SenderInv, InOrder
<1>3. ReceiverInv'
  <2>1. Len(buffer') = 0 /\ buffer' = Part(begun' - 1, 0)
    BY <1>n, EmptySeq DEF Part
  <2> QED
    BY <2>1, <1>n, <1>0 DEF ReceiverInv, ReceiveCall, sender
<1>4. ASSUME NEW i \in Socket PROVE PathInv(i)'
  <2>1. NextIn(i)' = NextIn(i)
    BY DEF ReceiveCall, sender, NextIn
  <2>2. NextOut(i)' = NextOut(i)
    <3>1. CASE i = iSocketRcv
      BY <3>1, <1>0, <1>n, TurnsStep DEF TypeOK, ReceiveCall, NextOut
    <3>2. CASE i # iSocketRcv
      <4>1. Turns(iSocketRcv, i) = 1 + Turns(Turn(iSocketRcv), i)
            /\ Turns(Turn(iSocketRcv), i) \in Nat
        BY <3>2, <1>0, TurnsStep DEF TypeOK
      <4>2. NextOut(i) = [blk |-> begun + Turns(iSocketRcv, i), off |-> 1]
        BY DEF ReceiveCall, NextOut
      <4>3. NextOut(i)' = [blk |-> begun + 1 + Turns(Turn(iSocketRcv), i), off |-> 1]
        BY <3>2 DEF ReceiveCall, NextOut, Turns
      <4> QED
        BY <4>1, <4>2, <4>3, <1>n
    <3> QED
      BY <3>1, <3>2
  <2>3. wire' = wire /\ broken' = broken /\ started' = started /\ started \in Nat
        /\ Receiving /\ (Sending' <=> Sending)
    BY <1>0 DEF TypeOK, ReceiveCall, sender, Sending, Receiving
  <2> QED
    BY <2>1, <2>2, <2>3, <1>0, PathKept
<1> QED
  BY <1>1, <1>2, <1>3, <1>4 DEF IInv, StreamInv

(* The unit that comes off the path is the one its invariant calls next;   *)
(* the one behind it, or the next one the sender puts on, follows it.      *)
LEMMA ReceiveUnitInv == IInv /\ ReceiveUnit => IInv'
<1> USE StreamAssumption
<1> SUFFICES ASSUME IInv, ReceiveUnit PROVE IInv'
  OBVIOUS
<1>0. TypeOK /\ SenderInv /\ ReceiverInv /\ InOrder
      /\ \A i \in Socket : PathInv(i)
  BY DEF IInv, StreamInv
<1>r. PICK r \in Socket : r = rcvSocket
  BY <1>0 DEF TypeOK
<1>n. PICK n \in 0 .. L - 1 : n = Len(buffer)
  BY <1>0 DEF TypeOK, ReceiverInv, ReceiveUnit
<1>d. PICK d \in Nat : d = Len(delivered)
  BY <1>0, LenProperties DEF TypeOK
<1>a. /\ inRcv /\ Receiving
      /\ begun = d + 1 /\ iSocketRcv = Turn(r)
      /\ buffer = Part(d, n)
      /\ NextOut(r) = [blk |-> d, off |-> n + 1]
  BY <1>0, <1>r, <1>n, <1>d DEF ReceiverInv, ReceiveUnit, Receiving, NextOut
<1>w. /\ wire \in [Socket -> Seq(Unit)]
      /\ wire[r] \in Seq(Unit) /\ wire[r] # <<>>
      /\ Len(wire[r]) \in Nat \ {0}
      /\ wire[r][1] = [blk |-> d, off |-> n + 1]
      /\ wire[r][1].blk = d
      /\ Head(wire[r]) = wire[r][1]
      /\ d < started
  <2>1. wire \in [Socket -> Seq(Unit)] /\ wire[r] \in Seq(Unit) /\ wire[r] # <<>>
    BY <1>0, <1>r DEF TypeOK, ReceiveUnit
  <2>2. Len(wire[r]) \in Nat \ {0}
    BY <2>1, EmptySeq, LenProperties
  <2>3. wire[r][1] = [blk |-> d, off |-> n + 1]
    BY <2>1, <1>0, <1>a DEF PathInv
  <2>4. wire[r][1].blk < started
    BY <2>2, <1>0 DEF PathInv
  <2> QED
    BY <2>1, <2>2, <2>3, <2>4
<1>m. PICK m \in Nat : Len(wire[r]) = m + 1
  <2>1. PICK l \in Nat \ {0} : l = Len(wire[r])
    BY <1>w
  <2>2. l - 1 \in Nat /\ Len(wire[r]) = l - 1 + 1
    BY <2>1
  <2> QED
    BY <2>2
<1>t. /\ wire' \in [Socket -> Seq(Unit)]
      /\ wire'[r] \in Seq(Unit)
      /\ Len(wire'[r]) = m
      /\ \A k \in 1 .. m : wire'[r][k] = wire[r][k + 1]
      /\ \A i \in Socket \ {r} : wire'[i] = wire[i]
  <2>1. wire' = [wire EXCEPT ![r] = Tail(wire[r])]
    BY <1>r DEF ReceiveUnit
  <2>2. /\ Tail(wire[r]) \in Seq(Unit)
        /\ Len(Tail(wire[r])) = m
        /\ \A k \in 1 .. m : Tail(wire[r])[k] = wire[r][k + 1]
    BY <1>w, <1>m, HeadTailProperties
  <2> QED
    BY <2>1, <2>2, <1>w
<1>g. /\ Append(buffer, Head(wire[r])) = Part(d, n + 1)
      /\ Len(Part(d, n + 1)) = n + 1 /\ Part(d, n + 1) \in Seq(Unit)
  <2>1. Append(buffer, Head(wire[r])) = Part(d, n + 1)
    BY <1>a, <1>w, PartGrows
  <2>2. Len(Part(d, n + 1)) = n + 1 /\ Part(d, n + 1) \in Seq(Unit)
    BY PartIsSeq
  <2> QED
    BY <2>1, <2>2
<1>b. /\ begun' = begun /\ rcvSocket' = r /\ iSocketRcv' = iSocketRcv
      /\ n + 1 < L => inRcv' /\ buffer' = Part(d, n + 1) /\ delivered' = delivered
      /\ ~(n + 1 < L) => /\ ~inRcv' /\ buffer' = <<>>
                         /\ delivered' = Append(delivered, Block(d))
  <2>1. ~(n + 1 < L) => n + 1 = L
    OBVIOUS
  <2>2. Len(Append(buffer, Head(wire[rcvSocket]))) = n + 1
    BY <1>g, <1>r
  <2>3. CASE n + 1 < L
    BY <2>2, <2>3, <1>g, <1>r, <1>a DEF ReceiveUnit
  <2>4. CASE ~(n + 1 < L)
    BY <2>1, <2>2, <2>4, <1>g, <1>r DEF Block, ReceiveUnit
  <2> QED
    BY <2>3, <2>4
<1>e. /\ delivered' \in Seq(Seq(Unit))
      /\ Len(delivered') = IF n + 1 < L THEN d ELSE d + 1
      /\ \A k \in 1 .. d : delivered'[k] = delivered[k]
      /\ ~(n + 1 < L) => delivered'[d + 1] = Block(d)
  <2>1. delivered \in Seq(Seq(Unit)) /\ Block(d) \in Seq(Unit)
    BY <1>0, PartIsSeq DEF TypeOK, Block
  <2>2. /\ Append(delivered, Block(d)) \in Seq(Seq(Unit))
        /\ Len(Append(delivered, Block(d))) = d + 1
        /\ \A k \in 1 .. d : Append(delivered, Block(d))[k] = delivered[k]
        /\ Append(delivered, Block(d))[d + 1] = Block(d)
    BY <2>1, <1>d, AppendProperties
  <2>3. CASE n + 1 < L
    BY <2>1, <2>3, <1>b, <1>d
  <2>4. CASE ~(n + 1 < L)
    BY <2>2, <2>4, <1>b
  <2> QED
    BY <2>3, <2>4
<1>1. TypeOK'
  <2>1. inRcv' \in BOOLEAN
    BY <1>0 DEF ReceiveUnit, TypeOK
  <2>2. buffer' \in Seq(Unit)
    BY <1>b, <1>g, EmptySeq
  <2> QED
    BY <2>1, <2>2, <1>0, <1>t, <1>e DEF TypeOK, ReceiveUnit, sender
<1>2. SenderInv'
  BY <1>0 DEF ReceiveUnit, sender, SenderInv
<1>3. ReceiverInv'
  <2>1. started' = started /\ started \in Nat
    BY <1>0 DEF TypeOK, ReceiveUnit, sender
  <2> QED
    BY <2>1, <1>a, <1>b, <1>e, <1>g, <1>w DEF ReceiverInv
<1>4. InOrder'
  <2>1. DOMAIN delivered = 1 .. d /\ DOMAIN delivered' = 1 .. Len(delivered')
    BY <1>0, <1>d, <1>e, LenProperties DEF TypeOK
  <2>2. \A k \in 1 .. d : delivered'[k] = Block(k - 1)
    BY <2>1, <1>0, <1>e DEF InOrder
  <2>3. ~(n + 1 < L) => delivered'[d + 1] = Block(d + 1 - 1)
    BY <1>e
  <2>4. ASSUME NEW k \in DOMAIN delivered' PROVE delivered'[k] = Block(k - 1)
    <3>1. CASE k \in 1 .. d
      BY <3>1, <2>2
    <3>2. CASE k \notin 1 .. d
      <4>1. k = d + 1 /\ ~(n + 1 < L)
        BY <3>2, <2>1, <1>e
      <4> QED
        BY <4>1, <2>3
    <3> QED
      BY <3>1, <3>2
  <2> QED
    BY <2>4 DEF InOrder, Block, Part
<1>5. /\ Sending' <=> Sending
      /\ started' = started /\ started \in Nat
      /\ broken' = broken
      /\ \A i \in Socket : NextIn(i)' = NextIn(i)
  BY <1>0 DEF TypeOK, ReceiveUnit, sender, Sending, NextIn, Turns
<1>6. ASSUME NEW i \in Socket, i # r PROVE PathInv(i)'
  <2>1. NextOut(i)' = NextOut(i)
    BY <1>6, <1>a, <1>b, <1>r DEF NextOut, Turns
  <2> QED
    BY <2>1, <1>t, <1>0, <1>a, <1>5, <1>6, PathKept
<1>7. NextOut(r)' = Succ(wire[r][1])
  <2>1. CASE n + 1 < L
    <3>1. NextOut(r)' = [blk |-> d, off |-> n + 1 + 1]
      BY <2>1, <1>a, <1>b, <1>g DEF NextOut
    <3> QED
      BY <3>1, <2>1, <1>w DEF Succ
  <2>2. CASE ~(n + 1 < L)
    <3>1. NextOut(r)' = [blk |-> d + 1 + Turns(Turn(r), r), off |-> 1]
      BY <2>2, <1>a, <1>b DEF NextOut, Turns
    <3>2. Succ(wire[r][1]) = [blk |-> d + N, off |-> 1]
      BY <2>2, <1>w DEF Succ
    <3>3. d + 1 + (N - 1) = d + N
      OBVIOUS
    <3> QED
      BY <3>1, <3>2, <3>3, TurnsStep
  <2> QED
    BY <2>1, <2>2
<1>8. PathInv(r)'
  <2>1. /\ \A k \in 1 .. m : wire[r][k + 1] = Succ(wire[r][k])
        /\ \A k \in 1 .. m + 1 : wire[r][k].blk < started
        /\ Sending /\ r \notin broken => NextIn(r) = Succ(wire[r][m + 1])
    BY <1>0, <1>w, <1>m, SMTT(30) DEF PathInv
  <2>2. \A k \in 1 .. m - 1 : wire'[r][k + 1] = Succ(wire'[r][k])
    <3>1. \A k \in 1 .. m - 1 : k \in 1 .. m /\ k + 1 \in 1 .. m
      OBVIOUS
    <3> QED
      BY <3>1, <2>1, <1>t
  <2>3. \A k \in 1 .. m : wire'[r][k].blk < started
    <3>1. \A k \in 1 .. m : k + 1 \in 1 .. m + 1
      OBVIOUS
    <3> QED
      BY <3>1, <2>1, <1>t
  <2>4. CASE m = 0
    <3>1. wire'[r] = <<>>
      BY <2>4, <1>t, EmptySeq
    <3> QED
      BY <3>1, <2>1, <2>4, <1>t, <1>5, <1>7 DEF PathInv
  <2>5. CASE m # 0
    <3>1. wire'[r] # <<>> /\ 1 \in 1 .. m /\ m \in 1 .. m
      BY <2>5, <1>t, EmptySeq
    <3>2. wire'[r][1] = NextOut(r)'
      BY <3>1, <2>1, <1>t, <1>7
    <3>3. wire'[r][m] = wire[r][m + 1]
      BY <3>1, <1>t
    <3> QED
      BY <3>1, <3>2, <3>3, <2>1, <2>2, <2>3, <1>t, <1>5 DEF PathInv
  <2> QED
    BY <2>4, <2>5
<1> QED
  BY <1>1, <1>2, <1>3, <1>4, <1>6, <1>8 DEF IInv, StreamInv

(* A receive that fails leaves a path on which a send may still go on.     *)
LEMMA ReceiveFailsInv == IInv /\ ReceiveFails => IInv'
<1> USE StreamAssumption
<1> SUFFICES ASSUME IInv, ReceiveFails PROVE IInv'
  OBVIOUS
<1>0. TypeOK /\ SenderInv /\ ReceiverInv /\ InOrder
      /\ \A i \in Socket : PathInv(i)
  BY DEF IInv, StreamInv
<1>1. TypeOK'
  <2>1. <<>> \in Seq(Unit)
    BY EmptySeq
  <2> QED
    BY <2>1, <1>0 DEF TypeOK, ReceiveFails, sender
<1>2. SenderInv' /\ ReceiverInv' /\ InOrder'
  BY <1>0 DEF ReceiveFails, sender, SenderInv, ReceiverInv, InOrder
<1>3. ASSUME NEW i \in Socket PROVE PathInv(i)'
  <2>1. ~Receiving' /\ (Sending' => Sending) /\ NextIn(i)' = NextIn(i)
        /\ wire' = wire /\ started' = started /\ started \in Nat
        /\ broken \subseteq broken'
    BY <1>0 DEF TypeOK, ReceiveFails, sender, Sending, Receiving, NextIn, Turns
  <2> QED
    BY <2>1, <1>0, PathKept
<1> QED
  BY <1>1, <1>2, <1>3 DEF IInv, StreamInv

(* What a path loses is at its end, and nothing is added to it any more.   *)
LEMMA BreakInv == ASSUME NEW b \in Socket PROVE IInv /\ Break(b) => IInv'
<1> USE StreamAssumption
<1> SUFFICES ASSUME IInv, Break(b) PROVE IInv'
  OBVIOUS
<1>0. TypeOK /\ SenderInv /\ ReceiverInv /\ InOrder
      /\ \A i \in Socket : PathInv(i)
  BY DEF IInv, StreamInv
<1>k. PICK k \in 0 .. Len(wire[b]) : wire' = [wire EXCEPT ![b] = SubSeq(@, 1, k)]
  BY DEF Break
<1>w. /\ wire \in [Socket -> Seq(Unit)]
      /\ Len(wire[b]) \in Nat
      /\ \A j \in 1 .. Len(wire[b]) : wire[b][j] \in Unit
  BY <1>0, WireUnits DEF TypeOK
<1>s. /\ wire'[b] = SubSeq(wire[b], 1, k)
      /\ wire'[b] \in Seq(Unit)
      /\ Len(wire'[b]) = k
      /\ \A j \in 1 .. k : wire'[b][j] = wire[b][j]
  <2>1. wire'[b] = SubSeq(wire[b], 1, k)
    BY <1>k, <1>w
  <2>2. k \in Int /\ 1 \in Int /\ \A j \in 1 .. k : wire[b][j] \in Unit
    BY <1>w
  <2>3. /\ SubSeq(wire[b], 1, k) \in Seq(Unit)
        /\ Len(SubSeq(wire[b], 1, k)) = IF 1 <= k THEN k - 1 + 1 ELSE 0
        /\ \A j \in 1 .. k - 1 + 1 : SubSeq(wire[b], 1, k)[j] = wire[b][1 + j - 1]
    BY <2>2, SubSeqProperties
  <2> QED
    BY <2>1, <2>3, <1>w
<1>1. TypeOK'
  BY <1>0, <1>k, <1>s DEF TypeOK, Break, sender, receiver
<1>2. SenderInv' /\ ReceiverInv' /\ InOrder'
  BY <1>0 DEF Break, sender, receiver, SenderInv, ReceiverInv, InOrder
<1>3. /\ Sending' <=> Sending
      /\ Receiving' <=> Receiving
      /\ started' = started /\ started \in Nat
      /\ broken' = broken \cup {b}
      /\ \A i \in Socket : NextIn(i)' = NextIn(i) /\ NextOut(i)' = NextOut(i)
  BY <1>0 DEF TypeOK, Break, sender, receiver, Sending, Receiving, NextIn, NextOut, Turns
<1>4. ASSUME NEW i \in Socket, i # b PROVE PathInv(i)'
  <2>1. wire'[i] = wire[i]
    BY <1>4, <1>k, <1>w
  <2> QED
    BY <2>1, <1>3, <1>4, <1>0, PathKept
<1>5. PathInv(b)'
  <2>1. \A j \in 1 .. Len(wire'[b]) - 1 : wire'[b][j + 1] = Succ(wire'[b][j])
    BY <1>0, <1>s, <1>w DEF PathInv
  <2>2. \A j \in 1 .. Len(wire'[b]) : wire'[b][j].blk < started'
    BY <1>0, <1>s, <1>w, <1>3 DEF PathInv
  <2>3. Receiving' /\ wire'[b] # <<>> => wire'[b][1] = NextOut(b)'
    <3>1. wire'[b] # <<>> => k \in 1 .. Len(wire[b])
      BY <1>s, <1>w, EmptySeq
    <3>2. k \in 1 .. Len(wire[b]) => wire[b] # <<>> /\ wire'[b][1] = wire[b][1]
      BY <1>s, <1>w, EmptySeq
    <3> QED
      BY <3>1, <3>2, <1>0, <1>3 DEF PathInv
  <2> QED
    BY <2>1, <2>2, <2>3, <1>3 DEF PathInv
<1> QED
  BY <1>1, <1>2, <1>4, <1>5 DEF IInv, StreamInv

-----------------------------------------------------------------------------
LEMMA NextInv == IInv /\ [Next]_vars => IInv'
<1> SUFFICES ASSUME IInv, [Next]_vars PROVE IInv'
  OBVIOUS
<1>1. CASE SendCall
  BY <1>1, SendCallInv
<1>2. CASE SendUnit
  BY <1>2, SendUnitInv
<1>3. CASE SendFails
  BY <1>3, SendFailsInv
<1>4. CASE ReceiveCall
  BY <1>4, ReceiveCallInv
<1>5. CASE ReceiveUnit
  BY <1>5, ReceiveUnitInv
<1>6. CASE ReceiveFails
  BY <1>6, ReceiveFailsInv
<1>7. ASSUME NEW i \in Socket, Break(i) PROVE IInv'
  BY <1>7, BreakInv
<1>8. CASE UNCHANGED vars
  BY <1>8, SMTT(30) DEF vars, sender, receiver, IInv, TypeOK, StreamInv, SenderInv,
    ReceiverInv, InOrder, PathInv, NextIn, NextOut, Sending, Receiving, Turns, Turn
<1> QED
  BY <1>1, <1>2, <1>3, <1>4, <1>5, <1>6, <1>7, <1>8 DEF Next

(* The invariant holds of every behaviour of send and receive              *)
(* (tcpclient.cpp:388-424, 552-591), over any number of sockets.           *)
THEOREM Invariance == Spec => []IInv
  BY InitInv, NextInv, PTL DEF Spec

(* The variables always hold values of their types.                        *)
THEOREM TypeCorrect == Spec => []TypeOK
<1>1. IInv => TypeOK
  BY DEF IInv
<1> QED
  BY <1>1, Invariance, PTL

(* What is under way on every path always leads from the receiver's        *)
(* position to the sender's.                                               *)
THEOREM PathsAgree == Spec => []StreamInv
<1>1. IInv => StreamInv
  BY DEF IInv
<1> QED
  BY <1>1, Invariance, PTL

(* receive() returns whole blocks in the order in which send() was given   *)
(* them, whatever paths break and whichever call fails.                    *)
THEOREM BlocksInOrder == Spec => []InOrder
<1>1. IInv => InOrder
  BY DEF IInv, StreamInv
<1> QED
  BY <1>1, Invariance, PTL

-----------------------------------------------------------------------------
(* The blocks given to send() so far are a sequence as long as the number  *)
(* of calls.                                                               *)
LEMMA SentIsSeq ==
  ASSUME NEW n \in Nat
  PROVE  LET s == [k \in 1 .. n |-> Block(k - 1)]
         IN /\ s \in Seq(Seq(Unit))
            /\ Len(s) = n
            /\ \A k \in 1 .. n : s[k] = Block(k - 1)
<1> USE StreamAssumption
<1> DEFINE s == [k \in 1 .. n |-> Block(k - 1)]
<1>1. \A k \in 1 .. n : Block(k - 1) \in Seq(Unit)
  BY PartIsSeq DEF Block
<1>2. s \in [1 .. n -> Seq(Unit)]
  BY <1>1
<1> QED
  BY <1>2, IsASeq, LenProperties

(* One block more: the sequence grows at its end.                          *)
LEMMA SentGrows ==
  ASSUME NEW n \in Nat
  PROVE  [k \in 1 .. n + 1 |-> Block(k - 1)]
           = Append([k \in 1 .. n |-> Block(k - 1)], Block(n))
<1> USE StreamAssumption
<1> DEFINE s == [k \in 1 .. n |-> Block(k - 1)]
           t == [k \in 1 .. n + 1 |-> Block(k - 1)]
<1>1. s \in Seq(Seq(Unit)) /\ Len(s) = n /\ \A k \in 1 .. n : s[k] = Block(k - 1)
  BY SentIsSeq
<1>2. /\ t \in Seq(Seq(Unit)) /\ Len(t) = n + 1
      /\ \A k \in 1 .. n + 1 : t[k] = Block(k - 1)
  BY SentIsSeq, n + 1 \in Nat
<1>3. Block(n) \in Seq(Unit)
  BY PartIsSeq DEF Block
<1> HIDE DEF s, t
<1>4. /\ Append(s, Block(n)) \in Seq(Seq(Unit))
      /\ Len(Append(s, Block(n))) = n + 1
      /\ \A k \in 1 .. n : Append(s, Block(n))[k] = s[k]
      /\ Append(s, Block(n))[n + 1] = Block(n)
  BY <1>1, <1>3, AppendProperties
<1>5. \A k \in 1 .. n + 1 : t[k] = Append(s, Block(n))[k]
  BY <1>1, <1>2, <1>4
<1>6. t = Append(s, Block(n))
  BY <1>2, <1>4, <1>5, SeqEqual
<1> QED
  BY <1>6 DEF s, t

LEMMA FifoInit == Init => Fifo!Init
<1> SUFFICES ASSUME Init PROVE Fifo!Init
  OBVIOUS
<1>1. Len(sent) = 0 /\ sent \in Seq(Seq(Unit))
  BY SentIsSeq DEF Init, sent
<1>2. sent = <<>>
  BY <1>1, EmptySeq
<1> QED
  BY <1>2 DEF Init, Fifo!Init

(* A call of send() accepts a block, the last unit of a block delivers it, *)
(* and nothing else shows.                                                 *)
LEMMA FifoStep == IInv /\ IInv' /\ [Next]_vars => [Fifo!Next]_<<sent, delivered>>
<1> USE StreamAssumption
<1> SUFFICES ASSUME IInv, IInv', [Next]_vars
             PROVE  [Fifo!Next]_<<sent, delivered>>
  OBVIOUS
<1>0. /\ InOrder' /\ ReceiverInv'
      /\ started \in Nat /\ started' \in Nat
      /\ delivered \in Seq(Seq(Unit)) /\ delivered' \in Seq(Seq(Unit))
      /\ buffer \in Seq(Unit) /\ rcvSocket \in Socket
      /\ wire \in [Socket -> Seq(Unit)]
  BY DEF IInv, StreamInv, TypeOK
<1>1. started' = started => sent' = sent
  BY DEF sent, Block, Part
<1>2. CASE SendCall
  <2>1. started' = started + 1 /\ started < MaxBlocks /\ delivered' = delivered
    BY <1>2 DEF SendCall, receiver
  <2>2. sent' = [k \in 1 .. started + 1 |-> Block(k - 1)]
    BY <2>1 DEF sent, Block, Part
  <2>3. sent' = Append(sent, Block(started))
    BY <2>2, <1>0, SentGrows DEF sent
  <2>4. started \in 0 .. MaxBlocks - 1
    BY <2>1, <1>0
  <2> QED
    BY <2>1, <2>3, <2>4 DEF Fifo!Next, Fifo!Accept
<1>3. CASE ReceiveUnit
  <2>1. started' = started
    BY <1>3 DEF ReceiveUnit, sender
  <2>2. PICK got \in Seq(Unit) :
          delivered' = delivered \/ delivered' = Append(delivered, got)
    <3>1. Head(wire[rcvSocket]) \in Unit
      BY <1>0, <1>3, HeadTailProperties DEF ReceiveUnit
    <3>2. Append(buffer, Head(wire[rcvSocket])) \in Seq(Unit)
      BY <1>0, <3>1, AppendProperties
    <3> QED
      BY <3>2, <1>3 DEF ReceiveUnit
  <2>3. CASE delivered' = delivered
    BY <2>1, <2>3, <1>1
  <2>4. CASE delivered' = Append(delivered, got)
    <3>1. PICK d \in Nat : d = Len(delivered)
      BY <1>0, LenProperties
    <3>2. Len(delivered') = d + 1 /\ delivered'[d + 1] = got
      BY <2>4, <3>1, <1>0, AppendProperties
    <3>3. d + 1 \in DOMAIN delivered' /\ d + 1 <= started
      BY <3>2, <1>0, <2>1, LenProperties DEF ReceiverInv
    <3>4. got = Block(d + 1 - 1)
      <4>1. \A k \in DOMAIN delivered' : delivered'[k] = Block(k - 1)
        BY <1>0 DEF InOrder, Block, Part
      <4> QED
        BY <4>1, <3>2, <3>3
    <3>5. Len(sent) = started /\ sent[d + 1] = Block(d + 1 - 1)
      BY <3>3, <1>0, SentIsSeq DEF sent
    <3>6. Len(delivered) < Len(sent)
      BY <3>1, <3>3, <3>5, <1>0
    <3>7. delivered' = Append(delivered, sent[Len(delivered) + 1])
      BY <2>4, <3>1, <3>4, <3>5
    <3> QED
      BY <3>6, <3>7, <2>1, <1>1 DEF Fifo!Next, Fifo!Deliver
  <2> QED
    BY <2>2, <2>3, <2>4
<1>4. CASE SendUnit \/ SendFails \/ ReceiveCall \/ ReceiveFails
  BY <1>4, <1>1 DEF SendUnit, SendFails, ReceiveCall, ReceiveFails, sender, receiver
<1>5. ASSUME NEW i \in Socket, Break(i) PROVE UNCHANGED <<sent, delivered>>
  BY <1>5, <1>1 DEF Break, sender, receiver
<1>6. CASE UNCHANGED vars
  BY <1>6, <1>1 DEF vars, sender, receiver
<1> QED
  BY <1>2, <1>3, <1>4, <1>5, <1>6 DEF Next

(* However many sockets the blocks are striped over, the client behaves as *)
(* one FIFO of blocks.                                                     *)
THEOREM Refinement == Spec => ImplementsFifo
  BY FifoInit, FifoStep, Invariance, PTL DEF Spec, ImplementsFifo, Fifo!Spec
=============================================================================
