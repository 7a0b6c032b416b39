------------------------- MODULE BlockFramingProofs -------------------------
(***************************************************************************)
(* For any sizes of word, block, string and buffer, any number of sockets  *)
(* and of exchanges: what an exchange that went through has received is    *)
(* what was sent, no buffer is overrun, and what is left over is known.    *)
(*                                                                         *)
(* None of the properties is inductive: they speak of the end, or of the   *)
(* receiver alone.  The invariant says what is under way.  The data blocks *)
(* come first, and there is a position in the string for each of them, at  *)
(* which its data begins: where what is received ends, for the first one,  *)
(* where the block before it ends, for the others; the last one ends where *)
(* the sender has got to.  Behind them come terminate blocks, and there    *)
(* are as many of them, sent, received and to be sent, as sockets.         *)
(***************************************************************************)
EXTENDS BlockFraming, SequenceTheorems, TLAPS

B      == BufDataSize
Bytes  == Nat \X Nat
Blocks == [tag : {"data", "terminate"}, size : 0 .. B, body : [1 .. B -> Bytes]]

(* The data of these exchanges are whole words.                            *)
Whole(n)  == n % Word = 0
WordKinds == {"data", "hex", "badHex", "quick"}

(* The variables hold values of their types.                               *)
FrameType ==
  /\ nSend \in Nat \ {0} /\ up \in BOOLEAN /\ pipe \in Seq(Blocks)
  /\ exchange \in Nat /\ kind \in Kinds \cup {"none"} /\ length \in Nat
  /\ clean \in BOOLEAN
  /\ sending \in {"no", "data", "terminate"} /\ readBytes \in 0 .. length
  /\ size \in 0 .. B /\ terms \in Nat
  /\ sending = "data" => body \in [1 .. B -> Bytes]
  /\ receiving \in BOOLEAN /\ room \in Nat /\ out \in Seq(Bytes)
  /\ cursor \in Nat /\ words \in Nat
  /\ result \in {"none", "done", "noRoom", "error"}

(* The sender: a block is full unless it ends the string, and then come    *)
(* the terminate blocks, which a malformed file never gets to.             *)
SendInv ==
  /\ sending = "data" => terms = nSend /\ (size = B \/ readBytes = length)
  /\ sending = "terminate" => terms > 0 /\ readBytes = length
  /\ sending = "no" /\ up /\ exchange > 0 => terms = 0 /\ readBytes = length
  /\ kind = "badHex" => sending # "terminate" /\ (up => sending = "data")
  /\ kind \in WordKinds => Whole(length) /\ Whole(readBytes)

(* When the receiver runs, and which result it can have.                   *)
CallInv ==
  /\ exchange = 0 => kind = "none"
  /\ receiving <=> kind # "none" /\ result = "none"
  /\ kind = "none" => result = "none"
  /\ result = "error" => ~up
  /\ result = "noRoom" => kind = "tcpio"

(* Its buffers; pDataChar is behind rcvDataSize only by what blocks that   *)
(* were left over did not fill.                                            *)
RoomInv ==
  /\ kind = "tcpio" => Len(out) <= room
  /\ kind = "data" /\ receiving =>
       cursor <= words * Word /\ (clean => cursor = words * Word)

(* What it has got of the string.                                          *)
Got == IF kind = "data" THEN words * Word ELSE Len(out)

OutInv ==
  clean =>
    /\ Got <= length /\ Got <= Len(out)
    /\ \A i \in 1 .. Got : out[i] = Byte(exchange, i)
    /\ result = "done" => Got = length /\ Len(out) = length

(* D data blocks are under way, and block k covers the string from         *)
(* pos[k - 1] to pos[k].                                                   *)
Covers(k, pos) ==
  /\ pipe[k].tag = "data" /\ pos[k] = pos[k - 1] + pipe[k].size
  /\ \A i \in 1 .. pipe[k].size : pipe[k].body[i] = Byte(exchange, pos[k - 1] + i)
  /\ kind \in WordKinds => Whole(pipe[k].size)

Flow(D, pos) ==
  /\ pos[0] = Got
  /\ \A k \in 1 .. D : Covers(k, pos)
  /\ \A k \in D + 1 .. Len(pipe) : pipe[k] = Terminate
  /\ D < Len(pipe) => sending # "data" /\ pos[D] = length
  /\ up => pos[D] = readBytes
  /\ up => Len(pipe) - D + terms + (IF result = "done" THEN 1 ELSE 0) = nSend
  /\ result = "done" => D = 0

FlowInv ==
  clean /\ (receiving \/ result = "done") =>
    \E D \in 0 .. Len(pipe) : \E pos \in [0 .. D -> 0 .. length] : Flow(D, pos)

(* The parts together are inductive (the senders and receivers of          *)
(* tcpclient.cpp 347-386, 615-644 and tcpclientapp.cpp 753-910, 1001-1079).*)
IInv == FrameType /\ SendInv /\ CallInv /\ RoomInv /\ OutInv /\ FlowInv

-----------------------------------------------------------------------------
(* Numbers: there is room for a word in a block, and it has whole words.   *)
LEMMA Numbers ==
  /\ Word \in Nat \ {0} /\ Words \in Nat /\ B \in Nat /\ BufSize \in Nat
  /\ B >= Word /\ B + 2 * Word = BufSize
  /\ \E k \in Nat : B = Word * k
<1>1. /\ Word \in Nat \ {0} /\ Words \in Nat /\ Words >= 4
  BY FramingAssumption
<1>2. \A w, n \in Nat : n >= 4 => w * n >= w * 4 /\ w * n \in Nat
                                 /\ w * n - 2 * w = w * (n - 2)
  OBVIOUS
<1>3. Word * Words >= Word * 4 /\ Word * Words \in Nat
      /\ Word * Words - 2 * Word = Word * (Words - 2)
  BY <1>1, <1>2
<1>4. Words - 2 \in Nat
  BY <1>1
<1> QED
  BY <1>1, <1>3, <1>4 DEF B, BufDataSize, BufSize

LEMMA DivMod ==
  ASSUME NEW n \in Nat, NEW w \in Nat \ {0}
  PROVE  /\ n \div w \in Nat /\ n % w \in 0 .. w - 1
         /\ n = w * (n \div w) + (n % w)
OBVIOUS

(* Whole words are multiples of a word.                                    *)
LEMMA WholeIs ==
  ASSUME NEW n \in Nat
  PROVE  Whole(n) <=> \E k \in Nat : n = Word * k
<1>1. Word \in Nat \ {0}
  BY Numbers
<1>2. Whole(n) => n = Word * (n \div Word) /\ n \div Word \in Nat
  BY <1>1, DivMod DEF Whole
<1>3. \A k \in Nat : (Word * k) % Word = 0
  BY <1>1
<1> QED
  BY <1>2, <1>3 DEF Whole

LEMMA WholeSum ==
  ASSUME NEW m \in Nat, NEW n \in Nat, Whole(m), Whole(n)
  PROVE  Whole(m + n) /\ (m >= n => Whole(m - n))
<1>1. PICK j \in Nat, k \in Nat : m = Word * j /\ n = Word * k
  BY WholeIs
<1>2. Word \in Nat \ {0}
  BY Numbers
<1>3. m + n = Word * (j + k) /\ m - n = Word * (j - k)
  BY <1>1, <1>2
<1>4. Whole(m + n)
  BY <1>3, WholeIs
<1>5. ASSUME m >= n PROVE Whole(m - n)
  <2>1. j >= k
    <3>1. ASSUME j < k PROVE FALSE
      <4>1. Word * j + Word <= Word * k
        BY <1>2, <3>1
      <4> QED
        BY <1>1, <1>2, <1>5, <4>1
    <3> QED
      BY <3>1
  <2> QED
    BY <1>3, <1>5, <2>1, WholeIs
<1> QED
  BY <1>4, <1>5

LEMMA WholeBlock == Whole(B) /\ Whole(0)
<1>1. 0 = Word * 0 /\ B \in Nat
  BY Numbers
<1> QED
  BY <1>1, Numbers, WholeIs

(* The words that n bytes begin: they hold the bytes, fit into a block if  *)
(* the bytes do, and hold no more if the bytes are whole words.            *)
LEMMA RoundUpIs ==
  ASSUME NEW n \in Nat
  PROVE  /\ RoundUp(n) \in Nat /\ RoundUp(n) * Word \in Nat
         /\ n <= RoundUp(n) * Word
         /\ n <= B => RoundUp(n) * Word <= B
         /\ Whole(n) => RoundUp(n) * Word = n
         /\ RoundUp(0) * Word = 0
<1>1. Word \in Nat \ {0}
  BY Numbers
<1> DEFINE q == RoundUp(n)
<1>2. q \in Nat /\ Word * q <= n + Word - 1 /\ n + Word - 1 < Word * q + Word
  <2>1. PICK m \in Nat : m = n + Word - 1
    BY <1>1
  <2>2. /\ m \div Word \in Nat /\ m % Word \in 0 .. Word - 1
        /\ m = Word * (m \div Word) + (m % Word)
    BY <1>1, DivMod
  <2>3. q = m \div Word
    BY <2>1 DEF RoundUp
  <2>4. Word * q \in Nat
    BY <1>1, <2>2, <2>3
  <2> QED
    BY <1>1, <2>1, <2>2, <2>3, <2>4
<1>3. ASSUME NEW k \in Nat, n <= Word * k PROVE q <= k
  <2>1. ASSUME k < q PROVE FALSE
    <3>1. Word * k + Word <= Word * q
      BY <1>1, <1>2, <2>1
    <3> QED
      BY <1>1, <1>2, <1>3, <3>1
  <2> QED
    BY <1>2, <2>1
<1>4. ASSUME NEW k \in Nat, n <= Word * k PROVE Word * q <= Word * k
  BY <1>1, <1>2, <1>3, <1>4
<1>5. q * Word = Word * q /\ Word * q \in Nat
  BY <1>1, <1>2
<1>6. n <= Word * q
  BY <1>1, <1>2, <1>5
<1>7. n <= B => Word * q <= B
  BY <1>4, Numbers
<1>8. Whole(n) => Word * q = n
  <2>1. ASSUME Whole(n) PROVE Word * q = n
    <3>1. PICK k \in Nat : n = Word * k
      BY <2>1, WholeIs
    <3>2. Word * q <= n
      BY <1>4, <3>1
    <3> QED
      BY <1>5, <1>6, <3>2
  <2> QED
    BY <2>1
<1>9. RoundUp(0) * Word = 0
  <2>1. (Word - 1) \div Word = 0
    BY <1>1
  <2> QED
    BY <1>1, <2>1 DEF RoundUp
<1> QED
  BY <1>2, <1>5, <1>6, <1>7, <1>8, <1>9

-----------------------------------------------------------------------------
(* A function on 1 .. n is a sequence of n.                                *)
LEMMA SeqIs ==
  ASSUME NEW S, NEW n \in Nat, NEW f \in [1 .. n -> S]
  PROVE  f \in Seq(S) /\ Len(f) = n
OBVIOUS

LEMMA ByteType == \A x, i \in Nat : Byte(x, i) \in Bytes /\ Zero \in Bytes
BY DEF Byte, Bytes, Zero

LEMMA ZerosAre ==
  ASSUME NEW n \in Nat
  PROVE  Zeros(n) \in [1 .. n -> Bytes] /\ Zeros(n) \in Seq(Bytes)
         /\ Len(Zeros(n)) = n
<1>1. Zeros(n) \in [1 .. n -> Bytes]
  BY ByteType DEF Zeros
<1> QED
  BY <1>1, SeqIs

LEMMA StringIs ==
  ASSUME FrameType
  PROVE  /\ String \in Seq(Bytes) /\ Len(String) = length
         /\ \A i \in 1 .. length : String[i] = Byte(exchange, i)
<1>1. String \in [1 .. length -> Bytes] /\ length \in Nat
  BY ByteType DEF String, FrameType
<1> QED
  BY <1>1, SeqIs DEF String

(* The first bytes of a block.                                             *)
LEMMA Piece ==
  ASSUME NEW b \in Blocks, NEW n \in 0 .. B
  PROVE  /\ SubSeq(b.body, 1, n) \in Seq(Bytes)
         /\ Len(SubSeq(b.body, 1, n)) = n
         /\ \A i \in 1 .. n : SubSeq(b.body, 1, n)[i] = b.body[i]
<1>1. b.body \in [1 .. B -> Bytes] /\ B \in Nat
  BY Numbers DEF Blocks
<1>2. \A i \in 1 .. n : b.body[i] \in Bytes
  BY <1>1
<1> QED
  BY <1>1, <1>2, SubSeqProperties

LEMMA PipeBlock ==
  ASSUME FrameType
  PROVE  /\ \A k \in 1 .. Len(pipe) : pipe[k] \in Blocks
         /\ Len(pipe) \in Nat
BY LenProperties DEF FrameType

(* memcpy changes the bytes from at + 1 on, and not the size.              *)
LEMMA CopyIs ==
  ASSUME NEW to \in Seq(Bytes), NEW from \in Seq(Bytes), NEW at \in Nat
  PROVE  /\ Copy(to, at, from) \in Seq(Bytes)
         /\ Len(Copy(to, at, from)) = Len(to)
         /\ \A i \in 1 .. Len(to) :
              Copy(to, at, from)[i] = IF i - at \in 1 .. Len(from)
                                        THEN from[i - at] ELSE to[i]
<1>1. /\ DOMAIN to = 1 .. Len(to) /\ Len(to) \in Nat
      /\ DOMAIN from = 1 .. Len(from)
      /\ \A i \in 1 .. Len(to) : to[i] \in Bytes
      /\ \A i \in 1 .. Len(from) : from[i] \in Bytes
  BY LenProperties, ElementOfSeq
<1>2. Copy(to, at, from) \in [1 .. Len(to) -> Bytes]
  BY <1>1 DEF Copy
<1> QED
  BY <1>1, <1>2, SeqIs DEF Copy

LEMMA ExtendIs ==
  ASSUME NEW v \in Seq(Bytes), NEW n \in Nat, n >= Len(v)
  PROVE  /\ Extend(v, n) \in Seq(Bytes) /\ Len(Extend(v, n)) = n
         /\ \A i \in 1 .. Len(v) : Extend(v, n)[i] = v[i]
<1>1. Len(v) \in Nat /\ n - Len(v) \in Nat
  BY LenProperties
<1>2. Zeros(n - Len(v)) \in Seq(Bytes) /\ Len(Zeros(n - Len(v))) = n - Len(v)
  BY <1>1, ZerosAre
<1> QED
  BY <1>1, <1>2, ConcatProperties DEF Extend

LEMMA TerminateIs == Terminate \in Blocks
<1>1. B \in Nat /\ Word \in 0 .. B
  BY Numbers
<1>2. Zeros(B) \in [1 .. B -> Bytes]
  BY <1>1, ZerosAre
<1> QED
  BY <1>1, <1>2 DEF Terminate, Blocks, B

(* Positions for what is under way after a step.                           *)
LEMMA FlowMade ==
  ASSUME NEW D \in 0 .. Len(pipe'), NEW pos \in [0 .. D -> 0 .. length'],
         Flow(D, pos)'
  PROVE  FlowInv'
<1>1. \E q \in [0 .. D -> 0 .. length'] : Flow(D, q)'
  <2> WITNESS pos \in [0 .. D -> 0 .. length']
  <2> QED
    OBVIOUS
<1>2. \E d \in 0 .. Len(pipe') : \E q \in [0 .. d -> 0 .. length'] : Flow(d, q)'
  <2> WITNESS D \in 0 .. Len(pipe')
  <2> QED
    BY <1>1
<1> QED
  BY <1>2 DEF FlowInv

-----------------------------------------------------------------------------
(* A client that has just connected has nothing under way.                 *)
LEMMA InitFraming == Init => IInv
<1> SUFFICES ASSUME Init PROVE IInv
  OBVIOUS
<1> USE DEF Init
<1>1. nSend \in Nat \ {0} /\ B \in Nat
  BY FramingAssumption, Numbers
<1>2. <<>> \in Seq(Blocks) /\ <<>> \in Seq(Bytes) /\ Len(<<>>) = 0
  BY EmptySeq
<1>3. FrameType
  <2>1. size \in 0 .. B /\ readBytes \in 0 .. length
    BY <1>1
  <2>2. pipe \in Seq(Blocks) /\ out \in Seq(Bytes)
    BY <1>2
  <2> QED
    BY <1>1, <2>1, <2>2 DEF FrameType
<1>4. SendInv /\ CallInv
  BY DEF SendInv, CallInv, WordKinds
<1>5. RoomInv /\ OutInv /\ FlowInv
  BY <1>2 DEF RoomInv, OutInv, FlowInv, Got
<1> QED
  BY <1>3, <1>4, <1>5 DEF IInv

(* An exchange that begins clean has received nothing, and nothing of it   *)
(* is under way.                                                           *)
LEMMA BeginKeeps ==
  ASSUME IInv, NEW k \in Kinds, NEW n \in Lengths, NEW r \in Rooms, Begin(k, n, r)
  PROVE  IInv'
<1> USE DEF Begin
<1>1. /\ n \in Nat /\ r \in Nat /\ B \in Nat /\ BufSize \in Nat
      /\ k # "none" /\ FirstBlocks * BufSize \in Nat
  BY FramingAssumption, Numbers
<1>2. /\ nSend' = nSend /\ up' = up /\ pipe' = pipe /\ up = TRUE
      /\ nSend \in Nat \ {0} /\ pipe \in Seq(Blocks) /\ exchange \in Nat
  BY DEF IInv, FrameType
<1>3. out' \in Seq(Bytes) /\ (k # "data" => Len(out') = 0)
  BY <1>1, ZerosAre, EmptySeq
<1>4. FrameType'
  <2>1. body' \in [1 .. B -> Bytes] /\ size' \in 0 .. B
    BY <1>1, ZerosAre DEF B
  <2>2. readBytes' \in 0 .. length' /\ terms' \in Nat /\ room' \in Nat
        /\ exchange' \in Nat
    BY <1>1, <1>2
  <2> QED
    BY <1>1, <1>2, <1>3, <2>1, <2>2 DEF FrameType
<1>5. SendInv'
  BY <1>1, <1>2, WholeBlock DEF SendInv, WordKinds, Whole, B
<1>6. CallInv'
  BY <1>1, <1>2 DEF CallInv
<1>7. Got' = 0 /\ 0 <= Len(out')
  BY <1>1, <1>3, LenProperties, Numbers DEF Got
<1>8. RoomInv'
  BY <1>1, <1>3, Numbers DEF RoomInv
<1>9. OutInv'
  BY <1>1, <1>7 DEF OutInv
<1>10. FlowInv'
  <2> SUFFICES ASSUME pipe = <<>> PROVE FlowInv'
    BY DEF FlowInv
  <2>0. PICK pos : pos = [j \in 0 .. 0 |-> 0]
    OBVIOUS
  <2>1. Len(pipe') = 0
    BY <1>2, EmptySeq
  <2>2. pos \in [0 .. 0 -> 0 .. n] /\ pos[0] = 0
    BY <1>1, <2>0
  <2>3. Flow(0, pos)'
    BY <1>1, <1>2, <1>7, <2>1, <2>2 DEF Flow
  <2>4. length' = n /\ 0 \in 0 .. Len(pipe')
    BY <2>1
  <2>5. pos \in [0 .. 0 -> 0 .. length']
    BY <2>2, <2>4
  <2> HIDE DEF Begin
  <2> QED
    BY <2>3, <2>4, <2>5, FlowMade
<1> QED
  BY <1>4, <1>5, <1>6, <1>8, <1>9, <1>10 DEF IInv

-----------------------------------------------------------------------------
(* What the steps of the sender leave alone.                               *)
Other == <<nSend, exchange, kind, length, clean, receiver>>

LEMMA OtherKept ==
  ASSUME IInv, UNCHANGED Other, up' = up \/ ~up'
  PROVE  CallInv' /\ RoomInv' /\ OutInv' /\ Got' = Got
BY DEF IInv, Other, receiver, CallInv, RoomInv, OutInv, Got

(* A block that the sender fills is the next piece of the string.          *)
LEMMA NextBlock ==
  ASSUME IInv, NEW n \in 0 .. B, n <= length - readBytes,
         NEW rest \in [1 .. B -> Bytes], PutBlock(n, rest)
  PROVE  /\ size' = n /\ readBytes' = readBytes + n
         /\ readBytes' \in 0 .. length
         /\ body' \in [1 .. B -> Bytes]
         /\ Data(n, body') \in Blocks
         /\ pipe' = Append(pipe, Data(n, body'))
         /\ \A i \in 1 .. n : body'[i] = Byte(exchange, readBytes + i)
<1> DEFINE new == SubSeq(String, readBytes + 1, readBytes + n)
<1>1. /\ B \in Nat /\ readBytes \in Nat /\ length \in Nat /\ readBytes <= length
      /\ readBytes + n <= length
  BY Numbers DEF IInv, FrameType
<1>2. /\ String \in Seq(Bytes) /\ Len(String) = length
      /\ \A i \in 1 .. length : String[i] = Byte(exchange, i)
  BY StringIs DEF IInv
<1>3. \A i \in readBytes + 1 .. readBytes + n :
        String[i] \in Bytes /\ String[i] = Byte(exchange, i)
  <2>1. \A i \in readBytes + 1 .. readBytes + n : i \in 1 .. length
    BY <1>1
  <2> QED
    BY <1>2, <2>1, ElementOfSeq
<1>4. /\ new \in Seq(Bytes) /\ Len(new) = n
      /\ \A i \in 1 .. n : new[i] = Byte(exchange, readBytes + i)
  <2>1. readBytes + 1 \in Int /\ readBytes + n \in Int
    BY <1>1
  <2>2. /\ new \in Seq(Bytes)
        /\ Len(new) = IF readBytes + 1 <= readBytes + n
                        THEN (readBytes + n) - (readBytes + 1) + 1 ELSE 0
        /\ \A i \in 1 .. (readBytes + n) - (readBytes + 1) + 1 :
             new[i] = String[readBytes + 1 + i - 1]
    BY <1>3, <2>1, SubSeqProperties
  <2>3. \A i \in 1 .. n : readBytes + 1 + i - 1 = readBytes + i
                          /\ readBytes + i \in readBytes + 1 .. readBytes + n
    BY <1>1
  <2>4. Len(new) = n /\ (readBytes + n) - (readBytes + 1) + 1 = n
    BY <1>1, <2>2
  <2> QED
    BY <1>3, <2>2, <2>3, <2>4
<1> HIDE DEF new
<1>5. /\ Copy(rest, 0, new) \in [1 .. B -> Bytes]
      /\ \A i \in 1 .. n : Copy(rest, 0, new)[i] = new[i]
  <2>1. rest \in Seq(Bytes) /\ Len(rest) = B
    BY <1>1, SeqIs
  <2>2. /\ Copy(rest, 0, new) \in Seq(Bytes) /\ Len(Copy(rest, 0, new)) = B
        /\ \A i \in 1 .. B : Copy(rest, 0, new)[i] =
             IF i - 0 \in 1 .. Len(new) THEN new[i - 0] ELSE rest[i]
    BY <1>4, <2>1, CopyIs
  <2>3. \A i \in 1 .. n : i \in 1 .. B /\ i - 0 = i
    BY <1>1
  <2> QED
    BY <1>4, <2>2, <2>3, LenProperties
<1>6. /\ size' = n /\ body' = Copy(rest, 0, new)
      /\ pipe' = Append(pipe, Data(size', body')) /\ readBytes' = readBytes + n
  BY DEF PutBlock, new
<1>7. Data(n, body') \in Blocks
  BY <1>5, <1>6 DEF Data, Blocks
<1> QED
  BY <1>1, <1>4, <1>5, <1>6, <1>7

(* A round of a sending loop: a full block or the last one.                *)
LEMMA PutKeeps ==
  ASSUME IInv, NEW n \in 0 .. B, n <= length - readBytes,
         n = B \/ n = length - readBytes,
         NEW rest \in [1 .. B -> Bytes], PutBlock(n, rest),
         sending = "data", up, UNCHANGED <<up, terms, Other>>,
         \/ sending' = "data"
         \/ sending' = "terminate" /\ readBytes' = length /\ kind # "badHex"
  PROVE  IInv'
<1>1. /\ nSend' = nSend /\ up' = up /\ exchange' = exchange /\ kind' = kind
      /\ length' = length /\ clean' = clean /\ terms' = terms
      /\ receiving' = receiving /\ room' = room /\ out' = out
      /\ cursor' = cursor /\ words' = words /\ result' = result
  BY DEF Other, receiver
<1>2. /\ size' = n /\ readBytes' = readBytes + n /\ readBytes' \in 0 .. length
      /\ body' \in [1 .. B -> Bytes] /\ Data(n, body') \in Blocks
      /\ pipe' = Append(pipe, Data(n, body'))
      /\ \A i \in 1 .. n : body'[i] = Byte(exchange, readBytes + i)
  BY NextBlock
<1>3. /\ pipe' \in Seq(Blocks) /\ Len(pipe') = Len(pipe) + 1 /\ Len(pipe) \in Nat
      /\ \A k \in 1 .. Len(pipe) : pipe'[k] = pipe[k]
      /\ pipe'[Len(pipe) + 1] = Data(n, body')
  BY <1>2, AppendProperties, PipeBlock DEF IInv, FrameType
<1>4. FrameType'
  BY <1>1, <1>2, <1>3 DEF IInv, FrameType
<1>5. /\ readBytes \in Nat /\ length \in Nat /\ readBytes <= length /\ B \in Nat
      /\ nSend \in Nat \ {0}
  BY Numbers DEF IInv, FrameType
<1>6. kind \in WordKinds => Whole(n) /\ Whole(readBytes')
  <2>1. ASSUME kind \in WordKinds PROVE Whole(n) /\ Whole(readBytes')
    <3>1. Whole(length) /\ Whole(readBytes)
      BY <2>1 DEF IInv, SendInv
    <3>2. Whole(n)
      BY <1>5, <3>1, WholeSum, WholeBlock
    <3> QED
      BY <1>2, <1>5, <3>1, <3>2, WholeSum
  <2> QED
    BY <2>1
<1>7. SendInv'
  <2>1. size' = B \/ readBytes' = length'
    BY <1>1, <1>2, <1>5
  <2>2. terms = nSend
    BY DEF IInv, SendInv
  <2> QED
    BY <1>1, <1>5, <1>6, <2>1, <2>2 DEF IInv, SendInv
<1>8. FlowInv'
  <2> SUFFICES ASSUME clean, receiving \/ result = "done"
               PROVE  FlowInv'
    BY <1>1 DEF FlowInv
  <2>0. PICK D \in 0 .. Len(pipe) :
          \E pos \in [0 .. D -> 0 .. length] : Flow(D, pos)
    BY DEF IInv, FlowInv
  <2>1. PICK pos \in [0 .. D -> 0 .. length] : Flow(D, pos)
    BY <2>0
  <2>2. D = Len(pipe) /\ pos[D] = readBytes
    BY <1>3, <2>1 DEF Flow
  <2>3. PICK new : new = [k \in 0 .. D + 1 |->
                            IF k = D + 1 THEN readBytes + n ELSE pos[k]]
    OBVIOUS
  <2>4. /\ new \in [0 .. D + 1 -> 0 .. length] /\ new[D + 1] = readBytes + n
        /\ \A k \in 0 .. D : new[k] = pos[k]
    BY <1>2, <1>3, <2>1, <2>3
  <2>5. Got' = Got
    BY <1>1 DEF Got
  <2>6. \A k \in 1 .. D + 1 : Covers(k, new)'
    <3>1. ASSUME NEW k \in 1 .. D PROVE Covers(k, new)'
      <4>1. Covers(k, pos) /\ pipe'[k] = pipe[k]
        BY <1>3, <2>1, <2>2, <3>1 DEF Flow
      <4>2. new[k] = pos[k] /\ new[k - 1] = pos[k - 1]
        BY <1>3, <2>1, <2>4, <3>1
      <4> QED
        BY <1>1, <4>1, <4>2 DEF Covers
    <3>2. Covers(D + 1, new)'
      <4>1. pipe'[D + 1] = Data(n, body')
        BY <1>3, <2>2
      <4>2. (D + 1) - 1 = D /\ D \in 0 .. D /\ new[D] = readBytes
        BY <1>3, <2>1, <2>2, <2>4
      <4>3. new[(D + 1) - 1] = readBytes
        BY <4>2
      <4>4. /\ pipe'[D + 1].tag = "data" /\ pipe'[D + 1].size = n
            /\ pipe'[D + 1].body = body'
        BY <4>1 DEF Data
      <4> QED
        BY <1>1, <1>2, <1>6, <2>4, <4>3, <4>4 DEF Covers
    <3> QED
      BY <1>3, <2>1, <3>1, <3>2
  <2>7. result # "done"
    BY <1>5, <2>1, <2>2 DEF IInv, SendInv, Flow
  <2>8. Flow(D + 1, new)'
    BY <1>1, <1>2, <1>3, <1>5, <2>1, <2>2, <2>4, <2>5, <2>6, <2>7 DEF Flow
  <2> QED
    <3>1. D + 1 \in 0 .. Len(pipe') /\ new \in [0 .. D + 1 -> 0 .. length']
      BY <1>1, <1>3, <2>2, <2>4
    <3> QED
      BY <2>8, <3>1, FlowMade
<1> QED
  BY <1>4, <1>7, <1>8, OtherKept DEF IInv

LEMMA SendBlockKeeps ==
  ASSUME IInv, SendBlock
  PROVE  IInv'
<1> USE DEF SendBlock
<1>1. /\ readBytes \in Nat /\ length \in Nat /\ readBytes <= length
      /\ size \in 0 .. B /\ B \in Nat /\ B = BufDataSize
      /\ body \in [1 .. B -> Bytes] /\ sending = "data" /\ up
      /\ size = B \/ readBytes = length
  BY Numbers DEF IInv, FrameType, SendInv, B
<1>2. PICK n : n = IF B > length - readBytes THEN length - readBytes ELSE size
  OBVIOUS
<1>3. PICK rest : rest = IF B > length - readBytes /\ kind = "bin"
                           THEN Zeros(B) ELSE body
  OBVIOUS
<1>4. PutBlock(n, rest)
  BY <1>1, <1>2, <1>3 DEF B
<1>5. n \in 0 .. B /\ n <= length - readBytes /\ (n = B \/ n = length - readBytes)
  BY <1>1, <1>2
<1>6. rest \in [1 .. B -> Bytes]
  BY <1>1, <1>3, ZerosAre
<1>7. readBytes' = readBytes + n /\ length' = length
  BY <1>4 DEF PutBlock
<1>8. \/ sending' = "data"
      \/ sending' = "terminate" /\ readBytes' = length /\ kind # "badHex"
  BY <1>1, <1>5, <1>7
<1>9. UNCHANGED <<up, terms, Other>>
  BY DEF Other
<1> HIDE DEF SendBlock
<1> QED
  BY <1>1, <1>4, <1>5, <1>6, <1>8, <1>9, PutKeeps

LEMMA SendHexBlockKeeps ==
  ASSUME IInv, NEW newline \in BOOLEAN, SendHexBlock(newline)
  PROVE  IInv'
<1> USE DEF SendHexBlock
<1>1. /\ readBytes \in Nat /\ length \in Nat /\ readBytes <= length
      /\ B \in Nat /\ body \in [1 .. B -> Bytes] /\ sending = "data" /\ up
  BY Numbers DEF IInv, FrameType
<1>2. PICK n : n = IF B > length - readBytes THEN length - readBytes ELSE B
  OBVIOUS
<1>3. PICK rest : rest = IF n < B THEN Zeros(B) ELSE body
  OBVIOUS
<1>4. PutBlock(n, rest)
  BY <1>2, <1>3 DEF B
<1>5. n \in 0 .. B /\ n <= length - readBytes /\ (n = B \/ n = length - readBytes)
  BY <1>1, <1>2
<1>6. rest \in [1 .. B -> Bytes]
  BY <1>1, <1>3, ZerosAre
<1>7. readBytes' = readBytes + n
  BY <1>4 DEF PutBlock
<1>8. sending' = IF kind = "hex" /\ (n < B \/ (~newline /\ readBytes' = length))
                   THEN "terminate" ELSE "data"
  BY <1>2 DEF B
<1>9. \/ sending' = "data"
      \/ sending' = "terminate" /\ readBytes' = length /\ kind # "badHex"
  BY <1>1, <1>5, <1>7, <1>8
<1>10. UNCHANGED <<up, terms, Other>>
  BY DEF Other
<1> HIDE DEF SendHexBlock
<1> QED
  BY <1>1, <1>4, <1>5, <1>6, <1>9, <1>10, PutKeeps

(* A step of the sender that leaves what is under way alone.               *)
LEMMA SameFlow ==
  ASSUME IInv, UNCHANGED <<Other, pipe, up, readBytes, terms>>,
         sending' # "data" \/ sending' = sending
  PROVE  FlowInv'
<1>1. Got' = Got
  BY DEF Other, receiver, Got
<1>2. ASSUME NEW D \in 0 .. Len(pipe), NEW pos \in [0 .. D -> 0 .. length],
             Flow(D, pos)
      PROVE  Flow(D, pos)'
  <2>1. \A k \in 1 .. D : Covers(k, pos)'
    BY <1>2 DEF Flow, Covers, Other
  <2> QED
    BY <1>1, <1>2, <2>1 DEF Flow, Other, receiver
<1> QED
  BY <1>2 DEF IInv, FlowInv, Other, receiver

LEMMA SendEmptyFileKeeps ==
  ASSUME IInv, SendEmptyFile
  PROVE  IInv'
<1> USE DEF SendEmptyFile
<1>1. UNCHANGED <<Other, pipe, up, readBytes, terms>> /\ sending' = "terminate"
  BY DEF Other
<1>2. FrameType'
  BY <1>1 DEF IInv, FrameType, Other, receiver
<1>3. SendInv'
  BY <1>1 DEF IInv, FrameType, SendInv, WordKinds, Other, receiver
<1>4. FlowInv'
  BY <1>1, SameFlow
<1> QED
  BY <1>1, <1>2, <1>3, <1>4, OtherKept DEF IInv

LEMMA SendFailsKeeps ==
  ASSUME IInv, SendFails
  PROVE  IInv'
<1> USE DEF SendFails
<1>1. UNCHANGED <<Other, pipe, up, readBytes, terms>> /\ sending' = "no" /\ ~up
  BY DEF Other
<1>2. FrameType'
  BY <1>1 DEF IInv, FrameType, Other, receiver
<1>3. SendInv'
  BY <1>1 DEF IInv, SendInv, Other, receiver
<1>4. FlowInv'
  BY <1>1, SameFlow
<1> QED
  BY <1>1, <1>2, <1>3, <1>4, OtherKept DEF IInv

(* A terminate block comes behind all the data.                            *)
LEMMA SendTerminateKeeps ==
  ASSUME IInv, SendTerminate
  PROVE  IInv'
<1> USE DEF SendTerminate
<1>1. /\ UNCHANGED Other /\ up' = up /\ up /\ readBytes' = readBytes
      /\ nSend' = nSend /\ exchange' = exchange /\ kind' = kind
      /\ length' = length /\ clean' = clean /\ receiving' = receiving
      /\ result' = result /\ out' = out /\ words' = words
  BY DEF Other, receiver
<1>2. /\ terms > 0 /\ terms \in Nat /\ readBytes = length /\ kind # "badHex"
      /\ nSend \in Nat \ {0}
  BY DEF IInv, FrameType, SendInv
<1>3. /\ pipe' \in Seq(Blocks) /\ Len(pipe') = Len(pipe) + 1 /\ Len(pipe) \in Nat
      /\ \A k \in 1 .. Len(pipe) : pipe'[k] = pipe[k]
      /\ pipe'[Len(pipe) + 1] = Terminate
  BY AppendProperties, PipeBlock, TerminateIs DEF IInv, FrameType
<1>4. FrameType'
  <2>1. terms' \in Nat /\ sending' \in {"no", "terminate"}
    BY <1>2
  <2> QED
    BY <1>1, <1>3, <2>1 DEF IInv, FrameType, Other, receiver
<1>5. SendInv'
  BY <1>1, <1>2 DEF IInv, SendInv
<1>6. FlowInv'
  <2> SUFFICES ASSUME clean, receiving \/ result = "done"
               PROVE  FlowInv'
    BY <1>1 DEF FlowInv
  <2>0. PICK D \in 0 .. Len(pipe) :
          \E pos \in [0 .. D -> 0 .. length] : Flow(D, pos)
    BY DEF IInv, FlowInv
  <2>1. PICK pos \in [0 .. D -> 0 .. length] : Flow(D, pos)
    BY <2>0
  <2>2. Got' = Got
    BY <1>1 DEF Got
  <2>3. \A k \in 1 .. D : Covers(k, pos)'
    <3>1. \A k \in 1 .. D : pipe'[k] = pipe[k] /\ Covers(k, pos)
      BY <1>3, <2>1 DEF Flow
    <3> QED
      BY <1>1, <3>1 DEF Covers
  <2>4. \A k \in D + 1 .. Len(pipe') : pipe'[k] = Terminate
    BY <1>3, <2>1 DEF Flow
  <2>5. sending' # "data" /\ pos[D] = length /\ terms' = terms - 1
    BY <1>2, <2>1 DEF Flow
  <2>6. Flow(D, pos)'
    BY <1>1, <1>2, <1>3, <2>1, <2>2, <2>3, <2>4, <2>5 DEF Flow
  <2>7. D \in 0 .. Len(pipe') /\ pos \in [0 .. D -> 0 .. length']
    BY <1>1, <1>3
  <2> QED
    BY <2>6, <2>7, FlowMade
<1> QED
  BY <1>1, <1>4, <1>5, <1>6, OtherKept DEF IInv

-----------------------------------------------------------------------------
(* The block that is received next: it is the next piece of the string, or *)
(* the first terminate block, and then all of the string is there.         *)
LEMMA HeadIs ==
  ASSUME IInv, Take
  PROVE  /\ Head(pipe) \in Blocks /\ receiving /\ kind # "none" /\ result = "none"
         /\ Head(pipe) = pipe[1] /\ Len(pipe) >= 1 /\ Len(pipe) \in Nat
         /\ pipe' \in Seq(Blocks) /\ Len(pipe') = Len(pipe) - 1
         /\ \A k \in 1 .. Len(pipe') : pipe'[k] = pipe[k + 1]
         /\ clean /\ Head(pipe).tag = "data" /\ kind \in WordKinds =>
              Whole(Head(pipe).size)
<1>1. pipe \in Seq(Blocks) /\ pipe # <<>> /\ receiving
  BY DEF IInv, FrameType, Take
<1>2. /\ Head(pipe) = pipe[1] /\ Len(pipe) \in Nat /\ Len(pipe) >= 1
      /\ Head(pipe) \in Blocks
  BY <1>1, EmptySeq, HeadTailProperties, PipeBlock DEF IInv
<1>3. /\ pipe' \in Seq(Blocks) /\ Len(pipe') = Len(pipe) - 1
      /\ \A k \in 1 .. Len(pipe') : pipe'[k] = pipe[k + 1]
  BY <1>1, HeadTailProperties DEF Take
<1>4. kind # "none" /\ result = "none"
  BY <1>1 DEF IInv, CallInv
<1>5. ASSUME clean, Head(pipe).tag = "data", kind \in WordKinds
      PROVE  Whole(Head(pipe).size)
  <2>1. PICK D \in 0 .. Len(pipe) :
          \E pos \in [0 .. D -> 0 .. length] : Flow(D, pos)
    BY <1>1, <1>5 DEF IInv, FlowInv
  <2>2. PICK pos \in [0 .. D -> 0 .. length] : Flow(D, pos)
    BY <2>1
  <2>3. D >= 1
    <3>1. ASSUME D = 0 PROVE FALSE
      <4>1. pipe[1] = Terminate
        BY <1>2, <2>2, <3>1 DEF Flow
      <4> QED
        BY <1>2, <1>5, <4>1 DEF Terminate
    <3> QED
      BY <2>1, <3>1
  <2>4. Covers(1, pos)
    BY <2>1, <2>2, <2>3 DEF Flow
  <2> QED
    BY <1>2, <1>5, <2>4 DEF Covers
<1> QED
  BY <1>1, <1>2, <1>3, <1>4, <1>5

(* A round of a receiving loop: the bytes of a block of data are put       *)
(* behind what was received before, and a terminate block ends it.         *)
LEMMA TakeKeeps ==
  ASSUME IInv, Take, LoopUnless(Head(pipe)),
         out' \in Seq(Bytes), cursor' \in Nat, words' \in Nat, RoomInv',
         clean => \A i \in 1 .. Got : out'[i] = out[i],
         clean /\ Head(pipe).tag = "data" =>
           /\ Got' = Got + Head(pipe).size /\ Got' <= Len(out')
           /\ \A i \in 1 .. Head(pipe).size : out'[Got + i] = Head(pipe).body[i],
         clean /\ Head(pipe).tag = "terminate" => Got' = Got /\ Len(out') = Got
  PROVE  IInv'
<1>1. /\ nSend' = nSend /\ up' = up /\ exchange' = exchange /\ kind' = kind
      /\ length' = length /\ clean' = clean /\ sending' = sending
      /\ readBytes' = readBytes /\ size' = size /\ body' = body
      /\ terms' = terms /\ room' = room
  BY DEF Take, sender
<1>2. /\ Head(pipe) \in Blocks /\ receiving /\ kind # "none" /\ result = "none"
      /\ Head(pipe) = pipe[1] /\ Len(pipe) >= 1 /\ Len(pipe) \in Nat
      /\ pipe' \in Seq(Blocks) /\ Len(pipe') = Len(pipe) - 1
      /\ \A k \in 1 .. Len(pipe') : pipe'[k] = pipe[k + 1]
  BY HeadIs
<1>3. \/ /\ Head(pipe).tag = "terminate"
         /\ receiving' = FALSE /\ result' = "done"
      \/ /\ Head(pipe).tag = "data"
         /\ receiving' = receiving /\ result' = result
  BY <1>2 DEF LoopUnless, Return, Blocks
<1>4. FrameType'
  BY <1>1, <1>2, <1>3 DEF IInv, FrameType
<1>5. SendInv'
  BY <1>1 DEF IInv, SendInv
<1>6. CallInv'
  BY <1>1, <1>2, <1>3 DEF IInv, CallInv
<1>7. CASE ~clean
  <2>1. OutInv' /\ FlowInv'
    BY <1>1, <1>7 DEF OutInv, FlowInv
  <2> QED
    BY <1>4, <1>5, <1>6, <2>1 DEF IInv
<1>8. CASE clean
  <2>1. PICK D \in 0 .. Len(pipe) :
          \E pos \in [0 .. D -> 0 .. length] : Flow(D, pos)
    BY <1>2, <1>8 DEF IInv, FlowInv
  <2>2. PICK pos \in [0 .. D -> 0 .. length] : Flow(D, pos)
    BY <2>1
  <2>3. /\ Got <= length /\ length \in Nat /\ Got \in Nat /\ nSend \in Nat
        /\ terms \in Nat
        /\ \A i \in 1 .. Got : out[i] = Byte(exchange, i)
    <3>1. Got \in Nat
      BY LenProperties, Numbers DEF IInv, FrameType, Got
    <3> QED
      BY <1>8, <3>1 DEF IInv, OutInv, FrameType
  <2>4. CASE D = 0
    <3>1. pipe[1] = Terminate /\ pos[0] = length /\ sending # "data"
      BY <1>2, <2>2, <2>4 DEF Flow
    <3>2. receiving' = FALSE /\ result' = "done" /\ Head(pipe).tag = "terminate"
      <4>1. Terminate.tag = "terminate"
        BY DEF Terminate
      <4>2. Head(pipe).tag = "terminate"
        BY <1>2, <3>1, <4>1
      <4> QED
        BY <1>3, <4>2
    <3>3. Got' = Got /\ Len(out') = Got /\ Got = length
      BY <1>8, <2>2, <3>1, <3>2 DEF Flow
    <3>4. OutInv'
      BY <1>1, <1>8, <2>3, <3>2, <3>3 DEF OutInv
    <3>5. \A k \in 1 .. Len(pipe') : pipe'[k] = Terminate
      <4>1. \A k \in 1 .. Len(pipe') : k + 1 \in 0 + 1 .. Len(pipe)
        BY <1>2
      <4> QED
        BY <1>2, <2>2, <2>4, <4>1 DEF Flow
    <3>6. Flow(0, pos)'
      BY <1>1, <1>2, <2>2, <2>3, <2>4, <3>1, <3>2, <3>3, <3>5 DEF Flow
    <3>7. 0 \in 0 .. Len(pipe') /\ pos \in [0 .. 0 -> 0 .. length']
      BY <1>1, <1>2, <2>2, <2>4
    <3> QED
      BY <1>4, <1>5, <1>6, <3>4, <3>6, <3>7, FlowMade DEF IInv
  <2>5. CASE D > 0
    <3>1. Covers(1, pos) /\ pos[1] \in 0 .. length /\ pos[0] = Got
      BY <2>1, <2>2, <2>5 DEF Flow
    <3>2. /\ Head(pipe).tag = "data" /\ pos[1] = Got + Head(pipe).size
          /\ \A i \in 1 .. Head(pipe).size :
               Head(pipe).body[i] = Byte(exchange, Got + i)
      BY <1>2, <3>1 DEF Covers
    <3>3. receiving' /\ result' = "none"
      BY <1>2, <1>3, <3>2
    <3>4. /\ Got' = pos[1] /\ Got' <= Len(out')
          /\ \A i \in 1 .. Head(pipe).size : out'[Got + i] = Byte(exchange, Got + i)
      BY <1>8, <3>2
    <3>5. OutInv'
      <4>1. ASSUME NEW i \in 1 .. Got' PROVE out'[i] = Byte(exchange, i)
        <5>1. CASE i <= Got
          BY <1>8, <2>3, <5>1
        <5>2. CASE i > Got
          <6>1. i - Got \in 1 .. Head(pipe).size /\ Got + (i - Got) = i
            BY <2>3, <3>1, <3>2, <3>4, <5>2, SMTT(30)
          <6> QED
            BY <3>4, <6>1
        <5> QED
          BY <2>3, <5>1, <5>2
      <4> QED
        BY <1>1, <3>1, <3>3, <3>4, <4>1 DEF OutInv
    <3>6. PICK new : new = [k \in 0 .. D - 1 |-> pos[k + 1]]
      OBVIOUS
    <3>7. /\ new \in [0 .. D - 1 -> 0 .. length] /\ new[0] = pos[1]
          /\ \A k \in 0 .. D - 1 : new[k] = pos[k + 1]
      BY <2>1, <2>2, <2>5, <3>6
    <3>8. ASSUME NEW k \in 1 .. D - 1 PROVE Covers(k, new)'
      <4>1. k + 1 \in 1 .. D /\ k \in 1 .. Len(pipe') /\ k \in 0 .. D - 1
            /\ k - 1 \in 0 .. D - 1 /\ (k + 1) - 1 = k /\ (k - 1) + 1 = k
        BY <1>2, <2>1, <3>8
      <4>2. /\ Covers(k + 1, pos) /\ pipe'[k] = pipe[k + 1]
            /\ new[k] = pos[k + 1] /\ new[k - 1] = pos[k]
        BY <1>2, <2>2, <3>7, <4>1 DEF Flow
      <4> QED
        BY <1>1, <4>1, <4>2 DEF Covers
    <3>9. \A k \in D .. Len(pipe') : pipe'[k] = Terminate
      <4>1. ASSUME NEW k \in D .. Len(pipe') PROVE pipe'[k] = Terminate
        <5>1. k \in 1 .. Len(pipe') /\ k + 1 \in D + 1 .. Len(pipe)
          BY <1>2, <2>1, <2>5, <4>1
        <5> QED
          BY <1>2, <2>2, <5>1 DEF Flow
      <4> QED
        BY <4>1
    <3>10. new[D - 1] = pos[D]
      BY <2>1, <2>5, <3>7
    <3>11. Flow(D - 1, new)'
      BY <1>1, <1>2, <2>1, <2>2, <2>3, <2>5, <3>3, <3>4, <3>7, <3>8, <3>9, <3>10
         DEF Flow
    <3>12. D - 1 \in 0 .. Len(pipe') /\ new \in [0 .. D - 1 -> 0 .. length']
      BY <1>1, <1>2, <2>1, <2>5, <3>7
    <3> QED
      BY <1>4, <1>5, <1>6, <3>5, <3>11, <3>12, FlowMade DEF IInv
  <2> QED
    BY <2>1, <2>4, <2>5
<1> QED
  BY <1>7, <1>8

(* What the other receivers write goes behind what they wrote.             *)
LEMMA AppendKeeps ==
  ASSUME IInv, Take, LoopUnless(Head(pipe)), kind # "data",
         UNCHANGED <<cursor, words>>,
         NEW n \in 0 .. B,
         clean /\ Head(pipe).tag = "data" => n = Head(pipe).size,
         out' = IF Head(pipe).tag = "data"
                  THEN out \o SubSeq(Head(pipe).body, 1, n) ELSE out,
         kind = "tcpio" => Len(out) + B <= room
  PROVE  IInv'
<1>1. /\ out \in Seq(Bytes) /\ Len(out) \in Nat /\ kind' = kind /\ room' = room
      /\ cursor' = cursor /\ words' = words /\ cursor \in Nat /\ words \in Nat
      /\ B \in Nat /\ room \in Nat
  BY LenProperties, Numbers DEF IInv, FrameType, Take
<1>2. PICK new : new = SubSeq(Head(pipe).body, 1, n)
  OBVIOUS
<1>3. /\ new \in Seq(Bytes) /\ Len(new) = n
      /\ \A i \in 1 .. n : new[i] = Head(pipe).body[i]
  BY <1>2, HeadIs, Piece
<1>4. /\ out \o new \in Seq(Bytes) /\ Len(out \o new) = Len(out) + n
      /\ \A i \in 1 .. Len(out) : (out \o new)[i] = out[i]
      /\ \A i \in 1 .. n : (out \o new)[Len(out) + i] = new[i]
  <2>1. /\ out \o new \in Seq(Bytes) /\ Len(out \o new) = Len(out) + n
        /\ \A i \in 1 .. Len(out) + n :
             (out \o new)[i] = IF i <= Len(out) THEN out[i] ELSE new[i - Len(out)]
    BY <1>1, <1>3, ConcatProperties
  <2>2. \A i \in 1 .. n : /\ Len(out) + i \in 1 .. Len(out) + n
                          /\ ~(Len(out) + i <= Len(out))
                          /\ (Len(out) + i) - Len(out) = i
    BY <1>1
  <2>3. \A i \in 1 .. Len(out) : i \in 1 .. Len(out) + n
    BY <1>1
  <2> QED
    BY <1>1, <2>1, <2>2, <2>3
<1>5. Got = Len(out) /\ Got' = Len(out')
  BY <1>1 DEF Got
<1>6. /\ out' \in Seq(Bytes) /\ Len(out') <= Len(out) + B
      /\ \A i \in 1 .. Len(out) : out'[i] = out[i]
  BY <1>1, <1>2, <1>4
<1>7. RoomInv'
  <2>1. kind = "tcpio" => Len(out') <= room
    BY <1>1, <1>6, LenProperties
  <2> QED
    BY <1>1, <2>1 DEF RoomInv
<1>8. ASSUME clean, Head(pipe).tag = "data"
      PROVE  /\ Got' = Got + Head(pipe).size /\ Got' <= Len(out')
             /\ \A i \in 1 .. Head(pipe).size : out'[Got + i] = Head(pipe).body[i]
  <2>1. out' = out \o new /\ n = Head(pipe).size
    BY <1>2, <1>8
  <2> QED
    BY <1>1, <1>3, <1>4, <1>5, <2>1
<1>9. ASSUME clean, Head(pipe).tag = "terminate" PROVE Got' = Got /\ Len(out') = Got
  BY <1>5, <1>9
<1>10. cursor' \in Nat /\ words' \in Nat
  BY <1>1
<1>11. \A i \in 1 .. Got : out'[i] = out[i]
  BY <1>5, <1>6
<1> QED
  BY <1>6, <1>7, <1>8, <1>9, <1>10, <1>11, TakeKeeps

(* A receiver that gives up has what it had.                               *)
LEMMA GivenUp ==
  ASSUME IInv, receiving' = FALSE, result' \in {"noRoom", "error"},
         UNCHANGED <<exchange, kind, length, clean, room, out, cursor, words>>
  PROVE  RoomInv' /\ OutInv' /\ FlowInv'
BY DEF IInv, RoomInv, OutInv, FlowInv, Got

LEMMA ReceiveTcpIoKeeps ==
  ASSUME IInv, ReceiveTcpIo
  PROVE  IInv'
<1>1. /\ Take /\ kind = "tcpio" /\ TcpIo(Head(pipe)) /\ B \in Nat /\ BufSize \in Nat
      /\ B <= BufSize /\ Len(out) \in Nat /\ room \in Nat
      /\ cursor' = cursor /\ words' = words
  BY Numbers, LenProperties DEF ReceiveTcpIo, TcpIo, IInv, FrameType
<1>2. /\ Head(pipe) \in Blocks /\ receiving /\ kind # "none" /\ result = "none"
      /\ pipe' \in Seq(Blocks)
  BY <1>1, HeadIs
<1>3. CASE Len(out) + BufSize > room
  <2>1. /\ receiving' = FALSE /\ result' = "noRoom" /\ out' = out
    BY <1>1, <1>3 DEF TcpIo, Return
  <2>2. RoomInv' /\ OutInv' /\ FlowInv'
    BY <1>1, <2>1, GivenUp DEF Take
  <2>3. FrameType'
    BY <1>1, <1>2, <2>1 DEF IInv, FrameType, Take, sender
  <2>4. SendInv' /\ CallInv'
    BY <1>1, <1>2, <2>1 DEF IInv, SendInv, CallInv, Take, sender
  <2> QED
    BY <2>2, <2>3, <2>4 DEF IInv
<1>4. CASE Len(out) + BufSize <= room
  <2>1. LoopUnless(Head(pipe)) /\ out' = out \o ReceiveData(Head(pipe))
    BY <1>1, <1>4 DEF TcpIo
  <2>2. Head(pipe).size \in 0 .. B
    BY <1>2 DEF Blocks
  <2>3. out \o <<>> = out
    BY ConcatEmptySeq DEF IInv, FrameType
  <2>4. out' = IF Head(pipe).tag = "data"
                 THEN out \o SubSeq(Head(pipe).body, 1, Head(pipe).size) ELSE out
    BY <2>1, <2>3 DEF ReceiveData
  <2>5. Len(out) + B <= room
    BY <1>1, <1>4
  <2> QED
    BY <1>1, <2>1, <2>2, <2>4, <2>5, AppendKeeps
<1> QED
  BY <1>1, <1>3, <1>4

LEMMA ReceiveToFileKeeps ==
  ASSUME IInv, ReceiveToFile
  PROVE  IInv'
<1>1. /\ Take /\ kind \in {"bin", "hex", "badHex"} /\ LoopUnless(Head(pipe))
      /\ UNCHANGED <<cursor, words>>
  BY DEF ReceiveToFile
<1>2. Head(pipe).size \in 0 .. B /\ B \in Nat
  BY <1>1, HeadIs, Numbers DEF Blocks
<1>3. PICK n : n = IF kind = "bin" THEN Head(pipe).size
                   ELSE RoundUp(Head(pipe).size) * Word
  OBVIOUS
<1>4. n \in 0 .. B
  BY <1>2, <1>3, RoundUpIs
<1>5. clean /\ Head(pipe).tag = "data" => n = Head(pipe).size
  <2>1. ASSUME clean, Head(pipe).tag = "data", kind # "bin"
        PROVE  RoundUp(Head(pipe).size) * Word = Head(pipe).size
    <3>1. Whole(Head(pipe).size)
      BY <1>1, <2>1, HeadIs DEF WordKinds
    <3> QED
      BY <1>2, <3>1, RoundUpIs
  <2> QED
    BY <1>3, <2>1
<1>6. out' = IF Head(pipe).tag = "data"
               THEN out \o SubSeq(Head(pipe).body, 1, n) ELSE out
  BY <1>3 DEF ReceiveToFile
<1> QED
  BY <1>1, <1>4, <1>5, <1>6, AppendKeeps

LEMMA ReceiveQuickDataKeeps ==
  ASSUME IInv, ReceiveQuickData
  PROVE  IInv'
<1>1. /\ Take /\ kind = "quick" /\ LoopUnless(Head(pipe))
      /\ UNCHANGED <<cursor, words>>
  BY DEF ReceiveQuickData
<1>2. Head(pipe).size \in 0 .. B /\ B \in Nat
  BY <1>1, HeadIs, Numbers DEF Blocks
<1>3. PICK n : n = RoundUp(Head(pipe).size) * Word
  OBVIOUS
<1>4. n \in 0 .. B
  BY <1>2, <1>3, RoundUpIs
<1>5. clean /\ Head(pipe).tag = "data" => n = Head(pipe).size
  <2>1. ASSUME clean, Head(pipe).tag = "data"
        PROVE  RoundUp(Head(pipe).size) * Word = Head(pipe).size
    <3>1. Whole(Head(pipe).size)
      BY <1>1, <2>1, HeadIs DEF WordKinds
    <3> QED
      BY <1>2, <3>1, RoundUpIs
  <2> QED
    BY <1>3, <2>1
<1>6. out' = IF Head(pipe).tag = "data"
               THEN out \o SubSeq(Head(pipe).body, 1, n) ELSE out
  BY <1>3 DEF ReceiveQuickData
<1> QED
  BY <1>1, <1>4, <1>5, <1>6, AppendKeeps

LEMMA ReceiveFailsKeeps ==
  ASSUME IInv, ReceiveFails
  PROVE  IInv'
<1> USE DEF ReceiveFails
<1>1. /\ receiving' = FALSE /\ result' = "error" /\ ~up /\ receiving
  BY DEF Return
<1>2. RoomInv' /\ OutInv' /\ FlowInv'
  BY <1>1, GivenUp
<1>3. FrameType'
  BY <1>1 DEF IInv, FrameType, sender
<1>4. SendInv' /\ CallInv'
  BY <1>1 DEF IInv, SendInv, CallInv, sender
<1> QED
  BY <1>2, <1>3, <1>4 DEF IInv

(* The vector of receiveToData has room for a block where it is put, which *)
(* is behind what was received before, if nothing was left over.           *)
LEMMA EnlargedIs ==
  ASSUME IInv, kind = "data", receiving
  PROVE  /\ Enlarged.at \in Nat /\ Enlarged.at <= words * Word
         /\ words * Word \in Nat
         /\ Enlarged.v \in Seq(Bytes) /\ Len(Enlarged.v) \in Nat
         /\ words * Word + BufSize <= Len(Enlarged.v)
         /\ clean => Enlarged.at = words * Word
         /\ Len(out) <= Len(Enlarged.v)
         /\ \A i \in 1 .. Len(out) : Enlarged.v[i] = out[i]
<1>1. /\ out \in Seq(Bytes) /\ Len(out) \in Nat /\ cursor \in Nat /\ words \in Nat
      /\ Word \in Nat /\ Words \in Nat /\ BufSize \in Nat
      /\ cursor <= words * Word /\ (clean => cursor = words * Word)
  BY LenProperties, Numbers DEF IInv, FrameType, RoomInv
<1>2. PICK need : need = (words + Words) * Word
  OBVIOUS
<1>3. need = words * Word + BufSize /\ need \in Nat /\ words * Word \in Nat
  <2>1. /\ (words + Words) * Word = words * Word + Word * Words
        /\ words * Word \in Nat
    BY <1>1
  <2> QED
    BY <1>1, <1>2, <2>1 DEF BufSize
<1>4. Enlarged = IF Len(out) >= need
                   THEN [v |-> out, at |-> cursor]
                   ELSE [v |-> Extend(out, need), at |-> words * Word]
  BY <1>2 DEF Enlarged
<1>5. CASE Len(out) >= need
  <2>1. Enlarged.v = out /\ Enlarged.at = cursor
    BY <1>4, <1>5
  <2> QED
    BY <1>1, <1>3, <1>5, <2>1
<1>6. CASE Len(out) < need
  <2>1. Enlarged.v = Extend(out, need) /\ Enlarged.at = words * Word
    BY <1>1, <1>3, <1>4, <1>6
  <2>2. /\ Extend(out, need) \in Seq(Bytes) /\ Len(Extend(out, need)) = need
        /\ \A i \in 1 .. Len(out) : Extend(out, need)[i] = out[i]
    BY <1>1, <1>3, <1>6, ExtendIs
  <2> QED
    BY <1>1, <1>3, <1>6, <2>1, <2>2
<1> QED
  BY <1>1, <1>3, <1>5, <1>6

LEMMA ReceiveToDataKeeps ==
  ASSUME IInv, ReceiveToData
  PROVE  IInv'
<1>1. Take /\ kind = "data" /\ LoopUnless(Head(pipe))
  BY DEF ReceiveToData
<1>2. /\ Head(pipe) \in Blocks /\ Head(pipe).size \in 0 .. B /\ receiving /\ B \in Nat
      /\ BufSize \in Nat /\ B <= BufSize /\ kind' = kind /\ clean' = clean
      /\ clean /\ Head(pipe).tag = "data" => Whole(Head(pipe).size)
  BY <1>1, HeadIs, Numbers DEF Blocks, Take, WordKinds
<1>3. PICK data : data = ReceiveData(Head(pipe))
  OBVIOUS
<1>4. PICK old, at, w :
        old = Enlarged.v /\ at = Enlarged.at /\ w = words * Word
  OBVIOUS
<1>5. /\ at \in Nat /\ w \in Nat /\ at <= w /\ old \in Seq(Bytes) /\ Len(old) \in Nat
      /\ w + BufSize <= Len(old) /\ (clean => at = w) /\ Len(out) <= Len(old)
      /\ \A i \in 1 .. Len(out) : old[i] = out[i]
  BY <1>1, <1>2, <1>4, EnlargedIs
<1>6. /\ data \in Seq(Bytes) /\ Len(data) \in 0 .. B
      /\ Head(pipe).tag = "data" =>
           /\ Len(data) = Head(pipe).size
           /\ \A i \in 1 .. Len(data) : data[i] = Head(pipe).body[i]
      /\ Head(pipe).tag = "terminate" => Len(data) = 0
  <2>1. CASE Head(pipe).tag = "data"
    BY <1>2, <1>3, <2>1, Piece DEF ReceiveData
  <2>2. CASE Head(pipe).tag # "data"
    BY <1>2, <1>3, <2>2, EmptySeq DEF ReceiveData
  <2> QED
    BY <2>1, <2>2
<1>7. PICK q : q = RoundUp(Len(data))
  OBVIOUS
<1>8. /\ q \in Nat /\ q * Word \in Nat /\ Len(data) <= q * Word /\ q * Word <= B
      /\ clean => q * Word = Len(data)
  <2>1. /\ q \in Nat /\ q * Word \in Nat /\ Len(data) <= q * Word /\ q * Word <= B
        /\ Whole(Len(data)) => q * Word = Len(data)
    BY <1>2, <1>6, <1>7, RoundUpIs
  <2>2. clean => Whole(Len(data))
    BY <1>2, <1>6, WholeBlock DEF Blocks
  <2> QED
    BY <2>1, <2>2
<1>9. /\ words' = words + q /\ cursor' = at + Len(data)
      /\ out' = IF Head(pipe).tag = "terminate"
                  THEN SubSeq(Copy(old, at, data), 1, words' * Word)
                  ELSE Copy(old, at, data)
  BY <1>3, <1>4, <1>7 DEF ReceiveToData
<1>10. words' * Word = w + q * Word /\ words' \in Nat /\ cursor' \in Nat
  <2>1. words \in Nat /\ Word \in Nat
    BY Numbers DEF IInv, FrameType
  <2>2. (words + q) * Word = words * Word + q * Word
    BY <1>8, <2>1
  <2> QED
    BY <1>4, <1>5, <1>6, <1>8, <1>9, <2>1, <2>2
<1>11. PICK c : c = Copy(old, at, data)
  OBVIOUS
<1>12. /\ c \in Seq(Bytes) /\ Len(c) = Len(old)
       /\ \A i \in 1 .. Len(old) :
            c[i] = IF i - at \in 1 .. Len(data) THEN data[i - at] ELSE old[i]
  <2>1. old \in Seq(Bytes) /\ data \in Seq(Bytes) /\ at \in Nat
    BY <1>5, <1>6
  <2>2. /\ Copy(old, at, data) \in Seq(Bytes) /\ Len(Copy(old, at, data)) = Len(old)
        /\ \A i \in 1 .. Len(old) :
             Copy(old, at, data)[i] =
               IF i - at \in 1 .. Len(data) THEN data[i - at] ELSE old[i]
    BY ONLY <2>1, CopyIs
  <2> QED
    BY ONLY <1>11, <2>2
<1>13. RoomInv'
  <2>1. cursor' <= words' * Word /\ (clean => cursor' = words' * Word)
    BY <1>5, <1>6, <1>8, <1>9, <1>10
  <2> QED
    BY <1>1, <1>2, <2>1 DEF RoomInv
<1>14. Got = w /\ Got' = words' * Word
  BY <1>1, <1>2, <1>4 DEF Got
<1>15. clean => \A i \in 1 .. w : c[i] = out[i]
  <2>1. ASSUME clean, NEW i \in 1 .. w PROVE c[i] = out[i]
    <3>1. w <= Len(out)
      BY <1>14, <2>1 DEF IInv, OutInv
    <3>2. i \in 1 .. Len(old) /\ i \in 1 .. Len(out) /\ ~(i - at \in 1 .. Len(data))
      BY <1>5, <1>6, <2>1, <3>1, LenProperties DEF IInv, FrameType
    <3> QED
      BY <1>5, <1>12, <3>2
  <2> QED
    BY <2>1
<1>16. CASE Head(pipe).tag = "data"
  <2>1. out' = c
    BY <1>9, <1>11, <1>16
  <2>2. ASSUME clean
        PROVE  /\ Got' = Got + Head(pipe).size /\ Got' <= Len(out')
               /\ \A i \in 1 .. Head(pipe).size : out'[Got + i] = Head(pipe).body[i]
    <3>1. Got' = Got + Head(pipe).size /\ Got' <= Len(out')
      BY <1>2, <1>5, <1>6, <1>8, <1>10, <1>12, <1>14, <1>16, <2>1, <2>2
    <3>2. ASSUME NEW i \in 1 .. Head(pipe).size
          PROVE  c[w + i] = Head(pipe).body[i]
      <4>1. w + i \in 1 .. Len(old) /\ (w + i) - at = i /\ i \in 1 .. Len(data)
        BY <1>2, <1>5, <1>6, <1>16, <2>2, <3>2
      <4> QED
        BY <1>6, <1>12, <1>16, <4>1
    <3> QED
      BY <1>14, <2>1, <3>1, <3>2
  <2>3. clean => \A i \in 1 .. Got : out'[i] = out[i]
    BY <1>14, <1>15, <2>1
  <2>4. ~(Head(pipe).tag = "terminate")
    BY <1>16
  <2>5. out' \in Seq(Bytes)
    BY <1>12, <2>1
  <2> QED
    BY <1>1, <1>10, <1>13, <2>2, <2>3, <2>4, <2>5, TakeKeeps
<1>17. CASE Head(pipe).tag = "terminate"
  <2>1. Len(data) = 0 /\ q * Word = 0 /\ words' * Word = w
    <3>1. RoundUp(0) * Word = 0
      BY RoundUpIs
    <3>2. Len(data) = 0
      BY <1>6, <1>17
    <3> QED
      BY <1>5, <1>7, <1>10, <3>1, <3>2
  <2>2. out' = SubSeq(c, 1, w)
    BY <1>9, <1>11, <1>17, <2>1
  <2>3. w <= Len(c)
    BY <1>2, <1>5, <1>12
  <2>4. /\ out' \in Seq(Bytes) /\ Len(out') = w
        /\ \A i \in 1 .. w : out'[i] = c[i]
    <3>1. \A i \in 1 .. w : c[i] \in Bytes
      BY <1>5, <1>12, <2>3, ElementOfSeq
    <3>2. /\ SubSeq(c, 1, w) \in Seq(Bytes)
          /\ Len(SubSeq(c, 1, w)) = IF 1 <= w THEN w - 1 + 1 ELSE 0
          /\ \A i \in 1 .. w - 1 + 1 : SubSeq(c, 1, w)[i] = c[1 + i - 1]
      BY <1>5, <3>1, SubSeqProperties
    <3>3. w - 1 + 1 = w /\ \A i \in 1 .. w : 1 + i - 1 = i
      BY <1>5
    <3> QED
      BY <1>5, <2>2, <3>2, <3>3
  <2>5. Got' = Got /\ Len(out') = Got
    BY <1>14, <2>1, <2>4
  <2>6. clean => \A i \in 1 .. Got : out'[i] = out[i]
    BY <1>14, <1>15, <2>4
  <2>7. ~(Head(pipe).tag = "data")
    BY <1>17
  <2> QED
    BY <1>1, <1>10, <1>13, <2>4, <2>5, <2>6, <2>7, TakeKeeps
<1> QED
  BY <1>2, <1>16, <1>17 DEF Blocks

(* A break cuts what is under way short.                                   *)
LEMMA BreakKeeps ==
  ASSUME IInv, Break
  PROVE  IInv'
<1>1. /\ nSend' = nSend /\ up /\ up' = FALSE /\ exchange' = exchange /\ kind' = kind
      /\ length' = length /\ clean' = clean /\ sending' = sending
      /\ readBytes' = readBytes /\ size' = size /\ body' = body
      /\ terms' = terms /\ receiving' = receiving /\ room' = room /\ out' = out
      /\ cursor' = cursor /\ words' = words /\ result' = result
  BY DEF Break, sender, receiver
<1>2. PICK k \in 0 .. Len(pipe) : pipe' = SubSeq(pipe, 1, k)
  BY DEF Break
<1>3. /\ Len(pipe) \in Nat /\ pipe' \in Seq(Blocks) /\ Len(pipe') = k
      /\ \A i \in 1 .. k : pipe'[i] = pipe[i]
  <2>1. Len(pipe) \in Nat /\ pipe \in Seq(Blocks)
    BY LenProperties DEF IInv, FrameType
  <2>2. \A i \in 1 .. k : pipe[i] \in Blocks
    BY <2>1, ElementOfSeq
  <2>3. /\ SubSeq(pipe, 1, k) \in Seq(Blocks)
        /\ Len(SubSeq(pipe, 1, k)) = IF 1 <= k THEN k - 1 + 1 ELSE 0
        /\ \A i \in 1 .. k - 1 + 1 : SubSeq(pipe, 1, k)[i] = pipe[1 + i - 1]
    BY <2>1, <2>2, SubSeqProperties
  <2>4. k - 1 + 1 = k /\ \A i \in 1 .. k : 1 + i - 1 = i
    BY <2>1
  <2> QED
    BY <1>2, <2>1, <2>3, <2>4
<1>4. FrameType'
  BY <1>1, <1>3 DEF IInv, FrameType
<1>5. SendInv' /\ CallInv'
  BY <1>1 DEF IInv, SendInv, CallInv
<1>6. RoomInv' /\ OutInv' /\ Got' = Got
  BY <1>1 DEF IInv, RoomInv, OutInv, Got
<1>7. FlowInv'
  <2> SUFFICES ASSUME clean, receiving \/ result = "done"
               PROVE  FlowInv'
    BY <1>1 DEF FlowInv
  <2>0. PICK D \in 0 .. Len(pipe) :
          \E pos \in [0 .. D -> 0 .. length] : Flow(D, pos)
    BY DEF IInv, FlowInv
  <2>1. PICK pos \in [0 .. D -> 0 .. length] : Flow(D, pos)
    BY <2>0
  <2>2. PICK E : E = IF D <= k THEN D ELSE k
    OBVIOUS
  <2>3. PICK new : new = [i \in 0 .. E |-> pos[i]]
    OBVIOUS
  <2>4. /\ E \in 0 .. k /\ E <= D /\ (E < k => E = D)
        /\ new \in [0 .. E -> 0 .. length] /\ \A i \in 0 .. E : new[i] = pos[i]
    BY <1>3, <2>1, <2>2, <2>3
  <2>5. ASSUME NEW i \in 1 .. E PROVE Covers(i, new)'
    <3>1. /\ i \in 1 .. D /\ i \in 1 .. k /\ i \in 0 .. E /\ i - 1 \in 0 .. E
      BY <1>3, <2>4
    <3>2. Covers(i, pos) /\ pipe'[i] = pipe[i] /\ new[i] = pos[i] /\ new[i - 1] = pos[i - 1]
      BY <1>3, <2>1, <2>4, <3>1 DEF Flow
    <3> QED
      BY <1>1, <3>2 DEF Covers
  <2>6. ASSUME NEW i \in E + 1 .. Len(pipe') PROVE pipe'[i] = Terminate
    <3>1. i \in D + 1 .. Len(pipe) /\ i \in 1 .. k
      BY <1>2, <1>3, <2>0, <2>4, <2>6
    <3> QED
      BY <1>3, <2>1, <3>1 DEF Flow
  <2>7. E < Len(pipe') => sending' # "data" /\ new[E] = length'
    <3>1. ASSUME E < k PROVE sending # "data" /\ new[E] = length
      <4>1. E = D /\ D < Len(pipe) /\ E \in 0 .. E
        BY <1>2, <1>3, <2>0, <2>4, <3>1
      <4> QED
        BY <2>1, <2>4, <4>1 DEF Flow
    <3> QED
      BY <1>1, <1>3, <3>1
  <2>8. new[0] = Got' /\ (result' = "done" => E = 0)
    BY <1>1, <1>3, <1>6, <2>0, <2>1, <2>4 DEF Flow
  <2>9. Flow(E, new)'
    BY <1>1, <2>5, <2>6, <2>7, <2>8 DEF Flow
  <2>10. E \in 0 .. Len(pipe') /\ new \in [0 .. E -> 0 .. length']
    BY <1>1, <1>3, <2>4
  <2> QED
    BY <2>9, <2>10, FlowMade
<1> QED
  BY <1>4, <1>5, <1>6, <1>7 DEF IInv

-----------------------------------------------------------------------------
LEMMA StutterKeeps == IInv /\ UNCHANGED vars => IInv'
<1> SUFFICES ASSUME IInv, UNCHANGED vars PROVE IInv'
  OBVIOUS
<1>1. /\ nSend' = nSend /\ up' = up /\ pipe' = pipe /\ exchange' = exchange
      /\ kind' = kind /\ length' = length /\ clean' = clean /\ sending' = sending
      /\ readBytes' = readBytes /\ size' = size /\ body' = body
      /\ terms' = terms /\ receiving' = receiving /\ room' = room /\ out' = out
      /\ cursor' = cursor /\ words' = words /\ result' = result
  BY DEF vars, sender, receiver
<1>2. FrameType' /\ SendInv'
  BY <1>1 DEF IInv, FrameType, SendInv
<1>3. UNCHANGED Other /\ up' = up
  BY <1>1 DEF Other, receiver
<1>4. FlowInv'
  BY <1>1, <1>3, SameFlow
<1> QED
  BY <1>2, <1>3, <1>4, OtherKept DEF IInv

(* The invariant holds in every state of the exchanges.                    *)
LEMMA FramingInvariance == Spec => []IInv
<1>1. Init => IInv
  BY InitFraming
<1>2. IInv /\ [Next]_vars => IInv'
  <2> SUFFICES ASSUME IInv, [Next]_vars PROVE IInv'
    OBVIOUS
  <2>1. ASSUME NEW k \in Kinds, NEW n \in Lengths, NEW r \in Rooms, Begin(k, n, r)
        PROVE  IInv'
    BY <2>1, BeginKeeps
  <2>2. CASE SendBlock
    BY <2>2, SendBlockKeeps
  <2>3. CASE SendEmptyFile
    BY <2>3, SendEmptyFileKeeps
  <2>4. ASSUME NEW newline \in BOOLEAN, SendHexBlock(newline) PROVE IInv'
    BY <2>4, SendHexBlockKeeps
  <2>5. CASE SendTerminate
    BY <2>5, SendTerminateKeeps
  <2>6. CASE SendFails
    BY <2>6, SendFailsKeeps
  <2>7. CASE ReceiveTcpIo
    BY <2>7, ReceiveTcpIoKeeps
  <2>8. CASE ReceiveToData
    BY <2>8, ReceiveToDataKeeps
  <2>9. CASE ReceiveToFile
    BY <2>9, ReceiveToFileKeeps
  <2>10. CASE ReceiveQuickData
    BY <2>10, ReceiveQuickDataKeeps
  <2>11. CASE ReceiveFails
    BY <2>11, ReceiveFailsKeeps
  <2>12. CASE Break
    BY <2>12, BreakKeeps
  <2>13. CASE UNCHANGED vars
    BY <2>13, StutterKeeps
  <2> QED
    BY <2>1, <2>2, <2>3, <2>4, <2>5, <2>6, <2>7, <2>8, <2>9, <2>10, <2>11, <2>12,
       <2>13 DEF Next, SendStep, ReceiveStep
<1> QED
  BY <1>1, <1>2, PTL DEF Spec

(* What an exchange over a client with nothing left over returns is the    *)
(* string that was sent, byte for byte, whatever its length, the sizes of  *)
(* word and block and the number of sockets (tcpclient.cpp 347-386,        *)
(* 615-644; tcpclientapp.cpp 753-910, 1001-1079).                          *)
THEOREM RoundTrips == Spec => []RoundTrip
<1>1. IInv => RoundTrip
  <2> SUFFICES ASSUME IInv, result = "done", clean PROVE out = String
    BY DEF RoundTrip
  <2>1. /\ Got = length /\ Len(out) = length /\ length \in Nat /\ out \in Seq(Bytes)
        /\ \A i \in 1 .. length : out[i] = Byte(exchange, i)
    BY DEF IInv, OutInv, FrameType
  <2>2. /\ String \in Seq(Bytes) /\ Len(String) = length
        /\ \A i \in 1 .. length : String[i] = Byte(exchange, i)
    BY StringIs DEF IInv
  <2> QED
    BY <2>1, <2>2, SeqEqual
<1> QED
  BY <1>1, FramingInvariance, PTL

(* receive_tcp_io stays within the buffer it was given, and receiveToData  *)
(* asks for no more than fits into its vector, also when blocks that were  *)
(* left over come first (receive_tcp_io 632-637, receiveToData 1058-1073). *)
THEOREM NoBufferOverrun == Spec => []NoOverrun
<1>1. IInv => NoOverrun
  <2>1. IInv /\ kind = "tcpio" => Len(out) <= room
    BY DEF IInv, RoomInv
  <2>2. ASSUME IInv, kind = "data", receiving
        PROVE  /\ Enlarged.at + BufDataSize <= Len(Enlarged.v)
               /\ clean => Enlarged.at = words * Word
    <3>1. BufDataSize \in Nat /\ BufDataSize <= BufSize /\ BufSize \in Nat
      BY Numbers DEF B
    <3> QED
      BY <2>2, <3>1, EnlargedIs
  <2> QED
    BY <2>1, <2>2 DEF NoOverrun
<1> QED
  BY <1>1, FramingInvariance, PTL

(* An exchange that went through leaves one terminate block less behind    *)
(* than it has sockets, whatever their number (send_terminate 391-408).    *)
THEOREM LeftOverKnown == Spec => []LeftOver
<1>1. IInv => LeftOver
  <2> SUFFICES ASSUME IInv, sending = "no", result = "done", up, clean
               PROVE  pipe = [k \in 1 .. nSend - 1 |-> Terminate]
    BY DEF LeftOver
  <2>1. exchange > 0 /\ terms = 0
    <3>1. exchange \in Nat /\ exchange # 0
      BY DEF IInv, FrameType, CallInv
    <3> QED
      BY <3>1 DEF IInv, SendInv
  <2>2. PICK D \in 0 .. Len(pipe) :
          \E pos \in [0 .. D -> 0 .. length] : Flow(D, pos)
    BY DEF IInv, FlowInv
  <2>3. PICK pos \in [0 .. D -> 0 .. length] : Flow(D, pos)
    BY <2>2
  <2>4. Len(pipe) \in Nat /\ nSend \in Nat \ {0} /\ pipe \in Seq(Blocks)
    BY LenProperties DEF IInv, FrameType
  <2>5. D = 0 /\ Len(pipe) + 1 = nSend
    BY <2>1, <2>3, <2>4 DEF Flow
  <2>6. \A k \in 1 .. Len(pipe) : pipe[k] = Terminate
    BY <2>3, <2>5 DEF Flow
  <2>7. pipe = [k \in 1 .. Len(pipe) |-> pipe[k]]
    BY <2>4
  <2>8. Len(pipe) = nSend - 1
    BY <2>4, <2>5
  <2> QED
    BY <2>6, <2>7, <2>8
<1> QED
  BY <1>1, FramingInvariance, PTL

(* A hex file in which something is not a word is never sent to its end:   *)
(* as long as nothing fails sender and receiver both go on, and what is    *)
(* received is a beginning of the file (sendHexFile 828-842).              *)
THEOREM MalformedHexNeverEnds == Spec => []MalformedHex
<1>1. IInv => MalformedHex
  <2> SUFFICES ASSUME IInv, kind = "badHex", clean
               PROVE  /\ up => sending = "data" /\ receiving
                      /\ out = SubSeq(String, 1, Len(out))
    BY DEF MalformedHex
  <2>1. ASSUME up PROVE sending = "data" /\ receiving
    <3>1. sending = "data" /\ terms = nSend
      BY <2>1 DEF IInv, SendInv
    <3>2. result # "done"
      <4>1. ASSUME result = "done" PROVE FALSE
        <5>1. PICK D \in 0 .. Len(pipe) :
                \E pos \in [0 .. D -> 0 .. length] : Flow(D, pos)
          BY <4>1 DEF IInv, FlowInv
        <5>2. PICK pos \in [0 .. D -> 0 .. length] : Flow(D, pos)
          BY <5>1
        <5>3. Len(pipe) \in Nat /\ nSend \in Nat
          BY LenProperties DEF IInv, FrameType
        <5> QED
          BY <2>1, <3>1, <4>1, <5>2, <5>3 DEF Flow
      <4> QED
        BY <4>1
    <3>3. result = "none"
      BY <2>1, <3>2 DEF IInv, FrameType, CallInv
    <3> QED
      BY <3>1, <3>3 DEF IInv, CallInv
  <2>2. out = SubSeq(String, 1, Len(out))
    <3>1. /\ Len(out) <= length /\ Len(out) \in Nat /\ length \in Nat
          /\ out \in Seq(Bytes)
          /\ \A i \in 1 .. Len(out) : out[i] = Byte(exchange, i)
      BY LenProperties DEF IInv, FrameType, OutInv, Got
    <3>2. /\ String \in Seq(Bytes) /\ Len(String) = length
          /\ \A i \in 1 .. length : String[i] = Byte(exchange, i)
      BY StringIs DEF IInv
    <3>3. PICK n : n = Len(out)
      OBVIOUS
    <3>4. \A i \in 1 .. n : String[i] \in Bytes /\ String[i] = Byte(exchange, i)
      <4>1. \A i \in 1 .. n : i \in 1 .. length
        BY <3>1, <3>3
      <4> QED
        BY <3>2, <4>1, ElementOfSeq
    <3>5. /\ SubSeq(String, 1, n) \in Seq(Bytes)
          /\ Len(SubSeq(String, 1, n)) = IF 1 <= n THEN n - 1 + 1 ELSE 0
          /\ \A i \in 1 .. n - 1 + 1 : SubSeq(String, 1, n)[i] = String[1 + i - 1]
      BY <3>1, <3>3, <3>4, SubSeqProperties
    <3>6. n - 1 + 1 = n /\ \A i \in 1 .. n : 1 + i - 1 = i
      BY <3>1, <3>3
    <3>7. Len(SubSeq(String, 1, n)) = n /\ \A i \in 1 .. n : SubSeq(String, 1, n)[i] = out[i]
      BY <3>1, <3>3, <3>4, <3>5, <3>6
    <3> QED
      BY <3>1, <3>3, <3>5, <3>7, SeqEqual
  <2> QED
    BY <2>1, <2>2
<1> QED
  BY <1>1, FramingInvariance, PTL
=============================================================================
