---------------------------- MODULE ChunksProofs ----------------------------
(***************************************************************************)
(* For any number and size of files, any word and buffer sizes, any number *)
(* of sockets and any errors: SendChunks sends the messages, the program   *)
(* gets the files in order and nothing else (over sockets that keep the    *)
(* order), a receive_need that tcpBufSize_ does not divide never ends      *)
(* without an error, and so a client whose blocks are larger than a header *)
(* never receives anything.                                                *)
(*                                                                         *)
(* The invariant places both programs in one stream of bytes, which is     *)
(* Messages and then a message of the server.  StreamInv and SendInv say   *)
(* where in it the sender is.  The receiver is at byte t, in message m:    *)
(* Place says for each receive_need what it has of the stream, what the    *)
(* program has of the files, and that stay and needRcv lead to the next    *)
(* place; WireInv says that the sockets hold the bytes between t and the   *)
(* sender, over several sockets in blocks, one in turn on each.            *)
(***************************************************************************)
EXTENDS Chunks, WordsProofs

-----------------------------------------------------------------------------
Bytes      == Seq(Nat)
MessageLen == 2 * Word + setup.size + PadOf(setup.size)
Total      == Files * MessageLen
From(m)    == (m - 1) * MessageLen     \* of the bytes before message m

(* What the rest of the invariant needs of the types.                      *)
SenderType ==
  /\ setup \in Setups /\ error \in BOOLEAN
  /\ wire \in [Socket -> Bytes] /\ sent \in Bytes
  /\ iSend \in Socket /\ iRcv \in Socket
  /\ file \in 1 .. Files /\ fileRest \in Nat /\ piece \in Nat
  /\ needSend \in 0 .. setup.size
  /\ sendPc \in {"loop", "header", "data", "pad", "done", "closed"}
  /\ sendStatus \in {"DataProcessing", "AllData", "Error"}

(* What was sent is the messages, and in the end a message of the server.  *)
StreamInv ==
  /\ \A i \in 1 .. Len(sent) : i <= Total => sent[i] = Messages[i]
  /\ sendPc # "closed" => Len(sent) <= Total
  /\ sendPc = "closed" =>
       /\ Len(sent) = Total + 3 * Word
       /\ \E tag \in {ServiceTag, PaddingTag, OtherTag} :
            \A i \in 1 .. Word : sent[Total + Word + i] = ToWord(tag)[i]

(* How much that is of the message under way, as long as nothing failed.   *)
Sent(n) == ~error => Len(sent) = From(file) + n
SendInv ==
  /\ sendStatus = "Error" => error
  /\ sendStatus = "AllData" => needSend = 0 /\ setup.missing = 0
  /\ sendStatus = "DataProcessing" /\ setup.size > 0 => needSend > 0
  /\ sendPc \in {"header", "data"} =>
       /\ sendStatus = "DataProcessing"
       /\ needSend = piece + fileRest + setup.missing
       /\ needSend = setup.size /\ setup.size > 0 => piece > 0
       /\ piece <= setup.sendBuf /\ (piece < setup.sendBuf => fileRest = 0)
  /\ sendPc = "header" => needSend = setup.size /\ Sent(0)
  /\ sendPc = "data"   => Sent(2 * Word + setup.size - needSend)
  /\ sendPc = "pad"    => /\ sendStatus = "AllData" /\ PadOf(setup.size) > 0
                          /\ Sent(2 * Word + setup.size)
  /\ sendPc = "loop" /\ sendStatus = "DataProcessing" =>
       /\ needSend = fileRest + setup.missing
       /\ Sent(IF needSend = setup.size THEN 0
               ELSE 2 * Word + setup.size - needSend)
  /\ sendPc \in {"loop", "done"} /\ sendStatus = "AllData" => Sent(MessageLen)
  /\ sendPc = "done" => /\ sendStatus # "DataProcessing"
                        /\ sendStatus = "AllData" => file = Files

(* The bytes on the sockets are those that were sent, from byte t on. Over *)
(* several sockets they are there in blocks, one in turn on each.          *)
Turns(i, j) == IF i <= j THEN j - i ELSE j - i + setup.sockets
Block       == setup.bufSize
Round       == setup.sockets * setup.bufSize
Next1(t, j) == t + Turns(iRcv, j) * Block     \* what socket j has next
Open        == sendPc # "closed" /\ (setup.missing = 0 \/ needSend # setup.missing)
PathInv(t, j, c) ==
  /\ c * Block <= Len(wire[j]) /\ Len(wire[j]) < (c + 1) * Block
  /\ \A k \in 0 .. c - 1 : \A r \in 1 .. Block :
       /\ Next1(t, j) + k * Round + r <= Len(sent)
       /\ wire[j][k * Block + r] = sent[Next1(t, j) + k * Round + r]
  /\ Open => /\ Len(wire[j]) = c * Block
             /\ Next1(t, j) + c * Round = Len(sent) + Turns(iSend, j) * Block
WireInv(t) ==
  /\ t \in 0 .. Len(sent)
  /\ setup.sockets = 1 =>
       /\ Len(wire[0]) = Len(sent) - t
       /\ \A i \in 1 .. Len(wire[0]) : wire[0][i] = sent[t + i]
  /\ setup.sockets > 1 =>
       /\ setup.missing = 0 => needSend % Block = 0
       /\ \A j \in Socket : \E c \in Nat : PathInv(t, j, c)

Large == setup.sync => setup.vector >= setup.size
Got(s, n) == Large => Len(s) = n /\ \A i \in 1 .. n : s[i] = Contents[i]
Lost == error /\ buffer = <<>> /\ stay > 0
Reads(p, n, t) ==
  /\ Len(buffer) + stay = n /\ t = p + Len(buffer)
  /\ \A i \in 1 .. Len(buffer) : buffer[i] = sent[p + i]

(* The same of the receiver, and what its states say of one another.       *)
ReceiverType ==
  /\ rcvPc \in Needs \cup {"loop", "done"} /\ inBlock \in BOOLEAN
  /\ rcvStatus \in {"UnsupportTag", "DataProcessing", "DataPadding", "AllData",
                    "Finish", "Termination", "Error"}
  /\ dataSize \in Nat /\ needRcv \in Nat /\ stay \in Nat
  /\ buffer \in Bytes /\ chunk \in Bytes /\ got \in Bytes
  /\ setup.sync => chunk = <<>> /\ rcvStatus \notin {"DataProcessing", "AllData",
                                                     "Finish"}
  /\ rcvPc \in Needs => rcvStatus # "Finish"
  /\ rcvPc \in Needs \ {"data"} => rcvStatus # "DataProcessing"
  /\ \E n \in 0 .. Files * setup.size : Got(got, n)

(* Place by place: what the receiver has got and what comes next.  Got is  *)
(* said of a program whose vector is large enough for receive_sync; an     *)
(* error makes a receive_need with nothing in its buffer give up, wherever *)
(* in the stream it is (Lost).                                             *)
HeaderInv(t, m) ==
  rcvPc = "header" =>
    /\ Got(got \o chunk, (m - 1) * setup.size)
    /\ Lost \/ Reads(From(m), 2 * Word, t)
Rest(m) == From(m) + 2 * Word + setup.size - needRcv
DataInv(t, m) ==
  rcvPc = "data" =>
    /\ m <= Files /\ dataSize = setup.size /\ chunk = <<>>
    /\ setup.sync => /\ Got(got, (m - 1) * setup.size)
                     /\ Reads(From(m) + 2 * Word,
                              setup.size + PadOf(setup.size), t)
    /\ ~setup.sync => /\ needRcv <= setup.size
                      /\ Got(got, m * setup.size - needRcv)
                      /\ Reads(Rest(m), AtMost(needRcv, setup.rcvBuf), t)
PadInv(t, m) ==
  rcvPc \in {"padBuf", "padWord"} =>
    /\ ~setup.sync /\ m <= Files /\ dataSize = setup.size
    /\ Got(got \o chunk, m * setup.size)
    /\ rcvPc = "padBuf"  => buffer = <<>> /\ stay \in 1 .. Block - 1
    /\ rcvPc = "padWord" =>
         Lost \/ Reads(From(m) + 2 * Word + setup.size, PadOf(setup.size), t)
EndInv(t, m) ==
  rcvPc \in {"service", "padding"} =>
    /\ Got(got \o chunk, Files * setup.size)
    /\ rcvPc = "padding" => ~setup.sync
    /\ rcvPc = "service" => /\ Reads(Total + 2 * Word, Word, t)
                            /\ setup.sockets > 1 => buffer = <<>>
LoopInv(t, m) ==
  rcvPc = "loop" =>
    /\ chunk = <<>>
    /\ setup.sync => Got(got, (m - 1) * setup.size) /\ t = From(m)
    /\ ~setup.sync /\ rcvStatus = "DataProcessing" =>
         /\ m <= Files /\ dataSize = setup.size /\ needRcv <= setup.size
         /\ Got(got, m * setup.size - needRcv) /\ t = Rest(m)
Place(t, m) == /\ HeaderInv(t, m) /\ DataInv(t, m) /\ PadInv(t, m)
               /\ EndInv(t, m) /\ LoopInv(t, m)

ReceiverInv ==
  InTurn => /\ ReceiverType
            /\ \E t \in 0 .. Len(sent) : \E m \in 1 .. Files + 1 :
                 WireInv(t) /\ Place(t, m)
IInv == SenderType /\ StreamInv /\ SendInv /\ ReceiverInv

-----------------------------------------------------------------------------
(* The constants and the fields of the setup.                              *)
LEMMA Numbers ==
  /\ Word \in Nat \ {0} /\ Base \in Nat \ {0} /\ Base > 3
  /\ Files \in Nat \ {0} /\ 2 * Word \in Nat
BY WordsAssumption, ChunksAssumption

(* What the assumptions say of the fields of the setup.                    *)
LEMMA Fields ==
  ASSUME SenderType
  PROVE  /\ setup.sockets \in Nat \ {0} /\ setup.bufSize \in Nat \ {0}
         /\ setup.size \in Nat /\ setup.missing \in Nat
         /\ setup.sendBuf \in Nat \ {0} /\ setup.rcvBuf \in Nat \ {0}
         /\ setup.sync \in BOOLEAN /\ setup.vector \in Nat
         /\ setup.missing = 0 \/ setup.missing < setup.size
         /\ setup.size < Weight[Word]
<1>1. setup \in Setups
  BY DEF SenderType
<1> QED BY <1>1, ChunksAssumption, SizeAssumption

(* The padding is less than a word.                                        *)
LEMMA PadIs ==
  ASSUME NEW n \in Nat
  PROVE  PadOf(n) \in 0 .. Word - 1
<1>1. n % Word \in 0 .. Word - 1 /\ Word \in Nat \ {0}
  BY Numbers, DivMod
<1>2. PICK d \in 1 .. Word : d = Word - (n % Word)
  BY <1>1
<1> QED BY <1>1, <1>2 DEF PadOf

(* A string of bytes, given as a function.                                 *)
LEMMA StringOf ==
  ASSUME NEW n \in Nat, NEW f \in [1 .. n -> Nat]
  PROVE  f \in Bytes /\ Len(f) = n
BY DEF Bytes

Joins(c, a, m, b, n) ==
  /\ c \in Bytes /\ Len(c) = m + n
  /\ \A i \in 1 .. m : c[i] = a[i]
  /\ \A i \in 1 .. n : c[m + i] = b[i]
(* Two strings one after the other.                                        *)
LEMMA Joined ==
  ASSUME NEW a \in Bytes, NEW b \in Bytes
  PROVE  Joins(a \o b, a, Len(a), b, Len(b))
<1>1. a \in Seq(Nat) /\ b \in Seq(Nat)
  BY DEF Bytes
<1>2. /\ a \o b \in Seq(Nat) /\ Len(a \o b) = Len(a) + Len(b)
      /\ \A i \in 1 .. Len(a) + Len(b) :
           (a \o b)[i] = IF i <= Len(a) THEN a[i] ELSE b[i - Len(a)]
  BY <1>1, ConcatProperties
<1>3. Len(a) \in Nat /\ Len(b) \in Nat
  BY <1>1, LenProperties
<1>4. \A i \in 1 .. Len(b) :
        /\ Len(a) + i \in 1 .. Len(a) + Len(b) /\ ~(Len(a) + i <= Len(a))
        /\ (Len(a) + i) - Len(a) = i
  BY <1>3
<1>5. \A i \in 1 .. Len(a) : i \in 1 .. Len(a) + Len(b) /\ i <= Len(a)
  BY <1>3
<1> QED BY <1>2, <1>3, <1>4, <1>5 DEF Bytes, Joins

(* Word after word, and block after block.                                 *)
LEMMA BytesOf ==
  ASSUME NEW n \in Nat
  PROVE  ToWord(n) \in Bytes /\ Len(ToWord(n)) = Word
<1>1. ASSUME NEW i \in 1 .. Word PROVE (n \div Weight[i - 1]) % Base \in Nat
  <2>1. PICK w \in Nat \ {0} : w = Weight[i - 1]
    BY Numbers, WeightIs
  <2>2. n \div w \in Nat
    BY DivMod
  <2> QED BY <2>1, <2>2, Numbers, DivMod
<1>2. Word \in Nat
  BY Numbers
<1> QED BY <1>1, <1>2 DEF ToWord, Bytes

(* A message, byte by byte: header, data, zeros.                           *)
LEMMA MessageIs ==
  ASSUME SenderType, NEW m \in 1 .. Files
  PROVE  /\ MessageLen \in Nat /\ Message(m) \in Bytes
         /\ Len(Message(m)) = MessageLen
         /\ \A o \in 1 .. Word : /\ Message(m)[o] = ToWord(setup.size)[o]
                                 /\ Message(m)[Word + o] = ToWord(DataTag)[o]
         /\ \A o \in 1 .. setup.size :
              Message(m)[2 * Word + o] = FileByte(m, o)
         /\ \A o \in 1 .. PadOf(setup.size) :
              Message(m)[2 * Word + setup.size + o] = 0
<1>1. PICK a \in Bytes : a = ToWord(setup.size) /\ Len(a) = Word
  BY Fields, BytesOf
<1>2. PICK b \in Bytes : b = ToWord(DataTag) /\ Len(b) = Word
  BY BytesOf DEF DataTag
<1>3. PICK c \in Bytes : c = Content(m) /\ Len(c) = setup.size
                         /\ \A o \in 1 .. setup.size : c[o] = FileByte(m, o)
  <2>1. \A o \in 1 .. setup.size : FileByte(m, o) \in Nat
    BY Numbers, Fields, DivMod DEF FileByte
  <2>2. Content(m) \in [1 .. setup.size -> Nat]
    BY <2>1 DEF Content
  <2>3. \A o \in 1 .. setup.size : Content(m)[o] = FileByte(m, o)
    BY DEF Content
  <2>4. Content(m) \in Bytes /\ Len(Content(m)) = setup.size
    BY <2>2, Fields, StringOf
  <2> QED BY <2>3, <2>4
<1>4. PICK z \in Bytes : z = Zeros(PadOf(setup.size)) /\ Len(z) = PadOf(setup.size)
                         /\ \A o \in 1 .. PadOf(setup.size) : z[o] = 0
  <2>1. PadOf(setup.size) \in Nat
    BY Numbers, Fields, PadIs
  <2>2. Zeros(PadOf(setup.size)) \in [1 .. PadOf(setup.size) -> Nat]
    BY DEF Zeros
  <2>3. \A o \in 1 .. PadOf(setup.size) : Zeros(PadOf(setup.size))[o] = 0
    BY DEF Zeros
  <2>4. /\ Zeros(PadOf(setup.size)) \in Bytes
        /\ Len(Zeros(PadOf(setup.size))) = PadOf(setup.size)
    BY <2>1, <2>2, StringOf
  <2> QED BY <2>3, <2>4
<1>5. PICK h : h = a \o b /\ Joins(h, a, Word, b, Word)
  BY <1>1, <1>2, Joined
<1>6. PICK g : g = h \o c /\ Joins(g, h, Word + Word, c, setup.size)
  <2>1. h \in Bytes /\ Len(h) = Word + Word
    BY <1>5 DEF Joins
  <2> QED BY <1>3, <2>1, Joined
<1>7. PICK f : f = g \o z /\ Joins(f, g, Word + Word + setup.size,
                                   z, PadOf(setup.size))
  <2>1. g \in Bytes /\ Len(g) = Word + Word + setup.size
    BY <1>6 DEF Joins
  <2> QED BY <1>4, <2>1, Joined
<1>8. Message(m) = f
  BY <1>1, <1>2, <1>3, <1>4, <1>5, <1>6, <1>7 DEF Message, Header
<1>9. Word + Word = 2 * Word /\ MessageLen = Len(f) /\ MessageLen \in Nat
  <2>1. PICK pad \in Nat : pad = PadOf(setup.size)
    BY Fields, PadIs, Numbers
  <2>2. Len(f) = Word + Word + setup.size + pad
    BY <1>7, <2>1 DEF Joins
  <2>3. MessageLen = 2 * Word + setup.size + pad
    BY <2>1 DEF MessageLen
  <2> QED BY <2>1, <2>2, <2>3, Numbers, Fields
<1>10. \A o \in 1 .. Word :
         /\ o \in 1 .. Word + Word /\ o \in 1 .. Word + Word + setup.size
         /\ Word + o \in 1 .. Word + Word
         /\ Word + o \in 1 .. Word + Word + setup.size
  BY Numbers, Fields
<1>11. \A o \in 1 .. Word : f[o] = a[o] /\ f[Word + o] = b[o]
  BY <1>5, <1>6, <1>7, <1>10 DEF Joins
<1>12. \A o \in 1 .. setup.size : f[Word + Word + o] = FileByte(m, o)
  <2>1. \A o \in 1 .. setup.size :
          Word + Word + o \in 1 .. Word + Word + setup.size
    BY Numbers, Fields
  <2> QED BY <1>3, <1>6, <1>7, <2>1 DEF Joins
<1> QED BY <1>1, <1>2, <1>4, <1>7, <1>8, <1>9, <1>11, <1>12 DEF Joins

(* Where the messages begin.                                               *)
LEMMA FromIs ==
  ASSUME SenderType
  PROVE  /\ MessageLen \in Nat /\ Total \in Nat
         /\ From(1) = 0 /\ From(Files + 1) = Total
         /\ \A m \in 1 .. Files + 1 : From(m) \in 0 .. Total
         /\ \A m \in 1 .. Files : /\ From(m + 1) = From(m) + MessageLen
                                  /\ From(m) + MessageLen <= Total
         /\ \A m \in 1 .. Files + 1 : From(m) = Total => m = Files + 1 \/ MessageLen = 0
<1>1. PICK l \in Nat : l = MessageLen
  BY Numbers, Fields, PadIs DEF MessageLen
<1>2. \A m \in 1 .. Files + 1 : (m - 1) * l \in 0 .. Files * l
  <2> SUFFICES ASSUME NEW m \in 1 .. Files + 1 PROVE (m - 1) * l \in 0 .. Files * l
    OBVIOUS
  <2>1. (m - 1) * l \in Nat
    BY Numbers
  <2>2. (Files + 1 - m) * l \in Nat
    BY Numbers
  <2>3. Files * l = (m - 1) * l + (Files + 1 - m) * l
    BY Numbers
  <2> QED BY <2>1, <2>2, <2>3
<1>3. \A m \in 1 .. Files : /\ ((m + 1) - 1) * l = (m - 1) * l + l
                            /\ m + 1 \in 1 .. Files + 1
  BY Numbers
<1>4. Files * l \in Nat /\ (1 - 1) * l = 0 /\ ((Files + 1) - 1) * l = Files * l
  BY Numbers
<1>5. \A m \in 1 .. Files : (m - 1) * l + l <= Files * l
  BY <1>2, <1>3
<1>6. ASSUME NEW m \in 1 .. Files, (m - 1) * l = Files * l PROVE l = 0
  BY <1>5, <1>6, Numbers
<1> QED BY <1>1, <1>2, <1>3, <1>4, <1>5, <1>6, Numbers DEF From, Total

(* All messages in a row, byte by byte.                                    *)
LEMMA MessagesAre ==
  ASSUME SenderType
  PROVE  /\ Messages \in Bytes /\ Len(Messages) = Total
         /\ \A m \in 1 .. Files :
              /\ \A o \in 1 .. Word :
                   /\ Messages[From(m) + o] = ToWord(setup.size)[o]
                   /\ Messages[From(m) + Word + o] = ToWord(DataTag)[o]
              /\ \A o \in 1 .. setup.size :
                   Messages[From(m) + 2 * Word + o] = FileByte(m, o)
              /\ \A o \in 1 .. PadOf(setup.size) :
                   Messages[From(m) + 2 * Word + setup.size + o] = 0
<1> DEFINE s == [f \in 1 .. Files |-> Message(f)]
<1>1. s \in [1 .. Files -> Seq(Nat)] /\ MessageLen \in Nat
      /\ AllLong(s, Files, MessageLen) /\ Files \in Nat \ {0}
  BY MessageIs, FromIs, Numbers DEF AllLong, Bytes
<1>2. /\ FlattenSeq(s) \in Bytes /\ Len(FlattenSeq(s)) = Files * MessageLen
      /\ \A i \in 1 .. Files : \A o \in 1 .. MessageLen :
           FlattenSeq(s)[(i - 1) * MessageLen + o] = s[i][o]
  <2>1. FlattenSeq(s) \in Seq(Nat) /\ Pieces(FlattenSeq(s), s, Files, MessageLen)
    <3> HIDE DEF s
    <3> QED BY <1>1, FlattenIs, Zenon
  <2> QED BY <2>1 DEF Pieces, Bytes
<1>3. \A m \in 1 .. Files : \A o \in 1 .. MessageLen :
        Messages[From(m) + o] = Message(m)[o]
  BY <1>2 DEF Messages, From
<1>4. Messages \in Bytes /\ Len(Messages) = Total
  BY <1>2 DEF Messages, Total
<1>5. ASSUME NEW m \in 1 .. Files
      PROVE  /\ \A o \in 1 .. Word :
                  /\ Messages[From(m) + o] = ToWord(setup.size)[o]
                  /\ Messages[From(m) + Word + o] = ToWord(DataTag)[o]
             /\ \A o \in 1 .. setup.size :
                  Messages[From(m) + 2 * Word + o] = FileByte(m, o)
             /\ \A o \in 1 .. PadOf(setup.size) :
                  Messages[From(m) + 2 * Word + setup.size + o] = 0
  <2>1. PICK F \in Nat : F = From(m)
    BY FromIs, Numbers
  <2>2. PICK pad \in Nat : pad = PadOf(setup.size) /\ MessageLen = 2 * Word + setup.size + pad
    BY Fields, PadIs, Numbers DEF MessageLen
  <2>3. \A o \in 1 .. MessageLen : Messages[F + o] = Message(m)[o]
    BY <1>3, <2>1
  <2>4. \A o \in 1 .. Word : /\ o \in 1 .. MessageLen /\ Word + o \in 1 .. MessageLen
                             /\ F + (Word + o) = F + Word + o
    BY <2>2, Numbers, Fields
  <2>5. \A o \in 1 .. setup.size : /\ 2 * Word + o \in 1 .. MessageLen
                                   /\ F + (2 * Word + o) = F + 2 * Word + o
    BY <2>2, Numbers, Fields
  <2>6. \A o \in 1 .. pad :
          /\ 2 * Word + setup.size + o \in 1 .. MessageLen
          /\ F + (2 * Word + setup.size + o) = F + 2 * Word + setup.size + o
    BY <2>2, Numbers, Fields
  <2>7. /\ \A o \in 1 .. Word : /\ Message(m)[o] = ToWord(setup.size)[o]
                                /\ Message(m)[Word + o] = ToWord(DataTag)[o]
        /\ \A o \in 1 .. setup.size : Message(m)[2 * Word + o] = FileByte(m, o)
        /\ \A o \in 1 .. pad : Message(m)[2 * Word + setup.size + o] = 0
    BY <2>2, MessageIs
  <2>8. \A o \in 1 .. Word : /\ Messages[F + o] = ToWord(setup.size)[o]
                             /\ Messages[F + Word + o] = ToWord(DataTag)[o]
    BY <2>3, <2>4, <2>7
  <2>9. \A o \in 1 .. setup.size : Messages[F + 2 * Word + o] = FileByte(m, o)
    BY <2>3, <2>5, <2>7
  <2>10. \A o \in 1 .. pad : Messages[F + 2 * Word + setup.size + o] = 0
    BY <2>3, <2>6, <2>7
  <2> QED BY <2>1, <2>2, <2>8, <2>9, <2>10
<1> QED BY <1>4, <1>5

(* The files, byte by byte.                                                *)
LEMMA ContentsAre ==
  ASSUME SenderType
  PROVE  /\ Contents \in Bytes /\ Len(Contents) = Files * setup.size
         /\ \A m \in 1 .. Files : \A o \in 1 .. setup.size :
              Contents[(m - 1) * setup.size + o] = FileByte(m, o)
<1> DEFINE s == [f \in 1 .. Files |-> Content(f)]
<1>1. \A f \in 1 .. Files : \A o \in 1 .. setup.size : FileByte(f, o) \in Nat
  BY Numbers, Fields, DivMod DEF FileByte
<1>2. ASSUME NEW f \in 1 .. Files
      PROVE  /\ Content(f) \in Bytes /\ Len(Content(f)) = setup.size
             /\ \A o \in 1 .. setup.size : Content(f)[o] = FileByte(f, o)
  <2>1. Content(f) \in [1 .. setup.size -> Nat]
    BY <1>1 DEF Content
  <2> QED BY <2>1, Fields, StringOf DEF Content
<1>3. /\ s \in [1 .. Files -> Seq(Nat)] /\ setup.size \in Nat
      /\ AllLong(s, Files, setup.size) /\ Files \in Nat \ {0}
  BY <1>2, Fields, Numbers DEF AllLong, Bytes
<1>4. /\ FlattenSeq(s) \in Bytes /\ Len(FlattenSeq(s)) = Files * setup.size
      /\ \A i \in 1 .. Files : \A o \in 1 .. setup.size :
           FlattenSeq(s)[(i - 1) * setup.size + o] = s[i][o]
  <2>1. FlattenSeq(s) \in Seq(Nat) /\ Pieces(FlattenSeq(s), s, Files, setup.size)
    <3> HIDE DEF s
    <3> QED BY <1>3, FlattenIs, Zenon
  <2> QED BY <2>1 DEF Pieces, Bytes
<1> QED BY <1>2, <1>4 DEF Contents

-----------------------------------------------------------------------------
(* Turning once brings every other socket one turn nearer.                 *)
LEMMA TurnsIs ==
  ASSUME SenderType, NEW i \in Socket, NEW j \in Socket
  PROVE  /\ Turn(i) \in Socket /\ Turns(i, j) \in 0 .. setup.sockets - 1
         /\ Turns(i, i) = 0
         /\ Turns(Turn(i), j) = IF j = i THEN setup.sockets - 1
                                ELSE Turns(i, j) - 1
BY Fields DEF Turn, Turns, Socket

(* Over several sockets in turn every block is two words, and a message has*)
(* no padding.                                                             *)
LEMMA ManySockets ==
  ASSUME SenderType, InTurn, setup.sockets > 1
  PROVE  /\ setup.bufSize = 2 * Word /\ setup.sendBuf = setup.bufSize
         /\ setup.size > 0 /\ setup.size % setup.bufSize = 0
         /\ PadOf(setup.size) = 0
<1>1. /\ setup.bufSize = 2 * Word /\ setup.sendBuf = setup.bufSize
      /\ setup.size > 0 /\ setup.size % setup.bufSize = 0
  BY Fields DEF InTurn
<1>2. PICK h \in Nat : setup.size = h * (2 * Word)
  <2>1. PICK w \in Nat \ {0} : w = 2 * Word
    BY Numbers
  <2>2. setup.size % w = 0 /\ setup.size \in Nat
    BY <1>1, <2>1, Fields
  <2>3. setup.size \div w \in Nat /\ setup.size = (setup.size \div w) * w + (setup.size % w)
    BY <2>1, <2>2, DivMod
  <2>4. setup.size = (setup.size \div w) * w
    BY <2>2, <2>3
  <2> QED BY <2>1, <2>3, <2>4
<1>3. setup.size % Word = 0
  <2>1. PICK g \in Nat : g = 2 * h
    OBVIOUS
  <2>2. g * Word + 0 = setup.size
    BY <1>2, <2>1, Numbers
  <2>3. (g * Word + 0) % Word = 0
    BY Numbers, DivModUnique
  <2> QED BY <2>2, <2>3
<1>4. (Word - 0) % Word = 0
  <2>1. (1 * Word + 0) % Word = 0 /\ 1 * Word + 0 = Word - 0
    BY Numbers, DivModUnique
  <2> QED BY <2>1
<1> QED BY <1>1, <1>3, <1>4 DEF PadOf

(* What a send of b does to what is on the sockets.                        *)
LEMMA SendOnWire ==
  ASSUME SenderType, InTurn, NEW t, WireInv(t), NEW b \in Bytes, SendNeed(b),
         UNCHANGED <<setup, iRcv>>,
         setup.sockets > 1 =>
           /\ setup.missing = 0 => needSend' % Block = 0
           /\ \/ b = <<>> /\ ~Open'
              \/ Open /\ Len(b) = Block
              \/ Open /\ Len(b) < 2 * Block /\ ~Open'
  PROVE  WireInv(t)'
<1>1. /\ wire' = [wire EXCEPT ![iSend] = wire[iSend] \o b]
      /\ sent' = sent \o b /\ iSend' = Turn(iSend)
  BY DEF SendNeed
<1>2. /\ sent \in Bytes /\ wire \in [Socket -> Bytes] /\ iSend \in Socket
      /\ iRcv \in Socket
  BY DEF SenderType
<1>3. Joins(sent', sent, Len(sent), b, Len(b))
  BY <1>1, <1>2, Joined
<1>4. Joins(wire'[iSend], wire[iSend], Len(wire[iSend]), b, Len(b))
  BY <1>1, <1>2, Joined
<1>5. Len(sent) \in Nat /\ Len(b) \in Nat /\ \A j \in Socket : Len(wire[j]) \in Nat
  BY <1>2 DEF Bytes
<1>6. t \in 0 .. Len(sent')
  BY <1>3, <1>5 DEF Joins, WireInv
<1>7. CASE setup.sockets = 1
  <2>1. 0 \in Socket /\ iSend = 0
    BY <1>2, <1>7 DEF Socket
  <2>2. /\ Len(wire[0]) = Len(sent) - t
        /\ \A i \in 1 .. Len(wire[0]) : wire[0][i] = sent[t + i]
        /\ t \in 0 .. Len(sent)
    BY <1>7 DEF WireInv
  <2>3. Len(wire'[0]) = Len(sent') - t
    BY <1>3, <1>4, <1>5, <2>1, <2>2 DEF Joins
  <2>4. ASSUME NEW i \in 1 .. Len(wire'[0]) PROVE wire'[0][i] = sent'[t + i]
    <3>1. CASE i <= Len(wire[0])
      <4>1. wire'[0][i] = wire[0][i] /\ wire[0][i] = sent[t + i]
        <5>1. i \in 1 .. Len(wire[0])
          BY <1>5, <2>1, <2>3, <3>1, <2>4
        <5>2. wire'[0][i] = wire[0][i]
          BY <1>4, <2>1, <5>1 DEF Joins
        <5> QED BY <2>2, <5>1, <5>2
      <4>2. t + i \in 1 .. Len(sent)
        BY <1>5, <2>1, <2>2, <3>1
      <4> QED BY <1>3, <4>1, <4>2 DEF Joins
    <3>2. CASE ~(i <= Len(wire[0]))
      <4>1. PICK d \in 1 .. Len(b) : i = Len(wire[0]) + d
        <5>1. i <= Len(wire[0]) + Len(b) /\ i \in Nat /\ Len(wire[0]) \in Nat
          BY <1>4, <1>5, <2>1 DEF Joins
        <5>2. i - Len(wire[0]) \in 1 .. Len(b)
          BY <1>5, <3>2, <5>1
        <5>3. i = Len(wire[0]) + (i - Len(wire[0]))
          BY <5>1
        <5> QED BY <5>2, <5>3
      <4>2. wire'[0][i] = b[d]
        BY <1>4, <2>1, <4>1 DEF Joins
      <4>3. t + i = Len(sent) + d
        BY <1>5, <2>1, <2>2, <4>1
      <4> QED BY <1>3, <4>2, <4>3 DEF Joins
    <3> QED BY <3>1, <3>2
  <2> QED BY <1>6, <1>7, <2>3, <2>4 DEF WireInv
<1>8. CASE setup.sockets > 1
  <2> DEFINE N == setup.sockets
             B == setup.bufSize
  <2>1. N \in Nat \ {0} /\ B \in Nat \ {0}
    BY Fields
  <2>2. PICK R \in Nat : R = N * B
    BY <2>1
  <2>3. PICK nx \in [Socket -> Nat] : \A j \in Socket : nx[j] = Next1(t, j)
    <3>1. \A j \in Socket : Next1(t, j) \in Nat
      <4> SUFFICES ASSUME NEW j \in Socket PROVE Next1(t, j) \in Nat
        OBVIOUS
      <4>1. Turns(iRcv, j) \in Nat
        <5>1. Turns(iRcv, j) \in 0 .. setup.sockets - 1
          BY <1>2, TurnsIs
        <5> QED BY <2>1, <5>1
      <4>2. Turns(iRcv, j) * B \in Nat
        BY <2>1, <4>1
      <4>3. t \in Nat
        BY <1>5 DEF WireInv
      <4> QED BY <4>2, <4>3 DEF Next1, Block
    <3>2. [j \in Socket |-> Next1(t, j)] \in [Socket -> Nat]
      BY <3>1
    <3> QED BY <3>2
  <2>4. \A j \in Socket : nx[j] = Next1(t, j)'
    BY <2>3 DEF Next1, Turns, Block
  <2>5. \A j \in Socket : wire'[j] = IF j = iSend THEN wire[j] \o b ELSE wire[j]
    BY <1>1, <1>2
  <2>6. \A i \in 1 .. Len(sent) : sent'[i] = sent[i]
    BY <1>3 DEF Joins
  <2>7. Len(sent') = Len(sent) + Len(b)
    BY <1>3 DEF Joins
  <2> HIDE DEF N, B
  <2>8. ASSUME NEW j \in Socket, NEW c \in Nat, PathInv(t, j, c)
        PROVE  \E e \in Nat : PathInv(t, j, e)'
    <3> DEFINE Holds(w, z, x, n) ==
          \A k \in 0 .. n - 1 : \A r \in 1 .. B :
            x + k * R + r <= Len(z) /\ w[k * B + r] = z[x + k * R + r]
    <3>1. PICK x \in Nat : x = nx[j]
      BY <2>3
    <3>2. /\ c * B <= Len(wire[j]) /\ Len(wire[j]) < (c + 1) * B
          /\ Holds(wire[j], sent, x, c)
          /\ Open => /\ Len(wire[j]) = c * B
                     /\ x + c * R = Len(sent) + Turns(iSend, j) * B
      BY <2>2, <2>3, <2>8, <3>1 DEF PathInv, Round, Block, B, N
    <3>3. ASSUME NEW e \in Nat,
                 e * B <= Len(wire'[j]) /\ Len(wire'[j]) < (e + 1) * B,
                 Holds(wire'[j], sent', x, e),
                 Open' => /\ Len(wire'[j]) = e * B
                          /\ x + e * R = Len(sent') + Turns(iSend', j) * B
          PROVE  PathInv(t, j, e)'
      <4>1. (Turns(iSend, j))' = Turns(iSend', j)
        BY DEF Turns
      <4> QED BY <2>2, <2>3, <2>4, <3>1, <3>3, <4>1 DEF PathInv, Round, Block, B, N
    <3>4. PICK cB \in Nat : cB = c * B
      BY <2>1
    <3>5. (c + 1) * B = cB + B /\ Len(wire[j]) \in Nat /\ Len(sent) \in Nat
      BY <1>5, <2>1, <3>4
    <3>6. ASSUME NEW k \in 0 .. c - 1, NEW r \in 1 .. B
          PROVE  /\ k * B + r \in 1 .. cB
                 /\ x + k * R + r \in Nat /\ x + k * R + r # 0
      <4>1. PICK kB \in Nat : kB = k * B
        BY <2>1
      <4>2. PICK lB \in Nat : lB = (c - 1 - k) * B
        BY <2>1
      <4>3. kB + B + lB = cB
        BY <2>1, <3>4, <4>1, <4>2
      <4>4. PICK kR \in Nat : kR = k * R
        BY <2>2
      <4> QED BY <2>1, <4>1, <4>2, <4>3, <4>4
    <3>7. ASSUME \A i \in 1 .. cB : wire'[j][i] = wire[j][i]
          PROVE  Holds(wire'[j], sent', x, c)
      <4> SUFFICES ASSUME NEW k \in 0 .. c - 1, NEW r \in 1 .. B
                   PROVE  /\ x + k * R + r <= Len(sent')
                          /\ wire'[j][k * B + r] = sent'[x + k * R + r]
        OBVIOUS
      <4>1. PICK i \in Nat : i = x + k * R + r /\ i # 0
        BY <3>6
      <4>2. i <= Len(sent) /\ wire[j][k * B + r] = sent[i]
        BY <3>2, <4>1
      <4>3. i \in 1 .. Len(sent) /\ i <= Len(sent')
        BY <1>5, <2>7, <4>1, <4>2
      <4>4. wire'[j][k * B + r] = wire[j][k * B + r]
        BY <3>6, <3>7
      <4> QED BY <2>6, <4>1, <4>2, <4>3, <4>4
    <3>8. CASE j # iSend
      <4>1. wire'[j] = wire[j]
        BY <2>5, <3>8
      <4>2. Holds(wire'[j], sent', x, c)
        BY <3>7, <4>1
      <4>3. ASSUME Open'
            PROVE  /\ Len(wire'[j]) = c * B
                   /\ x + c * R = Len(sent') + Turns(iSend', j) * B
        <5>1. Open /\ Len(b) = B
          BY <1>8, <4>3 DEF Block, B
        <5>2. PICK m \in Nat : m = Turns(iSend', j) /\ Turns(iSend, j) = m + 1
          <6>1. /\ Turns(iSend, j) \in 0 .. setup.sockets - 1
                /\ Turns(iSend', j) = Turns(iSend, j) - 1
                /\ iSend' \in Socket
            BY <1>1, <1>2, <3>8, TurnsIs
          <6>2. Turns(iSend', j) \in 0 .. setup.sockets - 1
            BY <6>1, TurnsIs
          <6> QED BY <6>1, <6>2, Fields
        <5>3. (m + 1) * B = m * B + B /\ m * B \in Nat
          BY <2>1
        <5> QED BY <2>1, <2>7, <3>2, <3>5, <4>1, <5>1, <5>2, <5>3
      <4> HIDE DEF Holds
      <4> QED BY <3>2, <3>3, <4>1, <4>2, <4>3
    <3>9. CASE j = iSend
      <4>1. /\ Len(wire'[j]) = Len(wire[j]) + Len(b)
            /\ \A i \in 1 .. Len(wire[j]) : wire'[j][i] = wire[j][i]
            /\ \A i \in 1 .. Len(b) : wire'[j][Len(wire[j]) + i] = b[i]
        BY <1>4, <3>9 DEF Joins
      <4>2. Holds(wire'[j], sent', x, c)
        <5>1. \A i \in 1 .. cB : i \in 1 .. Len(wire[j])
          BY <3>2, <3>4, <3>5
        <5> HIDE DEF Holds
        <5> QED BY <3>7, <4>1, <5>1
      <4>3. CASE Len(b) < B /\ ~Open'
        <5>1. b = <<>> \/ Len(wire[j]) = cB
          BY <1>8, <3>2, <3>4, <4>3 DEF Block, B
        <5>2. b = <<>> => Len(b) = 0
          OBVIOUS
        <5>3. c * B <= Len(wire'[j]) /\ Len(wire'[j]) < (c + 1) * B
          BY <1>5, <2>1, <3>2, <3>4, <3>5, <4>1, <4>3, <5>1, <5>2
        <5> HIDE DEF Holds
        <5> QED BY <3>3, <4>2, <4>3, <5>3
      <4>4. CASE Len(b) >= B
        <5>1. /\ Open /\ Len(b) < 2 * B /\ (Open' => Len(b) = B)
              /\ Len(wire[j]) = cB
          <6>1. b # <<>>
            BY <2>1, <4>4
          <6> QED BY <1>8, <2>1, <3>2, <3>4, <4>4, <6>1 DEF Block, B
        <5>2. x + c * R = Len(sent)
          <6>1. Turns(iSend, j) * B = 0
            BY <1>2, <2>1, <3>9, TurnsIs
          <6> QED BY <3>2, <3>5, <5>1, <6>1
        <5>3. ((c + 1) + 1) * B = cB + B + B /\ (c + 1) * R = c * R + R
          BY <2>1, <2>2, <3>4
        <5>4. (c + 1) * B <= Len(wire'[j]) /\ Len(wire'[j]) < ((c + 1) + 1) * B
          BY <1>5, <2>1, <3>5, <4>1, <4>4, <5>1, <5>3
        <5>5. Holds(wire'[j], sent', x, c + 1)
          <6> SUFFICES ASSUME NEW k \in 0 .. (c + 1) - 1, NEW r \in 1 .. B
                       PROVE  /\ x + k * R + r <= Len(sent')
                              /\ wire'[j][k * B + r] = sent'[x + k * R + r]
            OBVIOUS
          <6>1. CASE k \in 0 .. c - 1
            BY <4>2, <6>1
          <6>2. CASE k = c
            <7>1. k * B + r = Len(wire[j]) + r /\ x + k * R + r = Len(sent) + r
              BY <3>4, <5>1, <5>2, <6>2
            <7>2. r \in 1 .. Len(b)
              BY <1>5, <2>1, <4>4
            <7>3. wire'[j][Len(wire[j]) + r] = b[r]
              BY <4>1, <7>2
            <7>4. sent'[Len(sent) + r] = b[r]
              BY <1>3, <7>2 DEF Joins
            <7>5. Len(sent) + r <= Len(sent')
              BY <1>5, <2>7, <7>2
            <7> QED BY <7>1, <7>3, <7>4, <7>5
          <6> QED BY <6>1, <6>2
        <5>6. ASSUME Open'
              PROVE  /\ Len(wire'[j]) = (c + 1) * B
                     /\ x + (c + 1) * R = Len(sent') + Turns(iSend', j) * B
          <6>1. Len(b) = B
            BY <5>1, <5>6
          <6>2. PICK m \in Nat : m = Turns(iSend', j) /\ N = m + 1
            <7>1. Turns(iSend', j) = setup.sockets - 1
              BY <1>1, <1>2, <3>9, TurnsIs
            <7> QED BY <2>1, <7>1 DEF N
          <6>3. R = m * B + B /\ m * B \in Nat
            BY <2>1, <2>2, <6>2
          <6>4. PICK cR \in Nat : cR = c * R
            BY <2>2
          <6>5. Len(wire'[j]) = (c + 1) * B
            BY <3>5, <4>1, <5>1, <6>1
          <6>6. x + (c + 1) * R = Len(sent) + R
            BY <5>2, <5>3, <6>4
          <6>7. Len(sent') + m * B = Len(sent) + R
            BY <2>1, <2>2, <2>7, <3>5, <6>1, <6>3
          <6> QED BY <6>2, <6>5, <6>6, <6>7
        <5> HIDE DEF Holds
        <5> QED BY <3>3, <5>4, <5>5, <5>6
      <4>5. Len(b) < B => ~Open'
        <5>1. b = <<>> => Len(b) = 0
          OBVIOUS
        <5> QED BY <1>5, <1>8, <2>1 DEF Block, B
      <4> QED BY <1>5, <2>1, <4>3, <4>4, <4>5
    <3> QED BY <3>8, <3>9
  <2> QED
    BY <1>6, <1>8, <2>8 DEF WireInv, Socket, Block
<1> QED BY <1>7, <1>8, Fields

(* A call of receive() takes what comes next in the order it was sent.     *)
LEMMA ReceiveOnWire ==
  ASSUME SenderType, InTurn, NEW t, WireInv(t), ReceiveBlock
  PROVE  /\ t + Block \in 0 .. Len(sent)
         /\ \A i \in 1 .. Block : wire[iRcv][i] = sent[t + i]
         /\ WireInv(t + Block)'
<1>1. /\ Len(wire[iRcv]) >= setup.bufSize
      /\ wire' = [wire EXCEPT ![iRcv] =
                    SubSeq(wire[iRcv], setup.bufSize + 1, Len(wire[iRcv]))]
      /\ iRcv' = Turn(iRcv)
      /\ UNCHANGED <<setup, sent, iSend, sendPc, needSend>>
  BY DEF ReceiveBlock, sender
<1>2. /\ sent \in Bytes /\ wire \in [Socket -> Bytes] /\ iSend \in Socket
      /\ iRcv \in Socket
  BY DEF SenderType
<1>3. Len(sent) \in Nat /\ \A j \in Socket : Len(wire[j]) \in Nat
  BY <1>2 DEF Bytes
<1>4. Block \in Nat \ {0} /\ Block = setup.bufSize
  BY Fields DEF Block
<1>5. /\ Len(wire'[iRcv]) = Len(wire[iRcv]) - Block
      /\ \A i \in 1 .. Len(wire[iRcv]) - Block :
           wire'[iRcv][i] = wire[iRcv][Block + i]
  <2>1. PICK w \in Seq(Nat) : w = wire[iRcv]
    BY <1>2 DEF Bytes
  <2>2. /\ Len(SubSeq(w, Block + 1, Len(w))) = Len(w) - Block
        /\ \A i \in 1 .. Len(w) - Block :
             SubSeq(w, Block + 1, Len(w))[i] = w[Block + i]
    <3>1. Len(w) \in Nat /\ Len(w) >= Block
      BY <1>1, <1>4, <2>1
    <3>2. \A i \in Block + 1 .. Len(w) : w[i] \in Nat
      BY <1>4, <2>1, <3>1
    <3>3. PICK m \in Nat : m = Block + 1
      BY <1>4
    <3>4. PICK n \in Nat : n = Len(w)
      BY <3>1
    <3>5. \A i \in m .. n : w[i] \in Nat
      BY <3>2, <3>3, <3>4
    <3>6. /\ Len(SubSeq(w, m, n)) = IF m <= n THEN n - m + 1 ELSE 0
          /\ \A i \in 1 .. n - m + 1 : SubSeq(w, m, n)[i] = w[m + i - 1]
      BY <3>5, SubSeqProperties
    <3>7. n - m + 1 = n - Block /\ \A i \in 1 .. n - Block : m + i - 1 = Block + i
      <4>1. PICK b \in Nat : b = Block
        BY <1>4
      <4>2. m = b + 1
        BY <3>3, <4>1
      <4>3. n - m + 1 = n - b /\ \A i \in 1 .. n - b : m + i - 1 = b + i
        BY <4>2
      <4> QED BY <4>1, <4>3
    <3>8. n >= Block
      BY <3>1, <3>4
    <3>9. Len(SubSeq(w, m, n)) = n - Block
      BY <1>4, <3>3, <3>4, <3>6, <3>7, <3>8
    <3>10. \A i \in 1 .. n - Block : SubSeq(w, m, n)[i] = w[Block + i]
      BY <3>6, <3>7
    <3> QED BY <3>3, <3>4, <3>9, <3>10
  <2> QED BY <1>1, <1>2, <1>4, <2>1, <2>2
<1>6. \A j \in Socket : j # iRcv => wire'[j] = wire[j]
  BY <1>1, <1>2
<1>7. t \in 0 .. Len(sent)
  BY DEF WireInv
<1>8. Open' = Open
  BY <1>1 DEF Open
<1>9. CASE setup.sockets = 1
  <2>1. 0 \in Socket /\ iRcv = 0
    BY <1>2, <1>9 DEF Socket
  <2>2. /\ Len(wire[0]) = Len(sent) - t
        /\ \A i \in 1 .. Len(wire[0]) : wire[0][i] = sent[t + i]
    BY <1>9 DEF WireInv
  <2>3. t + Block \in 0 .. Len(sent)
    BY <1>1, <1>3, <1>4, <1>7, <2>1, <2>2
  <2>4. \A i \in 1 .. Block : wire[iRcv][i] = sent[t + i]
    BY <1>1, <1>3, <1>4, <2>1, <2>2
  <2>5. Len(wire'[0]) = Len(sent) - (t + Block)
    BY <1>3, <1>4, <1>5, <1>7, <2>1, <2>2
  <2>6. ASSUME NEW i \in 1 .. Len(wire'[0])
        PROVE  wire'[0][i] = sent[(t + Block) + i]
    <3>1. Block + i \in 1 .. Len(wire[0]) /\ t + (Block + i) = (t + Block) + i
      BY <1>3, <1>4, <1>5, <1>7, <2>1, SMTT(30)
    <3>2. wire'[0][i] = wire[0][Block + i]
      BY <1>3, <1>4, <1>5, <2>1
    <3> QED BY <2>2, <3>1, <3>2
  <2>7. ~(setup.sockets > 1) /\ setup' = setup /\ sent' = sent
    BY <1>1, <1>9
  <2>8. (t + Block)' = t + Block
    BY <2>7 DEF Block
  <2>9. PICK u : u = t + Block
    OBVIOUS
  <2>10. WireInv(u)'
    BY <2>3, <2>5, <2>6, <2>7, <2>9 DEF WireInv
  <2> QED BY <2>3, <2>4, <2>8, <2>9, <2>10
<1>10. CASE setup.sockets > 1
  <2> DEFINE N == setup.sockets
             B == Block
  <2>1. N \in Nat \ {0} /\ B \in Nat \ {0}
    BY Fields, <1>4
  <2>2. PICK R \in Nat : R = N * B
    BY <2>1
  <2>3. \A j \in Socket :
          (Next1(t + B, j))' = IF j = iRcv THEN Next1(t, j) + R ELSE Next1(t, j)
    <3> SUFFICES ASSUME NEW j \in Socket
                 PROVE  (Next1(t + B, j))' =
                          IF j = iRcv THEN Next1(t, j) + R ELSE Next1(t, j)
      OBVIOUS
    <3>1. (Next1(t + B, j))' = t + B + Turns(Turn(iRcv), j) * B
      BY <1>1 DEF Next1, Turns, Block
    <3>2. Next1(t, j) = t + Turns(iRcv, j) * B
      BY DEF Next1
    <3>3. CASE j = iRcv
      <4>1. Turns(iRcv, j) = 0 /\ Turns(Turn(iRcv), j) = N - 1
        BY <1>2, <3>3, TurnsIs
      <4>2. (N - 1) * B = R - B /\ 0 * B = 0
        BY <2>1, <2>2
      <4> QED BY <1>7, <2>1, <2>2, <3>1, <3>2, <3>3, <4>1, <4>2
    <3>4. CASE j # iRcv
      <4>1. PICK m \in Nat : m = Turns(Turn(iRcv), j) /\ Turns(iRcv, j) = m + 1
        <5>1. /\ Turns(iRcv, j) \in 0 .. setup.sockets - 1
              /\ Turns(Turn(iRcv), j) = Turns(iRcv, j) - 1
              /\ Turn(iRcv) \in Socket
          BY <1>2, <3>4, TurnsIs
        <5>2. Turns(Turn(iRcv), j) \in 0 .. setup.sockets - 1
          BY <5>1, TurnsIs
        <5> QED BY <5>1, <5>2, Fields
      <4>2. (m + 1) * B = m * B + B /\ m * B \in Nat
        BY <2>1
      <4> QED BY <1>7, <2>1, <3>1, <3>2, <3>4, <4>1, <4>2
    <3> QED BY <3>3, <3>4
  <2>4. \A j \in Socket : Next1(t, j) \in Nat
    <3> SUFFICES ASSUME NEW j \in Socket PROVE Next1(t, j) \in Nat
      OBVIOUS
    <3>1. PICK m \in Nat : m = Turns(iRcv, j)
      <4>1. Turns(iRcv, j) \in 0 .. setup.sockets - 1
        BY <1>2, TurnsIs
      <4> QED BY <4>1, Fields
    <3>2. m * B \in Nat
      BY <2>1
    <3> QED BY <1>3, <1>7, <3>1, <3>2 DEF Next1
  <2>5. Next1(t, iRcv) = t
    <3>1. Turns(iRcv, iRcv) = 0 /\ 0 * B = 0
      BY <1>2, <2>1, TurnsIs
    <3> QED BY <1>3, <1>7, <3>1 DEF Next1
  <2> HIDE DEF N, B
  <2>6. PICK c0 \in Nat : PathInv(t, iRcv, c0)
    BY <1>2, <1>10 DEF WireInv
  <2>7. c0 # 0
    <3>1. ASSUME c0 = 0 PROVE FALSE
      <4>1. (c0 + 1) * Block = Block
        <5>1. PICK b \in Nat : b = Block
          BY <1>4
        <5>2. (0 + 1) * b = b
          OBVIOUS
        <5> QED BY <3>1, <5>1, <5>2
      <4> QED BY <1>1, <1>2, <1>3, <1>4, <2>6, <4>1 DEF PathInv
    <3> QED BY <3>1
  <2>8. \A i \in 1 .. Block : t + i <= Len(sent) /\ wire[iRcv][i] = sent[t + i]
    <3>1. 0 \in 0 .. c0 - 1 /\ 0 * Block = 0 /\ 0 * Round = 0
      BY <1>4, <2>1, <2>2, <2>7 DEF Round, B, N, Block
    <3>2. \A r \in 1 .. Block :
            /\ Next1(t, iRcv) + 0 * Round + r <= Len(sent)
            /\ wire[iRcv][0 * Block + r] = sent[Next1(t, iRcv) + 0 * Round + r]
      BY <2>6, <3>1 DEF PathInv
    <3> QED BY <1>3, <1>4, <1>7, <2>5, <3>1, <3>2
  <2>9. t + Block \in 0 .. Len(sent)
    BY <1>3, <1>4, <1>7, <2>8
  <2>10. ASSUME NEW j \in Socket PROVE \E c \in Nat : PathInv(t + Block, j, c)'
    <3>1. PICK c \in Nat : PathInv(t, j, c)
      BY <1>10 DEF WireInv
    <3>2. PICK x \in Nat : x = Next1(t, j)
      BY <2>4
    <3> DEFINE Holds(w, y, n) ==
          \A k \in 0 .. n - 1 : \A r \in 1 .. B :
            y + k * R + r <= Len(sent) /\ w[k * B + r] = sent[y + k * R + r]
    <3>3. /\ c * B <= Len(wire[j]) /\ Len(wire[j]) < (c + 1) * B
          /\ Holds(wire[j], x, c)
          /\ Open => /\ Len(wire[j]) = c * B
                     /\ x + c * R = Len(sent) + Turns(iSend, j) * B
      BY <2>2, <3>1, <3>2 DEF PathInv, Round, Block, B, N
    <3>4. ASSUME NEW e \in Nat, NEW y, y = (Next1(t + B, j))',
                 e * B <= Len(wire'[j]) /\ Len(wire'[j]) < (e + 1) * B,
                 Holds(wire'[j], y, e),
                 Open => /\ Len(wire'[j]) = e * B
                         /\ y + e * R = Len(sent) + Turns(iSend, j) * B
          PROVE  PathInv(t + Block, j, e)'
      <4>1. (Turns(iSend, j))' = Turns(iSend, j)
        BY <1>1 DEF Turns
      <4> QED BY <1>1, <1>8, <2>2, <3>4, <4>1 DEF PathInv, Round, Block, B, N
    <3>5. CASE j # iRcv
      <4>1. wire'[j] = wire[j] /\ x = (Next1(t + B, j))'
        BY <1>6, <2>3, <3>2, <3>5
      <4> HIDE DEF Holds
      <4> QED BY <3>3, <3>4, <4>1
    <3>6. CASE j = iRcv
      <4>1. c # 0
        <5>1. ASSUME c = 0 PROVE FALSE
          <6>1. (c + 1) * B = B
            <7>1. PICK b \in Nat : b = B
              BY <2>1
            <7>2. (0 + 1) * b = b
              OBVIOUS
            <7> QED BY <5>1, <7>1, <7>2
          <6>2. Len(wire[j]) \in Nat /\ Len(wire[j]) >= B
            BY <1>1, <1>3, <1>4, <3>6 DEF B
          <6>3. Len(wire[j]) < B
            BY <3>3, <6>1
          <6> QED BY <2>1, <6>2, <6>3
        <5> QED BY <5>1
      <4>2. PICK e \in Nat : c = e + 1
        BY <4>1
      <4>3. PICK y \in Nat : y = x + R /\ y = (Next1(t + B, j))'
        BY <2>3, <3>2, <3>6
      <4>4. c * B = e * B + B /\ (c + 1) * B = (e + 1) * B + B
            /\ c * R = e * R + R /\ e * B \in Nat /\ e * R \in Nat
        BY <2>1, <2>2, <4>2
      <4>5. e * B <= Len(wire'[j]) /\ Len(wire'[j]) < (e + 1) * B
        <5>1. PICK eB \in Nat : eB = e * B
          BY <4>4
        <5>2. PICK eB1 \in Nat : eB1 = (e + 1) * B
          BY <2>1
        <5>3. eB + B <= Len(wire[j]) /\ Len(wire[j]) < eB1 + B
          BY <3>3, <4>4, <5>1, <5>2
        <5>4. Len(wire'[j]) = Len(wire[j]) - B /\ Len(wire[j]) \in Nat
          BY <1>3, <1>5, <3>6 DEF B
        <5> QED BY <2>1, <5>1, <5>2, <5>3, <5>4
      <4>6. Holds(wire'[j], y, e)
        <5> SUFFICES ASSUME NEW k \in 0 .. e - 1, NEW r \in 1 .. B
                     PROVE  /\ y + k * R + r <= Len(sent)
                            /\ wire'[j][k * B + r] = sent[y + k * R + r]
          OBVIOUS
        <5>1. PICK kB \in Nat : kB = k * B
          BY <2>1
        <5>2. PICK kR \in Nat : kR = k * R
          BY <2>2
        <5>3. (k + 1) * B = kB + B /\ (k + 1) * R = kR + R
          BY <2>1, <2>2, <5>1, <5>2
        <5>4. k + 1 \in 0 .. c - 1
          BY <4>2
        <5>5. /\ x + (k + 1) * R + r <= Len(sent)
              /\ wire[j][(k + 1) * B + r] = sent[x + (k + 1) * R + r]
          BY <3>3, <5>4
        <5>6. x + (k + 1) * R + r = y + k * R + r
          BY <2>2, <4>3, <5>2, <5>3
        <5>7. (k + 1) * B + r = B + (k * B + r)
          BY <2>1, <5>1, <5>3
        <5>8. k * B + r \in 1 .. Len(wire[j]) - B
          <6>1. PICK lB \in Nat : lB = (e - 1 - k) * B
            BY <2>1
          <6>2. kB + B + lB = e * B
            BY <2>1, <5>1, <6>1
          <6> QED BY <1>3, <2>1, <3>3, <4>4, <5>1, <6>1, <6>2
        <5>9. wire'[j][k * B + r] = wire[j][B + (k * B + r)]
          BY <1>5, <3>6, <5>8 DEF B
        <5> QED BY <5>5, <5>6, <5>7, <5>9
      <4>7. Open => /\ Len(wire'[j]) = e * B
                    /\ y + e * R = Len(sent) + Turns(iSend, j) * B
        <5>1. PICK eB \in Nat : eB = e * B
          BY <4>4
        <5>2. PICK eR \in Nat : eR = e * R
          BY <4>4
        <5>3. Open => /\ Len(wire[j]) = eB + B
                      /\ x + (eR + R) = Len(sent) + Turns(iSend, j) * B
          BY <3>3, <4>4, <5>1, <5>2
        <5>4. Len(wire'[j]) = Len(wire[j]) - B /\ Len(wire[j]) \in Nat
          BY <1>3, <1>5, <3>6 DEF B
        <5>5. y + eR = x + (eR + R)
          BY <2>2, <3>2, <4>3, <5>2
        <5> QED BY <2>1, <5>1, <5>2, <5>3, <5>4, <5>5
      <4> HIDE DEF Holds
      <4> QED BY <3>4, <4>3, <4>5, <4>6, <4>7
    <3> QED BY <3>5, <3>6
  <2>11. setup.missing = 0 => needSend % Block = 0
    BY <1>10 DEF WireInv
  <2> QED
    BY <1>1, <1>10, <2>8, <2>9, <2>10, <2>11 DEF WireInv, Socket, Block
<1> QED BY <1>9, <1>10, Fields

-----------------------------------------------------------------------------
(* Nothing but the setup decides what the messages and the files are.      *)
LEMMA Same ==
  ASSUME setup' = setup
  PROVE  /\ Contents' = Contents /\ Messages' = Messages /\ Socket' = Socket
         /\ MessageLen' = MessageLen /\ Total' = Total /\ Header' = Header
         /\ InTurn' = InTurn /\ Large' = Large /\ Block' = Block
         /\ Round' = Round
<1>1. Header' = Header /\ \A f : Content(f)' = Content(f)
  BY DEF Header, Content
<1>2. \A f : Message(f)' = Message(f)
  BY <1>1 DEF Message
<1>3. Contents' = Contents /\ Messages' = Messages
  BY <1>1, <1>2 DEF Contents, Messages
<1>4. /\ Socket' = Socket /\ MessageLen' = MessageLen /\ Total' = Total
      /\ InTurn' = InTurn /\ Large' = Large /\ Block' = Block
      /\ Round' = Round
  BY DEF Socket, MessageLen, Total, InTurn, Large, Block, Round
<1> QED BY <1>1, <1>3, <1>4

(* The header, byte by byte.                                               *)
LEMMA HeaderIs ==
  ASSUME SenderType
  PROVE  /\ Header \in Bytes /\ Len(Header) = 2 * Word
         /\ \A o \in 1 .. Word : /\ Header[o] = ToWord(setup.size)[o]
                                 /\ Header[Word + o] = ToWord(DataTag)[o]
<1>1. /\ ToWord(setup.size) \in Bytes /\ Len(ToWord(setup.size)) = Word
      /\ ToWord(DataTag) \in Bytes /\ Len(ToWord(DataTag)) = Word
  BY Fields, BytesOf DEF DataTag
<1>2. Joins(Header, ToWord(setup.size), Word, ToWord(DataTag), Word)
  <2> DEFINE a == ToWord(setup.size)
             b == ToWord(DataTag)
  <2>1. a \in Bytes /\ b \in Bytes /\ Len(a) = Word /\ Len(b) = Word
    BY <1>1
  <2> HIDE DEF a, b
  <2>2. Joins(a \o b, a, Len(a), b, Len(b))
    BY <2>1, Joined
  <2> QED BY <2>1, <2>2 DEF Header, a, b
<1> QED BY <1>2, Numbers DEF Joins

(* What a send does to the stream.                                         *)
LEMMA SendIs ==
  ASSUME SenderType, UNCHANGED setup, NEW b \in Bytes, SendNeed(b)
  PROVE  /\ wire' \in [Socket -> Bytes] /\ sent' \in Bytes /\ iSend' \in Socket
         /\ Len(sent) \in Nat /\ Len(b) \in Nat
         /\ Joins(sent', sent, Len(sent), b, Len(b))
         /\ error' = error /\ ~error
<1>1. /\ wire' = [wire EXCEPT ![iSend] = wire[iSend] \o b]
      /\ sent' = sent \o b /\ iSend' = Turn(iSend) /\ error' = error /\ ~error
  BY DEF SendNeed
<1>2. /\ sent \in Bytes /\ wire \in [Socket -> Bytes] /\ iSend \in Socket
  BY DEF SenderType
<1>3. sent' \in Bytes /\ wire[iSend] \o b \in Bytes
  BY <1>1, <1>2 DEF Bytes
<1>4. Turn(iSend) \in Socket
  BY <1>2, TurnsIs
<1>5. Joins(sent', sent, Len(sent), b, Len(b))
  BY <1>1, <1>2, Joined
<1> QED BY <1>1, <1>2, <1>3, <1>4, <1>5 DEF Bytes

(* The stream stays right when what is sent is what comes next in it.      *)
LEMMA SentMore ==
  ASSUME SenderType, StreamInv, UNCHANGED setup, NEW b \in Bytes, SendNeed(b),
         sendPc # "closed", sendPc' # "closed", Len(sent) + Len(b) <= Total,
         \A i \in 1 .. Len(b) : b[i] = Messages[Len(sent) + i]
  PROVE  StreamInv'
<1>1. Messages' = Messages /\ Total' = Total
  BY Same
<1>2. /\ Len(sent) \in Nat /\ Len(b) \in Nat
      /\ Joins(sent', sent, Len(sent), b, Len(b))
  BY SendIs
<1>3. Total \in Nat
  BY FromIs
<1>4. ASSUME NEW i \in 1 .. Len(sent') PROVE sent'[i] = Messages[i]
  <2>1. CASE i <= Len(sent)
    <3>1. i \in 1 .. Len(sent) /\ i <= Total
      BY <1>2, <1>3, <2>1
    <3> QED BY <1>2, <3>1 DEF Joins, StreamInv
  <2>2. CASE i > Len(sent)
    <3>1. Len(sent') = Len(sent) + Len(b)
      BY <1>2 DEF Joins
    <3>2. i - Len(sent) \in 1 .. Len(b) /\ Len(sent) + (i - Len(sent)) = i
      BY <1>2, <2>2, <3>1
    <3> QED BY <1>2, <3>2 DEF Joins
  <2> QED BY <1>2, <2>1, <2>2 DEF Joins
<1>5. Len(sent') <= Total
  BY <1>2 DEF Joins
<1> QED BY <1>1, <1>4, <1>5 DEF StreamInv

(* Nothing is sent, and the sender is no more open than it was.            *)
LEMMA WireKept ==
  ASSUME SenderType, NEW t, WireInv(t),
         UNCHANGED <<setup, iRcv, wire, sent, iSend>>, Open' => Open,
         setup.sockets > 1 => (setup.missing = 0 => needSend' % Block = 0)
  PROVE  WireInv(t)'
<1>1. CASE setup.sockets = 1
  BY <1>1 DEF WireInv
<1>2. CASE setup.sockets > 1
  <2>1. ASSUME NEW j \in Socket, NEW c \in Nat, PathInv(t, j, c)
        PROVE  PathInv(t, j, c)'
    BY <2>1 DEF PathInv, Next1, Turns, Block, Round
  <2>2. \A j \in Socket' : \E c \in Nat : PathInv(t, j, c)'
    BY <1>2, <2>1 DEF WireInv, Socket
  <2>3. t \in 0 .. Len(sent')
    BY DEF WireInv
  <2> QED BY <1>2, <2>2, <2>3 DEF WireInv, Block
<1> QED BY <1>1, <1>2, Fields

(* What the receiver has is no concern of the sender, as long as what was  *)
(* sent stays what it was.                                                 *)
LEMMA ReceiverKept ==
  ASSUME SenderType, ReceiverInv, UNCHANGED <<setup, receiver>>,
         error => error', Len(sent) <= Len(sent'), Len(sent') \in Nat,
         \A i \in 1 .. Len(sent) : sent'[i] = sent[i],
         sendPc = "closed" => sendPc' = sendPc /\ sent' = sent,
         \A t : InTurn /\ WireInv(t) => WireInv(t)'
  PROVE  ReceiverInv'
<1> SUFFICES ASSUME InTurn PROVE ReceiverInv'
  BY Same DEF ReceiverInv
<1>1. /\ rcvPc' = rcvPc /\ inBlock' = inBlock /\ rcvStatus' = rcvStatus
      /\ dataSize' = dataSize /\ needRcv' = needRcv /\ stay' = stay
      /\ buffer' = buffer /\ chunk' = chunk /\ iRcv' = iRcv /\ got' = got
      /\ setup' = setup
  BY DEF receiver
<1>2. PICK t \in 0 .. Len(sent), m \in 1 .. Files + 1 : WireInv(t) /\ Place(t, m)
  BY DEF ReceiverInv
<1>3. Len(sent) \in Nat /\ t \in 0 .. Len(sent')
  BY <1>2 DEF SenderType, Bytes
<1>4. ReceiverType'
  <2>1. ReceiverType
    BY DEF ReceiverInv
  <2>2. PICK n \in 0 .. Files * setup.size : Got(got, n)
    BY <2>1 DEF ReceiverType
  <2>3. Got(got, n)'
    BY <1>1, <2>2, Same DEF Got, Large
  <2>4. \E k \in 0 .. Files * setup.size' : Got(got, k)'
    BY <1>1, <2>2, <2>3
  <2> QED BY <1>1, <2>1, <2>4 DEF ReceiverType
<1>5. From(m)' = From(m) /\ From(m) \in Nat /\ MessageLen' = MessageLen
      /\ Total' = Total
  BY <1>1, <1>2, FromIs, Same DEF From
<1>6. ASSUME NEW p \in Nat, NEW n, Reads(p, n, t) PROVE Reads(p, n, t)'
  <2>1. \A i \in 1 .. Len(buffer) : p + i \in 1 .. Len(sent)
    <3>1. Len(buffer) \in Nat /\ t = p + Len(buffer)
      BY <1>6 DEF Reads, ReceiverInv, ReceiverType, Bytes
    <3> QED BY <1>2, <1>3, <3>1
  <2> QED BY <1>1, <1>6, <2>1 DEF Reads
<1>7. \A n : /\ Got(got, n) => Got(got, n)'
             /\ Got(got \o chunk, n) => Got(got \o chunk, n)'
  BY <1>1, Same DEF Got, Large
<1>8. Lost => Lost'
  BY <1>1 DEF Lost
<1>9. HeaderInv(t, m)'
  <2>1. Reads(From(m), 2 * Word, t) => Reads(From(m), 2 * Word, t)'
    BY <1>5, <1>6 DEF Reads
  <2> QED BY <1>1, <1>2, <1>7, <1>8, <2>1 DEF Place, HeaderInv
<1>10. DataInv(t, m)'
  <2>1. Reads(From(m) + 2 * Word, setup.size + PadOf(setup.size), t) =>
          Reads(From(m) + 2 * Word, setup.size + PadOf(setup.size), t)'
    <3>1. From(m) + 2 * Word \in Nat
      BY <1>5, Numbers
    <3> QED BY <1>1, <1>5, <1>6, <3>1, SMTT(30) DEF Reads
  <2>2. rcvPc = "data" /\ ~setup.sync =>
          /\ Reads(Rest(m), AtMost(needRcv, setup.rcvBuf), t)
          /\ Rest(m) \in Nat
    <3>1. rcvPc = "data" /\ ~setup.sync =>
            /\ Reads(Rest(m), AtMost(needRcv, setup.rcvBuf), t)
            /\ needRcv <= setup.size /\ needRcv \in Nat
      BY <1>2 DEF Place, DataInv, ReceiverInv, ReceiverType
    <3>2. needRcv <= setup.size /\ needRcv \in Nat => Rest(m) \in Nat
      <4>1. PICK F \in Nat : F = From(m)
        BY <1>5
      <4>2. PICK w \in Nat : w = 2 * Word
        BY Numbers
      <4>3. PICK s \in Nat : s = setup.size
        BY Fields
      <4>4. Rest(m) = F + w + s - needRcv
        BY <4>1, <4>2, <4>3 DEF Rest
      <4>5. \A k \in Nat : k <= s => F + w + s - k \in Nat
        OBVIOUS
      <4> QED BY <4>3, <4>4, <4>5
    <3> QED BY <3>1, <3>2
  <2>3. ASSUME rcvPc = "data", ~setup.sync
        PROVE  Reads(Rest(m), AtMost(needRcv, setup.rcvBuf), t)'
    <3>1. PICK p \in Nat : p = Rest(m)
      BY <2>2, <2>3
    <3>2. PICK n : n = AtMost(needRcv, setup.rcvBuf)
      OBVIOUS
    <3>3. Reads(p, n, t)'
      BY <1>6, <2>2, <2>3, <3>1, <3>2
    <3>4. p = Rest(m)' /\ n = AtMost(needRcv, setup.rcvBuf)'
      BY <1>1, <1>5, <3>1, <3>2 DEF Rest
    <3> QED BY <3>3, <3>4
  <2> QED BY <1>1, <1>2, <1>7, <2>1, <2>3 DEF Place, DataInv
<1>11. PadInv(t, m)'
  <2>1. Reads(From(m) + 2 * Word + setup.size, PadOf(setup.size), t) =>
          Reads(From(m) + 2 * Word + setup.size, PadOf(setup.size), t)'
    <3> DEFINE x == From(m) + 2 * Word + setup.size
    <3>1. PICK p \in Nat : p = x
      <4>1. PICK F \in Nat : F = From(m)
        BY <1>5
      <4>2. PICK w \in Nat : w = 2 * Word
        BY Numbers
      <4>3. PICK s \in Nat : s = setup.size
        BY Fields
      <4>4. x = F + w + s
        BY <4>1, <4>2, <4>3
      <4> HIDE DEF x
      <4> QED BY <4>4
    <3>2. PICK n : n = PadOf(setup.size)
      OBVIOUS
    <3>3. Reads(p, n, t) => Reads(p, n, t)'
      BY <1>6
    <3>4. p = x' /\ n = PadOf(setup.size)'
      BY <1>1, <1>5, <3>1, <3>2
    <3> HIDE DEF x
    <3>5. Reads(x, PadOf(setup.size), t) => Reads(x, PadOf(setup.size), t)'
      BY <3>1, <3>2, <3>3, <3>4
    <3> QED BY <3>5 DEF x
  <2> QED BY <1>1, <1>2, <1>7, <1>8, <2>1, Same DEF Place, PadInv
<1>12. EndInv(t, m)'
  <2>1. Reads(Total + 2 * Word, Word, t) => Reads(Total + 2 * Word, Word, t)'
    <3>1. Total + 2 * Word \in Nat
      BY FromIs, Numbers
    <3> QED BY <1>1, <1>5, <1>6, <3>1 DEF Reads
  <2> QED BY <1>1, <1>2, <1>7, <2>1 DEF Place, EndInv
<1>13. LoopInv(t, m)'
  BY <1>1, <1>2, <1>5, <1>7 DEF Place, LoopInv, Rest
<1>15. Place(t, m)'
  BY <1>9, <1>10, <1>11, <1>12, <1>13 DEF Place
<1>16. WireInv(t)'
  BY <1>2
<1> QED BY <1>3, <1>4, <1>15, <1>16 DEF ReceiverInv

(* The order of the bytes on the sockets after a send that the sender goes *)
(* on to make only while it keeps to whole blocks, or as its last one.     *)
LEMMA SendKept ==
  ASSUME SenderType, ReceiverInv, NEW b \in Bytes, SendNeed(b),
         UNCHANGED <<setup, receiver>>, sendPc # "closed",
         \A t : InTurn /\ WireInv(t) /\ setup.sockets > 1 =>
           /\ setup.missing = 0 => needSend' % Block = 0
           /\ \/ b = <<>> /\ ~Open'
              \/ Open /\ Len(b) = Block
              \/ Open /\ Len(b) < 2 * Block /\ ~Open'
  PROVE  ReceiverInv'
<1>1. /\ Len(sent) \in Nat /\ Len(b) \in Nat /\ sent' \in Bytes
      /\ Joins(sent', sent, Len(sent), b, Len(b)) /\ error' = error
  BY SendIs
<1>2. /\ Len(sent') \in Nat /\ Len(sent) <= Len(sent')
      /\ \A i \in 1 .. Len(sent) : sent'[i] = sent[i]
  BY <1>1 DEF Joins
<1>3. ASSUME NEW t, InTurn, WireInv(t) PROVE WireInv(t)'
  <2>1. UNCHANGED <<setup, iRcv>>
    BY DEF receiver
  <2> QED BY <1>3, <2>1, SendOnWire
<1> QED BY <1>1, <1>2, <1>3, ReceiverKept

(* A step of the sender that sends nothing.                                *)
LEMMA NoSendKept ==
  ASSUME SenderType, StreamInv, ReceiverInv,
         UNCHANGED <<setup, receiver, wire, sent, iSend>>, error => error',
         sendPc # "closed", sendPc' # "closed", Open' => Open,
         \A t : InTurn /\ WireInv(t) /\ setup.sockets > 1 =>
           (setup.missing = 0 => needSend' % Block = 0)
  PROVE  StreamInv' /\ ReceiverInv'
<1>1. Len(sent) \in Nat /\ sent' = sent
  BY DEF SenderType, Bytes
<1>2. StreamInv'
  BY <1>1, Same DEF StreamInv
<1>3. ASSUME NEW t, InTurn, WireInv(t) PROVE WireInv(t)'
  <2>1. UNCHANGED <<setup, iRcv, wire, sent, iSend>>
    BY DEF receiver
  <2> QED BY <1>3, <2>1, WireKept
<1> QED BY <1>1, <1>2, <1>3, ReceiverKept

(* Each step of the sender.                                                *)
LEMMA SendDataBlockKeeps ==
  ASSUME IInv, SendDataBlock
  PROVE  IInv'
<1>1. SenderType /\ StreamInv /\ SendInv /\ ReceiverInv
  BY DEF IInv
<1>2. /\ sendPc = "loop" /\ sendStatus = "DataProcessing"
      /\ piece' = AtMost(setup.sendBuf, fileRest)
      /\ fileRest' = fileRest - piece'
      /\ sendPc' = IF needSend = setup.size THEN "header" ELSE "data"
      /\ UNCHANGED <<setup, receiver, wire, sent, iSend, error, file,
                     sendStatus, needSend>>
  BY DEF SendDataBlock
<1>3. /\ fileRest \in Nat /\ needSend \in Nat /\ piece' \in Nat
      /\ fileRest' \in Nat /\ piece' + fileRest' = fileRest
      /\ piece' <= setup.sendBuf /\ (piece' < setup.sendBuf => fileRest' = 0)
      /\ fileRest > 0 => piece' > 0
  BY <1>1, <1>2, Fields DEF SenderType, AtMost
<1>4. SenderType'
  BY <1>1, <1>2, <1>3 DEF SenderType, Socket, receiver
<1>5. StreamInv' /\ ReceiverInv'
  <2>1. Open' = Open
    BY <1>2 DEF Open
  <2>2. \A t : WireInv(t) /\ setup.sockets > 1 =>
          (setup.missing = 0 => needSend' % Block = 0)
    BY <1>2 DEF WireInv
  <2> QED BY <1>1, <1>2, <2>1, <2>2, NoSendKept
<1>6. SendInv'
  <2>1. needSend = fileRest + setup.missing /\ setup.missing \in Nat
    BY <1>1, <1>2, Fields DEF SendInv
  <2>2. needSend = piece' + fileRest' + setup.missing
    BY <1>3, <2>1
  <2>3. From(file)' = From(file)
    BY <1>2, Same DEF From
  <2>4. needSend = setup.size /\ setup.size > 0 => piece' > 0
    BY <1>1, <1>3, <2>1, Fields
  <2>5. sendPc' \in {"header", "data"} /\ sendPc' = "header" => needSend = setup.size
    BY <1>2
  <2>6. sendPc' = "header" => Sent(0)'
    BY <1>1, <1>2, <2>3 DEF SendInv, Sent
  <2>7. sendPc' = "data" => Sent(2 * Word + setup.size - needSend)'
    BY <1>1, <1>2, <2>3 DEF SendInv, Sent
  <2> QED BY <1>1, <1>2, <1>3, <2>2, <2>4, <2>5, <2>6, <2>7 DEF SendInv
<1> QED BY <1>4, <1>5, <1>6 DEF IInv

(* NextFile: a message is complete before the next file begins.            *)
LEMMA NextFileKeeps ==
  ASSUME IInv, NextFile
  PROVE  IInv'
<1>1. SenderType /\ StreamInv /\ SendInv /\ ReceiverInv
  BY DEF IInv
<1>2. /\ sendPc = "loop" /\ sendStatus # "DataProcessing"
      /\ UNCHANGED <<setup, receiver, wire, sent, iSend, error, piece>>
  BY DEF NextFile
<1>3. CASE /\ file < Files /\ sendStatus = "AllData"
           /\ file' = file + 1 /\ fileRest' = setup.size - setup.missing
           /\ needSend' = setup.size /\ sendStatus' = "DataProcessing"
           /\ UNCHANGED sendPc
  <2>1. setup.missing = 0 /\ fileRest' = setup.size /\ fileRest' \in Nat
    BY <1>1, <1>3, Fields DEF SendInv
  <2>2. SenderType'
    BY <1>1, <1>2, <1>3, <2>1, Numbers, Fields DEF SenderType, Socket, receiver
  <2>3. StreamInv' /\ ReceiverInv'
    <3>1. Open
      BY <1>2, <2>1 DEF Open
    <3>2. ASSUME NEW t, InTurn, setup.sockets > 1 PROVE needSend' % Block = 0
      BY <1>1, <1>3, <3>2, ManySockets DEF Block
    <3> QED BY <1>1, <1>2, <1>3, <3>1, <3>2, NoSendKept
  <2>4. SendInv'
    <3>1. Sent(MessageLen)
      BY <1>1, <1>2, <1>3 DEF SendInv
    <3>2. file \in 1 .. Files /\ From(file)' = From(file + 1)
      BY <1>1, <1>2, <1>3, Same DEF SenderType, From
    <3>3. From(file)' = From(file) + MessageLen /\ From(file) \in Nat
      <4>1. PICK f \in 1 .. Files : f = file
        BY <3>2
      <4>2. f \in 1 .. Files + 1
        BY Numbers
      <4>3. From(f + 1) = From(f) + MessageLen /\ From(f) \in Nat
        BY <1>1, <4>2, FromIs
      <4> QED BY <3>2, <4>1, <4>3
    <3>4. Sent(0)'
      <4>1. PICK F \in Nat : F = From(file)'
        BY <1>1, <3>3, FromIs
      <4>2. ~error => Len(sent) = F
        BY <3>1, <3>3, <4>1 DEF Sent
      <4> QED BY <1>2, <4>1, <4>2 DEF Sent
    <3> QED BY <1>2, <1>3, <2>1, <3>4, Fields, <1>1 DEF SendInv
  <2> QED BY <2>2, <2>3, <2>4 DEF IInv
<1>4. CASE /\ file = Files \/ sendStatus = "Error"
           /\ sendPc' = "done"
           /\ UNCHANGED <<file, fileRest, needSend, sendStatus>>
  <2>1. SenderType'
    BY <1>1, <1>2, <1>4 DEF SenderType, Socket, receiver
  <2>2. StreamInv' /\ ReceiverInv'
    <3>1. Open' = Open
      BY <1>2, <1>4 DEF Open
    <3>2. \A t : WireInv(t) /\ setup.sockets > 1 =>
            (setup.missing = 0 => needSend' % Block = 0)
      BY <1>4 DEF WireInv
    <3> QED BY <1>1, <1>2, <1>4, <3>1, <3>2, NoSendKept
  <2>3. SendInv'
    <3>1. \A n : Sent(n) => Sent(n)'
      BY <1>2, <1>4, Same DEF Sent, From
    <3>2. sendStatus = "AllData" => Sent(MessageLen)'
      BY <1>1, <1>2, <3>1, Same DEF SendInv, Sent
    <3>3. sendStatus \in {"AllData", "Error"}
      BY <1>1, <1>2 DEF SenderType
    <3> QED BY <1>1, <1>2, <1>4, <3>2, <3>3 DEF SendInv
  <2> QED BY <2>1, <2>2, <2>3 DEF IInv
<1> QED BY <1>3, <1>4 DEF NextFile

(* SendHeader: no part of this file was sent before.                       *)
LEMMA SendHeaderKeeps ==
  ASSUME IInv, SendHeader
  PROVE  IInv'
<1>1. SenderType /\ StreamInv /\ SendInv /\ ReceiverInv
  BY DEF IInv
<1>2. /\ sendPc = "header" /\ needSend = setup.size
      /\ sendStatus = "DataProcessing"
      /\ UNCHANGED <<setup, file, fileRest, needSend, piece, receiver>>
  BY <1>1 DEF SendHeader, SendInv
<1>3. Sent(0) /\ file \in 1 .. Files
  BY <1>1, <1>2 DEF SendInv, SenderType
<1>4. CASE SendNeed(Header) /\ sendPc' = "data" /\ UNCHANGED sendStatus
  <2>1. Header \in Bytes /\ Len(Header) = 2 * Word
    BY <1>1, HeaderIs
  <2>2. /\ wire' \in [Socket -> Bytes] /\ sent' \in Bytes /\ iSend' \in Socket
        /\ error' = error /\ ~error /\ Len(sent') = Len(sent) + 2 * Word
    BY <1>1, <1>2, <1>4, <2>1, SendIs DEF Joins
  <2>3. PICK F \in Nat : F = From(file) /\ Len(sent) = F
                         /\ F + MessageLen <= Total
    <3>1. PICK f \in 1 .. Files : f = file
      BY <1>3
    <3>2. f \in 1 .. Files + 1
      BY Numbers
    <3>3. From(f) \in Nat /\ From(f) + MessageLen <= Total
      BY <1>1, <3>2, FromIs
    <3> QED BY <1>3, <2>2, <3>1, <3>3 DEF Sent
  <2>4. SenderType'
    BY <1>1, <1>2, <1>4, <2>2 DEF SenderType, Socket, receiver
  <2>5. StreamInv'
    <3>1. Len(sent) + Len(Header) <= Total
      <4>1. PICK s \in Nat, p \in Nat : s = setup.size /\ p = PadOf(setup.size)
        BY <1>1, Fields, PadIs, Numbers
      <4>2. PICK w \in Nat : w = 2 * Word
        BY Numbers
      <4>3. MessageLen = w + s + p
        BY <4>1, <4>2 DEF MessageLen
      <4>4. PICK T \in Nat : T = Total
        BY <1>1, FromIs
      <4>5. F + (w + s + p) <= T
        BY <2>3, <4>3, <4>4
      <4>6. F + w <= T
        BY <4>5
      <4> QED BY <2>1, <2>3, <4>2, <4>4, <4>6
    <3>2. \A i \in 1 .. Len(Header) : Header[i] = Messages[Len(sent) + i]
      <4> SUFFICES ASSUME NEW i \in 1 .. 2 * Word
                   PROVE  Header[i] = Messages[F + i]
        BY <2>1, <2>3
      <4>1. \A o \in 1 .. Word : /\ Messages[F + o] = Header[o]
                                 /\ Messages[F + Word + o] = Header[Word + o]
        BY <1>1, <1>3, <2>3, HeaderIs, MessagesAre
      <4>2. CASE i <= Word
        BY <4>1, <4>2
      <4>3. CASE i > Word
        <5>1. i - Word \in 1 .. Word /\ Word + (i - Word) = i
              /\ F + Word + (i - Word) = F + i
          BY <4>3, Numbers
        <5> QED BY <4>1, <5>1
      <4> QED BY <4>2, <4>3, Numbers
    <3> QED BY <1>1, <1>2, <1>4, <2>1, <3>1, <3>2, SentMore
  <2>6. ReceiverInv'
    <3>1. ASSUME NEW t, InTurn, WireInv(t), setup.sockets > 1
          PROVE  /\ setup.missing = 0 => needSend' % Block = 0
                 /\ Open /\ Len(Header) = Block
      <4>1. Block = 2 * Word
        BY <1>1, <3>1, ManySockets DEF Block
      <4>2. Open
        BY <1>1, <1>2, Fields DEF Open
      <4> QED BY <1>2, <2>1, <3>1, <4>1, <4>2 DEF WireInv
    <3> QED BY <1>1, <1>2, <1>4, <2>1, <3>1, SendKept
  <2>7. SendInv'
    <3>1. Sent(2 * Word + setup.size - needSend)'
      <4>1. From(file)' = F
        BY <1>2, <2>3, Same DEF From
      <4>2. 2 * Word + setup.size - needSend = 2 * Word
        BY <1>1, <1>2, Fields, Numbers
      <4>3. Len(sent') = F + 2 * Word
        BY <2>2, <2>3
      <4> QED BY <1>2, <4>1, <4>2, <4>3 DEF Sent
    <3> QED BY <1>1, <1>2, <1>4, <3>1 DEF SendInv
  <2> QED BY <2>4, <2>5, <2>6, <2>7 DEF IInv
<1>5. CASE SendNeedFails /\ sendStatus' = "Error" /\ sendPc' = "loop"
  <2>1. error' = TRUE /\ UNCHANGED <<wire, sent, iSend>>
    BY <1>5 DEF SendNeedFails
  <2>2. SenderType'
    BY <1>1, <1>2, <1>5, <2>1 DEF SenderType, Socket, receiver
  <2>3. StreamInv' /\ ReceiverInv'
    <3>1. Open' = Open
      BY <1>2, <1>5 DEF Open
    <3>2. \A t : WireInv(t) /\ setup.sockets > 1 =>
            (setup.missing = 0 => needSend' % Block = 0)
      BY <1>2 DEF WireInv
    <3> QED BY <1>1, <1>2, <1>5, <2>1, <3>1, <3>2, NoSendKept
  <2>4. SendInv'
    BY <1>5, <2>1 DEF SendInv
  <2> QED BY <2>2, <2>3, <2>4 DEF IInv
<1> QED BY <1>4, <1>5 DEF SendHeader

(* SendData: the piece is what comes next of the file, and no more of it   *)
(* than was announced.                                                     *)
LEMMA SendDataKeeps ==
  ASSUME IInv, SendData
  PROVE  IInv'
<1>1. SenderType /\ StreamInv /\ SendInv /\ ReceiverInv
  BY DEF IInv
<1> DEFINE n  == AtMost(needSend, piece)
           at == setup.size - needSend
           b  == SubSeq(Content(file), at + 1, at + n)
<1>2. /\ sendPc = "data" /\ sendStatus = "DataProcessing"
      /\ needSend = piece + fileRest + setup.missing
      /\ needSend = setup.size /\ setup.size > 0 => piece > 0
      /\ piece <= setup.sendBuf /\ (piece < setup.sendBuf => fileRest = 0)
      /\ setup.size > 0 => needSend > 0
      /\ Sent(2 * Word + setup.size - needSend)
      /\ UNCHANGED <<setup, file, fileRest, piece, receiver>>
  BY <1>1 DEF SendData, SendInv
<1>3. PICK s \in Nat, need \in Nat, p \in Nat, rest \in Nat, miss \in Nat :
        /\ s = setup.size /\ need = needSend /\ p = piece /\ rest = fileRest
        /\ miss = setup.missing /\ need <= s
  <2>1. PICK s \in Nat : s = setup.size
    BY <1>1, Fields
  <2>2. needSend \in Nat /\ needSend <= s /\ piece \in Nat /\ fileRest \in Nat
        /\ setup.missing \in Nat
    BY <1>1, <2>1, Fields DEF SenderType
  <2> QED BY <2>1, <2>2
<1>4. n = p /\ need = p + rest + miss /\ at = s - need
  BY <1>2, <1>3 DEF AtMost
<1>5. PICK m \in 1 .. Files : m = file
  BY <1>1 DEF SenderType
<1>6. CASE /\ SendNeed(b) /\ needSend' = needSend - n
           /\ sendStatus' = IF needSend' = 0 THEN "AllData" ELSE sendStatus
           /\ sendPc' = IF needSend' = 0 /\ PadOf(setup.size) > 0
                          THEN "pad" ELSE "loop"
  <2>1. needSend' = need - p /\ needSend' \in 0 .. s
    <3>1. needSend' = need - p
      BY <1>3, <1>4, <1>6
    <3>2. need - p \in 0 .. s
      BY <1>3, <1>4
    <3> QED BY <3>1, <3>2
  <2>2. /\ b \in Bytes /\ Len(b) = p
        /\ \A i \in 1 .. p : b[i] = FileByte(m, at + i) /\ at + i \in 1 .. s
    <3>1. PICK a \in Nat : a = at /\ a + p <= s
      BY <1>3, <1>4
    <3>2. PICK c \in Bytes : c = Content(file) /\ Len(c) = s
                             /\ \A o \in 1 .. s : c[o] = FileByte(m, o)
      <4>1. \A o \in 1 .. s : FileByte(m, o) \in Nat
        BY Numbers, DivMod DEF FileByte
      <4>2. Content(m) \in [1 .. s -> Nat]
        BY <1>3, <4>1 DEF Content
      <4>3. \A o \in 1 .. s : Content(m)[o] = FileByte(m, o)
        BY <1>3 DEF Content
      <4>4. Content(m) \in Bytes /\ Len(Content(m)) = s
        BY <4>2, StringOf
      <4> QED BY <1>5, <4>3, <4>4
    <3>3. \A i \in 1 .. p : (a + 1) + i - 1 = a + i /\ a + i \in 1 .. s
      BY <3>1
    <3>4. /\ SubSeq(c, a + 1, a + p) \in Seq(Nat)
          /\ Len(SubSeq(c, a + 1, a + p)) =
               IF a + 1 <= a + p THEN (a + p) - (a + 1) + 1 ELSE 0
          /\ \A i \in 1 .. (a + p) - (a + 1) + 1 :
               SubSeq(c, a + 1, a + p)[i] = c[(a + 1) + i - 1]
      <4>1. \A i \in a + 1 .. a + p : c[i] \in Nat
        <5>1. \A i \in a + 1 .. a + p : i \in 1 .. s
          BY <3>1
        <5>2. PICK d \in Seq(Nat) : d = c /\ Len(d) = s
          BY <3>2 DEF Bytes
        <5>3. \A i \in 1 .. s : d[i] \in Nat
          BY <5>2
        <5> QED BY <5>1, <5>2, <5>3
      <4> QED BY <4>1, SubSeqProperties
    <3>5. Len(SubSeq(c, a + 1, a + p)) = p /\ (a + p) - (a + 1) + 1 = p
      BY <3>4
    <3>6. \A i \in 1 .. p : SubSeq(c, a + 1, a + p)[i] = FileByte(m, a + i)
      BY <3>2, <3>3, <3>4, <3>5
    <3> QED BY <1>4, <3>1, <3>2, <3>3, <3>4, <3>5, <3>6 DEF Bytes
  <2> HIDE DEF b
  <2>3. /\ wire' \in [Socket -> Bytes] /\ sent' \in Bytes /\ iSend' \in Socket
        /\ error' = error /\ ~error /\ Len(sent') = Len(sent) + p
    BY <1>1, <1>2, <1>6, <2>2, SendIs DEF Joins
  <2>4. PICK F \in Nat : F = From(file) /\ F + MessageLen <= Total
                         /\ Len(sent) = F + 2 * Word + s - need
    <3>1. m \in 1 .. Files + 1
      BY Numbers
    <3>2. PICK F \in Nat : F = From(m) /\ F + MessageLen <= Total
      BY <1>1, <3>1, FromIs
    <3>3. PICK w \in Nat : w = 2 * Word
      BY Numbers
    <3>4. Len(sent) = F + (w + s - need)
      BY <1>2, <1>3, <1>5, <2>3, <3>2, <3>3 DEF Sent
    <3>5. F + (w + s - need) = F + w + s - need
      BY <1>3
    <3> QED BY <1>5, <3>2, <3>3, <3>4, <3>5
  <2>5. SenderType'
    BY <1>1, <1>2, <1>3, <1>6, <2>1, <2>3 DEF SenderType, Socket, receiver
  <2>6. StreamInv'
    <3>1. Len(sent) + p <= Total
      <4>1. PICK pad \in Nat : pad = PadOf(setup.size)
        BY <1>1, Fields, PadIs, Numbers
      <4>2. PICK w \in Nat : w = 2 * Word
        BY Numbers
      <4>3. MessageLen = w + s + pad
        BY <1>3, <4>1, <4>2 DEF MessageLen
      <4>4. PICK T \in Nat : T = Total
        BY <1>1, FromIs
      <4>5. F + (w + s + pad) <= T
        BY <2>4, <4>3, <4>4
      <4>6. F + w + s - need + p <= T
        BY <1>4, <4>5
      <4>7. Len(sent) = F + w + s - need
        BY <2>4, <4>2
      <4> QED BY <4>4, <4>6, <4>7
    <3>2. ASSUME NEW i \in 1 .. p PROVE b[i] = Messages[Len(sent) + i]
      <4>1. at + i \in 1 .. s /\ b[i] = FileByte(m, at + i)
        BY <2>2
      <4>2. Messages[From(m) + 2 * Word + (at + i)] = FileByte(m, at + i)
        BY <1>1, <1>3, <4>1, MessagesAre
      <4>3. From(m) + 2 * Word + (at + i) = Len(sent) + i
        <5>1. PICK w \in Nat : w = 2 * Word
          BY Numbers
        <5>2. F + w + ((s - need) + i) = (F + w + s - need) + i
          BY <1>3
        <5>3. From(m) = F
          BY <1>5, <2>4
        <5>4. Len(sent) = F + w + s - need
          BY <2>4, <5>1
        <5> HIDE DEF at
        <5>5. at = s - need
          BY <1>4
        <5> QED BY <5>1, <5>2, <5>3, <5>4, <5>5
      <4> QED BY <4>1, <4>2, <4>3
    <3> QED BY <1>1, <1>2, <1>6, <2>2, <3>1, <3>2, SentMore
  <2>7. ReceiverInv'
    <3> SUFFICES ASSUME NEW t, InTurn, WireInv(t), setup.sockets > 1
                 PROVE  /\ setup.missing = 0 => needSend' % Block = 0
                        /\ \/ b = <<>> /\ ~Open'
                           \/ Open /\ Len(b) = Block
                           \/ Open /\ Len(b) < 2 * Block /\ ~Open'
      BY <1>1, <1>2, <1>6, <2>2, SendKept
    <3>1. PICK B \in Nat \ {0} : B = Block /\ setup.sendBuf = B /\ s > 0
      BY <1>1, <1>3, Fields, ManySockets DEF Block
    <3>2. (p < B => rest = 0) /\ p <= B /\ need > 0
      BY <1>2, <1>3, <3>1
    <3>3. Open' <=> miss = 0 \/ needSend' # miss
      BY <1>2, <1>3, <1>6 DEF Open
    <3>4. Open <=> miss = 0 \/ p + rest # 0
      BY <1>2, <1>3, <1>4 DEF Open
    <3>5. CASE miss = 0
      <4>1. need % B = 0
        BY <1>3, <3>1, <3>5 DEF WireInv
      <4>2. p = B
        <5>1. ASSUME p < B PROVE FALSE
          <6>1. need = p /\ need \in 0 .. B - 1
            BY <1>4, <3>2, <3>5, <5>1
          <6>2. (0 * B + need) % B = need /\ 0 * B + need = need
            BY <6>1, DivModUnique
          <6> QED BY <3>2, <4>1, <6>2
        <5> QED BY <3>2, <5>1
      <4>3. (need - B) % B = 0
        <5>1. need \div B \in Nat /\ need = (need \div B) * B + (need % B)
          BY DivMod
        <5>2. PICK q \in Nat : q = need \div B /\ need = q * B
          BY <4>1, <5>1
        <5>3. q # 0
          <6>1. 0 * B = 0
            OBVIOUS
          <6> QED BY <3>2, <5>2, <6>1
        <5>4. PICK r \in Nat : q = r + 1
          BY <5>3
        <5>5. (r * B + 0) % B = 0
          BY DivModUnique
        <5>6. need - B = r * B + 0
          <6>1. (r + 1) * B = r * B + B /\ r * B \in Nat
            OBVIOUS
          <6> QED BY <5>2, <5>4, <6>1
        <5> QED BY <5>5, <5>6
      <4> QED BY <1>3, <2>1, <2>2, <3>1, <3>4, <3>5, <4>2, <4>3
    <3>6. CASE miss # 0 /\ p = B
      <4>1. Open
        BY <3>4, <3>6
      <4> QED BY <1>3, <2>2, <3>1, <3>6, <4>1
    <3>7. CASE miss # 0 /\ p < B
      <4>1. rest = 0 /\ needSend' = miss
        BY <1>4, <2>1, <3>2, <3>7
      <4>2. ~Open'
        BY <3>3, <3>7, <4>1
      <4>3. p = 0 => b = <<>>
        BY <2>2 DEF Bytes
      <4>4. p # 0 => Open /\ p < 2 * B
        BY <3>4, <3>7
      <4> QED BY <1>3, <2>2, <3>1, <3>7, <4>2, <4>3, <4>4
    <3> QED BY <3>2, <3>5, <3>6, <3>7
  <2>8. SendInv'
    <3>1. From(file)' = F
      BY <1>2, <2>4, Same DEF From
    <3>2. Len(sent') = F + (2 * Word + s - needSend')
      <4>1. PICK w \in Nat : w = 2 * Word
        BY Numbers
      <4>2. Len(sent') = (F + w + s - need) + p
        BY <2>3, <2>4, <4>1
      <4>3. (F + w + s - need) + p = F + (w + s - (need - p))
        BY <1>3
      <4> QED BY <2>1, <4>1, <4>2, <4>3
    <3>3. Sent(2 * Word + setup.size - needSend)'
      BY <1>2, <1>3, <3>1, <3>2 DEF Sent
    <3>4. needSend' = 0 => miss = 0 /\ Sent(2 * Word + setup.size)'
      <4>1. PICK w \in Nat : w = 2 * Word
        BY Numbers
      <4>2. needSend' = 0 => w + s - needSend' = w + s
        BY <2>1
      <4>3. needSend' = 0 => Len(sent') = F + (w + s)
        BY <3>2, <4>1, <4>2
      <4>4. needSend' = 0 => miss = 0
        BY <1>4, <2>1
      <4> QED BY <1>2, <1>3, <3>1, <4>1, <4>3, <4>4 DEF Sent
    <3>5. needSend' = rest + miss /\ (s > 0 => p > 0 \/ need # s)
      BY <1>2, <1>3, <1>4, <2>1
    <3>6. PICK pad \in Nat : pad = PadOf(setup.size) /\ pad = PadOf(setup.size)'
      BY <1>1, <1>2, Fields, PadIs, Numbers
    <3>7. CASE needSend' = 0 /\ pad > 0
      BY <1>2, <1>3, <1>6, <3>4, <3>6, <3>7 DEF SendInv
    <3>8. CASE needSend' = 0 /\ pad = 0
      <4>1. MessageLen' = 2 * Word + s
        <5>1. PICK w \in Nat : w = 2 * Word
          BY Numbers
        <5>2. w + s + 0 = w + s
          OBVIOUS
        <5> QED BY <1>2, <1>3, <3>6, <3>8, <5>1, <5>2 DEF MessageLen
      <4>2. Sent(MessageLen)'
        BY <1>2, <1>3, <3>4, <3>8, <4>1 DEF Sent
      <4> QED BY <1>2, <1>3, <1>6, <3>4, <3>6, <3>8, <4>2 DEF SendInv
    <3>9. CASE needSend' # 0
      <4>1. needSend' # s
        <5>1. s > 0 /\ (p > 0 \/ need # s)
          BY <1>3, <1>4, <2>1, <3>5, <3>9
        <5>2. need - p # s
          BY <1>3, <5>1
        <5> QED BY <2>1, <5>2
      <4>2. sendPc' = "loop" /\ sendStatus' = "DataProcessing" /\ needSend' > 0
        BY <1>2, <1>6, <2>1, <3>9
      <4>3. Sent(IF needSend = setup.size THEN 0
                 ELSE 2 * Word + setup.size - needSend)'
        BY <1>2, <1>3, <3>3, <4>1
      <4> QED BY <1>2, <1>3, <3>5, <4>2, <4>3 DEF SendInv
    <3> QED BY <3>7, <3>8, <3>9
  <2> QED BY <2>5, <2>6, <2>7, <2>8 DEF IInv
<1>7. CASE /\ SendNeedFails /\ sendStatus' = "Error" /\ sendPc' = "loop"
           /\ UNCHANGED needSend
  <2>1. error' = TRUE /\ UNCHANGED <<wire, sent, iSend>>
    BY <1>7 DEF SendNeedFails
  <2>2. SenderType'
    BY <1>1, <1>2, <1>7, <2>1 DEF SenderType, Socket, receiver
  <2>3. StreamInv' /\ ReceiverInv'
    <3>1. Open' = Open
      BY <1>2, <1>7 DEF Open
    <3>2. \A t : WireInv(t) /\ setup.sockets > 1 =>
            (setup.missing = 0 => needSend' % Block = 0)
      BY <1>2, <1>7 DEF WireInv
    <3> QED BY <1>1, <1>2, <1>7, <2>1, <3>1, <3>2, NoSendKept
  <2>4. SendInv'
    BY <1>7, <2>1 DEF SendInv
  <2> QED BY <2>2, <2>3, <2>4 DEF IInv
<1> QED BY <1>6, <1>7 DEF SendData

(* SendPad: the zeros that the message ends with, or an error.             *)
LEMMA SendPadKeeps ==
  ASSUME IInv, SendPad
  PROVE  IInv'
<1>1. SenderType /\ StreamInv /\ SendInv /\ ReceiverInv
  BY DEF IInv
<1> DEFINE b == Zeros(PadOf(setup.size))
<1>2. /\ sendPc = "pad" /\ sendStatus = "AllData" /\ PadOf(setup.size) > 0
      /\ needSend = 0 /\ setup.missing = 0 /\ Sent(2 * Word + setup.size)
      /\ sendPc' = "loop"
      /\ UNCHANGED <<setup, file, fileRest, sendStatus, needSend, piece, receiver>>
  BY <1>1 DEF SendPad, SendInv
<1>3. PICK m \in 1 .. Files : m = file
  BY <1>1 DEF SenderType
<1>4. PICK s \in Nat, pad \in Nat, w \in Nat :
        s = setup.size /\ pad = PadOf(setup.size) /\ w = 2 * Word
  <2>1. setup.size \in Nat /\ PadOf(setup.size) \in Nat /\ 2 * Word \in Nat
    BY <1>1, Fields, PadIs, Numbers
  <2> QED BY <2>1
<1>5. ASSUME NEW t, InTurn, WireInv(t) PROVE ~(setup.sockets > 1)
  <2>1. setup.sockets > 1 => PadOf(setup.size) = 0
    BY <1>1, <1>5, ManySockets
  <2> QED BY <1>2, <1>4, <2>1
<1>6. CASE SendNeed(b)
  <2>1. /\ b \in Bytes /\ Len(b) = pad /\ \A i \in 1 .. pad : b[i] = 0
    <3>1. b \in [1 .. pad -> Nat] /\ \A i \in 1 .. pad : b[i] = 0
      BY <1>4 DEF Zeros
    <3> QED BY <3>1, StringOf
  <2> HIDE DEF b
  <2>2. /\ wire' \in [Socket -> Bytes] /\ sent' \in Bytes /\ iSend' \in Socket
        /\ error' = error /\ ~error /\ Len(sent') = Len(sent) + pad
    BY <1>1, <1>2, <1>6, <2>1, SendIs DEF Joins
  <2>3. PICK F \in Nat : F = From(file) /\ F + (w + s + pad) <= Total
                         /\ Len(sent) = F + (w + s)
    <3>1. m \in 1 .. Files + 1
      BY Numbers
    <3>2. PICK F \in Nat : F = From(m) /\ F + MessageLen <= Total
      BY <1>1, <3>1, FromIs
    <3>3. MessageLen = w + s + pad
      BY <1>4 DEF MessageLen
    <3>4. Len(sent) = F + (w + s)
      BY <1>2, <1>3, <1>4, <2>2, <3>2 DEF Sent
    <3> QED BY <1>3, <3>2, <3>3, <3>4
  <2>4. SenderType'
    BY <1>1, <1>2, <2>2 DEF SenderType, Socket, receiver
  <2>5. StreamInv'
    <3>1. Len(sent) + pad <= Total
      <4>1. PICK T \in Nat : T = Total
        BY <1>1, FromIs
      <4>2. F + (w + s) + pad <= T
        BY <2>3, <4>1
      <4> QED BY <2>3, <4>1, <4>2
    <3>2. ASSUME NEW i \in 1 .. pad PROVE b[i] = Messages[Len(sent) + i]
      <4>1. Messages[From(m) + 2 * Word + setup.size + i] = 0
        BY <1>1, <1>4, MessagesAre
      <4>2. From(m) + 2 * Word + setup.size + i = F + w + s + i
        BY <1>3, <1>4, <2>3
      <4>3. F + w + s + i = F + (w + s) + i
        OBVIOUS
      <4> QED BY <2>1, <2>3, <4>1, <4>2, <4>3
    <3> QED BY <1>1, <1>2, <1>6, <2>1, <3>1, <3>2, SentMore
  <2>6. ReceiverInv'
    BY <1>1, <1>2, <1>5, <1>6, <2>1, SendKept
  <2>7. SendInv'
    <3>1. Sent(MessageLen)'
      <4>1. From(file)' = F /\ MessageLen' = w + s + pad
        BY <1>2, <1>4, <2>3, Same DEF From, MessageLen
      <4>2. Len(sent') = F + (w + s + pad)
        BY <2>2, <2>3
      <4> QED BY <4>1, <4>2 DEF Sent
    <3> QED BY <1>1, <1>2, <3>1 DEF SendInv
  <2> QED BY <2>4, <2>5, <2>6, <2>7 DEF IInv
<1>7. CASE SendNeedFails
  <2>1. error' = TRUE /\ UNCHANGED <<wire, sent, iSend>>
    BY <1>7 DEF SendNeedFails
  <2>2. SenderType'
    BY <1>1, <1>2, <2>1 DEF SenderType, Socket, receiver
  <2>3. StreamInv' /\ ReceiverInv'
    <3>1. Open' = Open
      BY <1>2 DEF Open
    <3>2. \A t : WireInv(t) /\ setup.sockets > 1 =>
            (setup.missing = 0 => needSend' % Block = 0)
      BY <1>2 DEF WireInv
    <3> QED BY <1>1, <1>2, <2>1, <3>1, <3>2, NoSendKept
  <2>4. SendInv'
    BY <1>1, <1>2, <2>1 DEF SendInv, Sent
  <2> QED BY <2>2, <2>3, <2>4 DEF IInv
<1> QED BY <1>6, <1>7 DEF SendPad

(* ServerEnds: a last message after all files, and then no more.           *)
LEMMA ServerEndsKeeps ==
  ASSUME IInv, ServerEnds
  PROVE  IInv'
<1>1. SenderType /\ StreamInv /\ SendInv /\ ReceiverInv
  BY DEF IInv
<1>2. /\ sendPc = "done" /\ sendStatus = "AllData" /\ file = Files
      /\ needSend = 0 /\ setup.missing = 0 /\ Sent(MessageLen)
      /\ sendPc' = "closed"
      /\ UNCHANGED <<setup, file, fileRest, sendStatus, needSend, piece, receiver>>
  BY <1>1 DEF ServerEnds, SendInv
<1>3. PICK tag \in {ServiceTag, PaddingTag, OtherTag} :
        SendNeed(ToWord(Word) \o ToWord(tag) \o ToWord(Terminate))
  BY DEF ServerEnds
<1>4. PICK x \in Bytes, y \in Bytes, z \in Bytes :
        /\ x = ToWord(Word) /\ y = ToWord(tag) /\ z = ToWord(Terminate)
        /\ Len(x) = Word /\ Len(y) = Word /\ Len(z) = Word
  <2>1. Terminate \in Nat
    BY WeightIs, Numbers DEF Terminate
  <2>2. tag \in Nat
    BY DEF ServiceTag, PaddingTag, OtherTag
  <2> QED BY <2>1, <2>2, Numbers, BytesOf
<1>5. PICK a : a = x \o y /\ Joins(a, x, Word, y, Word)
  BY <1>4, Joined
<1>6. PICK b : b = a \o z /\ Joins(b, a, Word + Word, z, Word)
  <2>1. a \in Bytes /\ Len(a) = Word + Word
    BY <1>5 DEF Joins
  <2> QED BY <1>4, <2>1, Joined
<1>7. SendNeed(b)
  BY <1>3, <1>4, <1>5, <1>6
<1>8. PICK w \in Nat \ {0} : w = Word
  BY Numbers
<1>9. /\ b \in Bytes /\ Len(b) = 3 * w
      /\ \A i \in 1 .. w : b[w + i] = ToWord(tag)[i]
  <2>1. \A i \in 1 .. w : w + i \in 1 .. w + w
    OBVIOUS
  <2>2. \A i \in 1 .. w : b[w + i] = y[i]
    BY <1>5, <1>6, <1>8, <2>1 DEF Joins
  <2>3. (w + w) + w = 3 * w
    OBVIOUS
  <2> QED BY <1>4, <1>6, <1>8, <2>2, <2>3 DEF Joins
<1>10. /\ wire' \in [Socket -> Bytes] /\ sent' \in Bytes /\ iSend' \in Socket
       /\ error' = error /\ ~error /\ Len(sent') = Len(sent) + 3 * w
       /\ Joins(sent', sent, Len(sent), b, 3 * w)
  <2>1. Joins(sent', sent, Len(sent), b, 3 * w)
    BY <1>1, <1>2, <1>7, <1>9, SendIs
  <2> QED BY <1>1, <1>2, <1>7, <1>9, <2>1, SendIs DEF Joins
<1>11. PICK T \in Nat : T = Total /\ Len(sent) = T
  <2>1. PICK f \in 1 .. Files : f = file /\ f + 1 = Files + 1
    BY <1>1, <1>2 DEF SenderType
  <2>2. From(f) + MessageLen = Total /\ Total \in Nat
    BY <1>1, <2>1, FromIs
  <2> QED BY <1>2, <1>10, <2>1, <2>2 DEF Sent
<1>12. SenderType'
  BY <1>1, <1>2, <1>10 DEF SenderType, Socket, receiver
<1>13. StreamInv'
  <2>1. Total' = T /\ Messages' = Messages /\ 3 * w = 3 * Word
    BY <1>2, <1>8, <1>11, Same
  <2>2. \A i \in 1 .. T : sent'[i] = Messages[i]
    <3>1. \A i \in 1 .. T : sent[i] = Messages[i]
      BY <1>1, <1>11 DEF StreamInv
    <3> QED BY <1>10, <1>11, <3>1 DEF Joins
  <2>3. \A i \in 1 .. w : sent'[T + w + i] = ToWord(tag)[i]
    <3>1. \A i \in 1 .. w : w + i \in 1 .. 3 * w /\ T + (w + i) = T + w + i
      OBVIOUS
    <3> QED BY <1>9, <1>10, <1>11, <3>1 DEF Joins
  <2>4. Len(sent') = T + 3 * w
    BY <1>10, <1>11
  <2>5. \A i \in 1 .. Len(sent') : i <= Total' => sent'[i] = Messages'[i]
    BY <2>1, <2>2, <2>4
  <2>6. \E g \in {ServiceTag, PaddingTag, OtherTag} :
          \A i \in 1 .. Word : sent'[Total' + Word + i] = ToWord(g)[i]
    BY <1>8, <2>1, <2>3
  <2>7. Len(sent') = Total' + 3 * Word
    BY <2>1, <2>4
  <2> QED BY <1>2, <2>5, <2>6, <2>7 DEF StreamInv
<1>14. ReceiverInv'
  <2>1. ASSUME NEW t, InTurn, WireInv(t), setup.sockets > 1
        PROVE  /\ setup.missing = 0 => needSend' % Block = 0
               /\ Open /\ Len(b) < 2 * Block /\ ~Open'
    <3>1. Block = 2 * w
      BY <1>1, <1>8, <2>1, ManySockets DEF Block
    <3>2. 3 * w < 2 * (2 * w)
      OBVIOUS
    <3> QED BY <1>2, <1>9, <2>1, <3>1, <3>2 DEF WireInv, Open
  <2> QED BY <1>1, <1>2, <1>7, <1>9, <2>1, SendKept
<1>15. SendInv'
  BY <1>1, <1>2 DEF SendInv
<1> QED BY <1>12, <1>13, <1>14, <1>15 DEF IInv

-----------------------------------------------------------------------------
(* A step of the receiver changes nothing of the sender.                   *)
LEMMA SenderKept ==
  ASSUME SenderType, StreamInv, SendInv, UNCHANGED <<setup, sender>>,
         error' \in BOOLEAN, error => error', wire' \in [Socket -> Bytes],
         iRcv' \in Socket
  PROVE  SenderType' /\ StreamInv' /\ SendInv'
<1>1. /\ setup' = setup /\ file' = file /\ fileRest' = fileRest
      /\ sendPc' = sendPc /\ sendStatus' = sendStatus
      /\ needSend' = needSend /\ piece' = piece /\ iSend' = iSend
      /\ sent' = sent
  BY DEF sender
<1>2. SenderType'
  BY <1>1 DEF SenderType, Socket
<1>3. StreamInv'
  BY <1>1, Same DEF StreamInv
<1>4. \A n : Sent(n) => Sent(n)'
  BY <1>1, Same DEF Sent, From
<1>5. Sent(MessageLen) => Sent(MessageLen)'
  BY <1>1, <1>4, Same DEF Sent
<1>6. SendInv'
  <2>1. sendPc = "header" => Sent(0)'
    BY <1>4 DEF SendInv
  <2>2. Sent(2 * Word + setup.size - needSend) =>
          Sent(2 * Word + setup.size - needSend)'
    BY <1>1, <1>4 DEF Sent
  <2>3. Sent(2 * Word + setup.size) => Sent(2 * Word + setup.size)'
    BY <1>1, <1>4 DEF Sent
  <2>4. Sent(IF needSend = setup.size THEN 0
             ELSE 2 * Word + setup.size - needSend) =>
          Sent(IF needSend = setup.size THEN 0
               ELSE 2 * Word + setup.size - needSend)'
    BY <1>1, <1>4 DEF Sent
  <2> QED BY <1>1, <1>5, <2>1, <2>2, <2>3, <2>4 DEF SendInv
<1> QED BY <1>2, <1>3, <1>6

(* A step of the receiver that takes nothing off the sockets.              *)
LEMMA StepKept ==
  ASSUME IInv, UNCHANGED <<setup, sender, wire, iRcv>>, error' \in BOOLEAN,
         error => error',
         InTurn => /\ ReceiverType'
                   /\ \E t \in 0 .. Len(sent) : \E m \in 1 .. Files + 1 :
                        WireInv(t) /\ Place(t, m)'
  PROVE  IInv'
<1>1. SenderType /\ StreamInv /\ SendInv
  BY DEF IInv
<1>2. SenderType' /\ StreamInv' /\ SendInv'
  <2>1. wire' \in [Socket -> Bytes] /\ iRcv' \in Socket
    BY <1>1 DEF SenderType
  <2> QED BY <1>1, <2>1, SenderKept
<1>3. ReceiverInv'
  <2> SUFFICES ASSUME InTurn PROVE ReceiverInv'
    BY Same DEF ReceiverInv
  <2>1. PICK t \in 0 .. Len(sent), m \in 1 .. Files + 1 : WireInv(t) /\ Place(t, m)'
    OBVIOUS
  <2>2. UNCHANGED <<setup, iRcv, wire, sent, iSend>> /\ Open' = Open
        /\ needSend' = needSend
    BY DEF sender, Open
  <2>3. setup.sockets > 1 => (setup.missing = 0 => needSend' % Block = 0)
    BY <2>1, <2>2 DEF WireInv
  <2>4. WireInv(t)'
    BY <1>1, <2>1, <2>2, <2>3, WireKept
  <2>5. sent' = sent
    BY <2>2
  <2> QED BY <2>1, <2>4, <2>5 DEF ReceiverInv
<1> QED BY <1>2, <1>3 DEF IInv

(* Where the receiver is when it is in turn.                               *)
LEMMA PlaceIs ==
  ASSUME IInv, InTurn
  PROVE  /\ ReceiverType
         /\ \E t \in 0 .. Len(sent) : \E m \in 1 .. Files + 1 :
              /\ WireInv(t) /\ Place(t, m)
              /\ t \in Nat /\ From(m) \in Nat /\ Len(sent) \in Nat
              /\ m <= Files => From(m + 1) = From(m) + MessageLen
<1>1. SenderType /\ ReceiverInv
  BY DEF IInv
<1>2. PICK t \in 0 .. Len(sent), m \in 1 .. Files + 1 : WireInv(t) /\ Place(t, m)
  BY <1>1 DEF ReceiverInv
<1>3. Len(sent) \in Nat /\ t \in Nat
  BY <1>1, <1>2 DEF SenderType, Bytes
<1>4. From(m) \in Nat
  BY <1>1, FromIs
<1>5. m <= Files => From(m + 1) = From(m) + MessageLen
  <2>1. m <= Files => m \in 1 .. Files
    BY Numbers
  <2> QED BY <1>1, <2>1, FromIs
<1> QED BY <1>1, <1>2, <1>3, <1>4, <1>5 DEF ReceiverInv

(* ReceiverDone: nothing is lost when the loop ends.                       *)
LEMMA ReceiverDoneKeeps ==
  ASSUME IInv, ReceiverDone
  PROVE  IInv'
<1>1. /\ rcvPc' = "done"
      /\ UNCHANGED <<setup, error, wire, sender, inBlock, rcvStatus, dataSize,
                     needRcv, stay, buffer, chunk, iRcv, got>>
  BY DEF ReceiverDone
<1> SUFFICES ASSUME InTurn
             PROVE  /\ ReceiverType'
                    /\ \E t \in 0 .. Len(sent) : \E m \in 1 .. Files + 1 :
                         WireInv(t) /\ Place(t, m)'
  BY <1>1, StepKept DEF IInv, SenderType
<1>2. PICK t \in 0 .. Len(sent), m \in 1 .. Files + 1 : WireInv(t) /\ Place(t, m)
  BY PlaceIs
<1>3. \A s, n : Got(s, n) => (Got(s, n))'
  BY <1>1, Same DEF Got, Large
<1>4. ReceiverType'
  <2>1. ReceiverType
    BY PlaceIs
  <2>2. \A n : Got(got, n) => Got(got, n)'
    BY <1>1, Same DEF Got, Large
  <2> QED BY <1>1, <2>1, <2>2 DEF ReceiverType, Needs
<1>5. Place(t, m)'
  BY <1>1, <1>2 DEF Place, HeaderInv, DataInv, PadInv, EndInv, LoopInv
<1> QED BY <1>2, <1>4, <1>5

-----------------------------------------------------------------------------
(* A part of a string of bytes.                                            *)
LEMMA PartIs ==
  ASSUME NEW b \in Bytes, NEW from \in Nat, NEW n \in Nat, from + n <= Len(b)
  PROVE  /\ SubSeq(b, from + 1, from + n) \in Bytes
         /\ Len(SubSeq(b, from + 1, from + n)) = n
         /\ \A i \in 1 .. n : SubSeq(b, from + 1, from + n)[i] = b[from + i]
<1>1. PICK l \in Nat : l = Len(b)
  BY DEF Bytes
<1>2. \A i \in 1 .. l : b[i] \in Nat
  BY <1>1 DEF Bytes
<1>3. \A i \in from + 1 .. from + n : i \in 1 .. l
  BY <1>1
<1>4. \A i \in from + 1 .. from + n : b[i] \in Nat
  BY <1>2, <1>3
<1>5. PICK x \in Int, y \in Int : x = from + 1 /\ y = from + n
  OBVIOUS
<1>6. /\ SubSeq(b, x, y) \in Seq(Nat)
      /\ Len(SubSeq(b, x, y)) = IF x <= y THEN y - x + 1 ELSE 0
      /\ \A i \in 1 .. y - x + 1 : SubSeq(b, x, y)[i] = b[x + i - 1]
  BY <1>4, <1>5, SubSeqProperties
<1>7. y - x + 1 = n /\ (x <= y <=> n > 0)
      /\ \A i \in 1 .. n : x + i - 1 = from + i
  BY <1>5
<1>8. Len(SubSeq(b, x, y)) = n
  BY <1>6, <1>7
<1>9. \A i \in 1 .. n : SubSeq(b, x, y)[i] = b[from + i]
  BY <1>6, <1>7
<1> QED BY <1>5, <1>6, <1>8, <1>9 DEF Bytes

(* A word that was read.                                                   *)
LEMMA WordRead ==
  ASSUME NEW b \in Bytes, Len(b) = Word
  PROVE  /\ ToNumber(b) \in Nat
         /\ \A n \in Nat : (\A o \in 1 .. Word : b[o] = ToWord(n)[o]) =>
              /\ ToNumber(b) = n % Weight[Word]
              /\ n < Weight[Word] => ToNumber(b) = n
<1>1. b \in [1 .. Word -> Nat]
  <2>1. \A d \in Seq(Nat) : d \in [1 .. Len(d) -> Nat]
    OBVIOUS
  <2>2. b \in [1 .. Len(b) -> Nat]
    BY <2>1 DEF Bytes
  <2> QED BY <2>2
<1>2. /\ ToNumber(b) \in Nat
      /\ \A n \in Nat : b = ToWord(n) => ToNumber(b) = n % Weight[Word]
  BY <1>1, WordIs
<1>3. ASSUME NEW n \in Nat, \A o \in 1 .. Word : b[o] = ToWord(n)[o]
      PROVE  /\ ToNumber(b) = n % Weight[Word]
             /\ n < Weight[Word] => ToNumber(b) = n
  <2>1. b = [o \in 1 .. Word |-> ToWord(n)[o]]
    BY <1>1, <1>3
  <2>2. ToWord(n) = [o \in 1 .. Word |-> ToWord(n)[o]]
    BY DEF ToWord
  <2>3. ToNumber(b) = n % Weight[Word]
    BY <1>2, <2>1, <2>2
  <2>4. PICK w \in Nat \ {0} : w = Weight[Word]
    BY WeightIs, Numbers
  <2>5. n < w => (0 * w + n) % w = n /\ 0 * w + n = n
    BY DivModUnique
  <2> QED BY <2>3, <2>4, <2>5
<1> QED BY <1>2, <1>3

(* What was sent of a file, and of what comes after the files.             *)
LEMMA SentIs ==
  ASSUME SenderType, StreamInv
  PROVE  /\ \A m \in 1 .. Files :
              /\ From(m) + 2 * Word <= Len(sent) => \A o \in 1 .. Word :
                   /\ sent[From(m) + o] = ToWord(setup.size)[o]
                   /\ sent[From(m) + Word + o] = ToWord(DataTag)[o]
              /\ \A o \in 1 .. setup.size :
                   From(m) + 2 * Word + o <= Len(sent) =>
                     sent[From(m) + 2 * Word + o] =
                       Contents[(m - 1) * setup.size + o]
         /\ Len(sent) > Total =>
              /\ sendPc = "closed" /\ Len(sent) = Total + 3 * Word
              /\ \E tag \in {ServiceTag, PaddingTag, OtherTag} :
                   \A o \in 1 .. Word :
                     sent[Total + Word + o] = ToWord(tag)[o]
<1>1. PICK l \in Nat, T \in Nat : l = Len(sent) /\ T = Total
  BY FromIs DEF SenderType, Bytes
<1>2. \A i \in 1 .. l : i <= T => sent[i] = Messages[i]
  BY <1>1 DEF StreamInv
<1>3. ASSUME NEW m \in 1 .. Files
      PROVE  /\ From(m) + 2 * Word <= l => \A o \in 1 .. Word :
                  /\ sent[From(m) + o] = ToWord(setup.size)[o]
                  /\ sent[From(m) + Word + o] = ToWord(DataTag)[o]
             /\ \A o \in 1 .. setup.size :
                  From(m) + 2 * Word + o <= l =>
                    sent[From(m) + 2 * Word + o] =
                      Contents[(m - 1) * setup.size + o]
  <2>1. PICK F \in Nat : F = From(m) /\ F + MessageLen <= T
    BY <1>1, FromIs, Numbers
  <2>2. PICK s \in Nat, pad \in Nat, w \in Nat :
          s = setup.size /\ pad = PadOf(setup.size) /\ w = Word
    <3>1. setup.size \in Nat /\ PadOf(setup.size) \in Nat /\ Word \in Nat
      BY Fields, PadIs, Numbers
    <3> QED BY <3>1
  <2>3. MessageLen = 2 * w + s + pad
    BY <2>2 DEF MessageLen
  <2>4. F + (2 * w + s + pad) <= T
    BY <2>1, <2>3
  <2>5. /\ \A o \in 1 .. w : /\ Messages[F + o] = ToWord(setup.size)[o]
                             /\ Messages[F + w + o] = ToWord(DataTag)[o]
        /\ \A o \in 1 .. s : Messages[F + 2 * w + o] = FileByte(m, o)
    BY <2>1, <2>2, MessagesAre
  <2>6. \A o \in 1 .. s : Contents[(m - 1) * setup.size + o] = FileByte(m, o)
    BY <2>2, ContentsAre
  <2>7. ASSUME F + 2 * w <= l, NEW o \in 1 .. w
        PROVE  /\ sent[F + o] = ToWord(setup.size)[o]
               /\ sent[F + w + o] = ToWord(DataTag)[o]
    <3>1. F + o \in 1 .. l /\ F + o <= T /\ F + w + o \in 1 .. l /\ F + w + o <= T
      BY <2>4, <2>7
    <3> QED BY <1>2, <2>5, <3>1
  <2>8. ASSUME NEW o \in 1 .. s, F + 2 * w + o <= l
        PROVE  sent[F + 2 * w + o] = FileByte(m, o)
    <3>1. F + 2 * w + o \in 1 .. l /\ F + 2 * w + o <= T
      BY <2>4, <2>8
    <3> QED BY <1>2, <2>5, <3>1
  <2> QED BY <2>1, <2>2, <2>6, <2>7, <2>8
<1>4. ASSUME l > T
      PROVE  /\ sendPc = "closed" /\ Len(sent) = Total + 3 * Word
             /\ \E tag \in {ServiceTag, PaddingTag, OtherTag} :
                  \A o \in 1 .. Word :
                    sent[Total + Word + o] = ToWord(tag)[o]
  <2>1. ~(Len(sent) <= Total)
    BY <1>1, <1>4
  <2>2. sendPc = "closed"
    BY <2>1 DEF StreamInv
  <2> QED BY <2>2 DEF StreamInv
<1>5. Len(sent) > Total => l > T
  BY <1>1
<1> QED BY <1>1, <1>3, <1>4, <1>5

(* The program gets more of the files.                                     *)
LEMMA GotMore ==
  ASSUME NEW s \in Bytes, NEW n \in Nat, Got(s, n), NEW b \in Bytes,
         Large => \A i \in 1 .. Len(b) : b[i] = Contents[n + i]
  PROVE  s \o b \in Bytes /\ Got(s \o b, n + Len(b))
<1>1. s \o b \in Bytes /\ Len(b) \in Nat
  BY DEF Bytes
<1> SUFFICES ASSUME Large
             PROVE  /\ Len(s \o b) = n + Len(b)
                    /\ \A i \in 1 .. n + Len(b) : (s \o b)[i] = Contents[i]
  BY <1>1 DEF Got
<1>2. Len(s) = n /\ \A i \in 1 .. n : s[i] = Contents[i]
  BY DEF Got
<1>3. Joins(s \o b, s, n, b, Len(b))
  BY <1>2, Joined
<1>4. PICK c : c = s \o b
  OBVIOUS
<1>5. PICK l \in Nat : l = Len(b)
  BY <1>1
<1>6. ASSUME NEW i \in 1 .. n + l PROVE c[i] = Contents[i]
  <2>1. CASE i <= n
    <3>1. i \in 1 .. n
      BY <2>1
    <3> QED BY <1>2, <1>3, <1>4, <3>1 DEF Joins
  <2>2. CASE i > n
    <3>1. PICK j \in 1 .. l : n + j = i
      <4>1. i - n \in 1 .. l /\ n + (i - n) = i
        BY <2>2
      <4> QED BY <4>1
    <3>2. c[n + j] = b[j]
      BY <1>3, <1>4, <1>5 DEF Joins
    <3>3. b[j] = Contents[n + j]
      BY <1>5
    <3> QED BY <3>1, <3>2, <3>3
  <2> QED BY <2>1, <2>2
<1> QED BY <1>3, <1>4, <1>5, <1>6 DEF Joins

-----------------------------------------------------------------------------
(* Each step of the receiver.  A header is that of the next file, or tells *)
(* that there is none.                                                     *)
LEMMA HeaderIsRead ==
  ASSUME IInv, InTurn, Through("header"), NEW t \in Nat,
         NEW m \in 1 .. Files + 1, From(m) \in Nat, t <= Len(sent),
         Place(t, m)
  PROVE  LET size == ToNumber(SubSeq(buffer, 1, Word))
             tag  == ToNumber(SubSeq(buffer, Word + 1, 2 * Word))
         IN /\ size \in Nat /\ tag \in Nat
            /\ t = From(m) + 2 * Word
            /\ Got(got \o chunk, (m - 1) * setup.size)
            /\ m <= Files => size = setup.size /\ tag = DataTag
            /\ m = Files + 1 => tag \in {ServiceTag, PaddingTag, OtherTag}
<1>1. SenderType /\ StreamInv
  BY DEF IInv
<1>2. buffer \in Bytes /\ stay = 0 /\ rcvPc = "header"
  BY PlaceIs DEF ReceiverType, Through
<1>3. /\ Got(got \o chunk, (m - 1) * setup.size)
      /\ Reads(From(m), 2 * Word, t)
  BY <1>2 DEF Place, HeaderInv, Lost
<1>4. PICK w \in Nat \ {0} : w = Word
  BY Numbers
<1>5. PICK l \in Nat, F \in Nat : l = Len(sent) /\ F = From(m)
  BY <1>1 DEF SenderType, Bytes
<1>6. /\ Len(buffer) = 2 * w /\ t = F + 2 * w /\ F + 2 * w <= l
      /\ \A i \in 1 .. 2 * w : buffer[i] = sent[F + i]
  <2>1. Len(buffer) \in Nat
    BY <1>2 DEF Bytes
  <2>2. Len(buffer) = 2 * w
    BY <1>2, <1>3, <1>4, <2>1 DEF Reads
  <2> QED BY <1>3, <1>4, <1>5, <2>2 DEF Reads
<1>7. PICK a \in Bytes, b \in Bytes :
        /\ a = SubSeq(buffer, 1, Word) /\ b = SubSeq(buffer, Word + 1, 2 * Word)
        /\ Len(a) = w /\ \A o \in 1 .. w : a[o] = sent[F + o]
        /\ Len(b) = w /\ \A o \in 1 .. w : b[o] = sent[F + w + o]
  <2>1. 0 + w <= Len(buffer) /\ w + w <= Len(buffer) /\ w + w = 2 * w
        /\ 0 + 1 = 1 /\ 0 + w = w /\ \A o \in 1 .. w : 0 + o = o
    BY <1>6
  <2>2. /\ SubSeq(buffer, 0 + 1, 0 + w) \in Bytes
        /\ Len(SubSeq(buffer, 0 + 1, 0 + w)) = w
        /\ \A o \in 1 .. w : SubSeq(buffer, 0 + 1, 0 + w)[o] = buffer[0 + o]
    BY <1>2, <2>1, PartIs
  <2>3. /\ SubSeq(buffer, w + 1, w + w) \in Bytes
        /\ Len(SubSeq(buffer, w + 1, w + w)) = w
        /\ \A o \in 1 .. w : SubSeq(buffer, w + 1, w + w)[o] = buffer[w + o]
    BY <1>2, <2>1, PartIs
  <2>4. PICK a : a = SubSeq(buffer, 0 + 1, 0 + w)
    OBVIOUS
  <2>5. PICK b : b = SubSeq(buffer, w + 1, w + w)
    OBVIOUS
  <2>6. a = SubSeq(buffer, 1, Word) /\ b = SubSeq(buffer, Word + 1, 2 * Word)
    BY <1>4, <2>1, <2>4, <2>5
  <2>7. \A o \in 1 .. w : /\ o \in 1 .. 2 * w /\ w + o \in 1 .. 2 * w
                          /\ F + (w + o) = F + w + o
    OBVIOUS
  <2>8. a \in Bytes /\ Len(a) = w /\ \A o \in 1 .. w : a[o] = sent[F + o]
    BY <1>6, <2>1, <2>2, <2>4, <2>7
  <2>9. b \in Bytes /\ Len(b) = w /\ \A o \in 1 .. w : b[o] = sent[F + w + o]
    BY <1>6, <2>3, <2>5, <2>7
  <2> QED BY <2>6, <2>8, <2>9
<1>8. ToNumber(a) \in Nat /\ ToNumber(b) \in Nat
  BY <1>4, <1>7, WordRead
<1>9. ASSUME m <= Files PROVE ToNumber(a) = setup.size /\ ToNumber(b) = DataTag
  <2>1. m \in 1 .. Files /\ setup.size \in Nat /\ setup.size < Weight[Word]
        /\ DataTag < Weight[Word] /\ DataTag \in Nat
    <3>1. DataTag < Weight[Word]
      <4>1. Weight[Word] \in Nat \ {0}
        BY WeightIs, Numbers
      <4> QED BY <4>1 DEF DataTag
    <3> QED BY <1>1, <1>9, <3>1, Fields, Numbers DEF DataTag
  <2>2. \A o \in 1 .. Word : /\ sent[From(m) + o] = ToWord(setup.size)[o]
                             /\ sent[From(m) + Word + o] = ToWord(DataTag)[o]
    <3>1. From(m) + 2 * Word <= Len(sent)
      BY <1>4, <1>5, <1>6
    <3> QED BY <1>1, <2>1, <3>1, SentIs
  <2>3. /\ \A o \in 1 .. Word : a[o] = ToWord(setup.size)[o]
        /\ \A o \in 1 .. Word : b[o] = ToWord(DataTag)[o]
    BY <1>4, <1>5, <1>7, <2>2
  <2> QED BY <1>4, <1>7, <2>1, <2>3, WordRead
<1>10. ASSUME m = Files + 1
       PROVE  ToNumber(b) \in {ServiceTag, PaddingTag, OtherTag}
  <2>1. From(m) = Total
    BY <1>1, <1>10, FromIs
  <2>2. Len(sent) > Total
    BY <1>4, <1>5, <1>6, <2>1
  <2>3. PICK tag \in {ServiceTag, PaddingTag, OtherTag} :
          \A o \in 1 .. Word : sent[Total + Word + o] = ToWord(tag)[o]
    BY <1>1, <2>2, SentIs
  <2>4. \A o \in 1 .. Word : b[o] = ToWord(tag)[o]
    BY <1>4, <1>5, <1>7, <2>1, <2>3
  <2>5. tag \in Nat /\ tag < Weight[Word]
    <3>1. Weight[Word] \in Nat /\ Weight[Word] >= Base
      <4>1. Weight[Word] = Base * Weight[Word - 1]
        BY WeightIs, <1>4
      <4>2. PICK v \in Nat \ {0} : v = Weight[Word - 1]
        BY WeightIs, <1>4
      <4>3. PICK c \in Nat \ {0} : c = Base
        BY Numbers
      <4>4. c * v >= c /\ c * v \in Nat
        <5>1. c * v = c + c * (v - 1)
          OBVIOUS
        <5>2. c * (v - 1) \in Nat
          OBVIOUS
        <5> QED BY <5>1, <5>2
      <4> QED BY <4>1, <4>2, <4>3, <4>4
    <3>2. PICK v \in Nat : v = Weight[Word]
      BY <3>1
    <3>3. PICK c \in Nat : c = Base /\ c > 3
      BY Numbers
    <3>4. v > 3
      BY <3>1, <3>2, <3>3
    <3>5. tag \in {1, 2, 3}
      BY DEF ServiceTag, PaddingTag, OtherTag
    <3> QED BY <3>2, <3>4, <3>5
  <2> QED BY <1>4, <1>7, <2>4, <2>5, WordRead
<1> QED BY <1>3, <1>4, <1>5, <1>6, <1>7, <1>8, <1>9, <1>10

(* The files one after the other.                                          *)
LEMMA SizesAre ==
  ASSUME SenderType
  PROVE  /\ Files * setup.size \in Nat
         /\ \A m \in 1 .. Files + 1 : (m - 1) * setup.size \in 0 .. Files * setup.size
         /\ (Files + 1 - 1) * setup.size = Files * setup.size
         /\ \A m \in 1 .. Files :
              /\ m * setup.size \in 0 .. Files * setup.size
              /\ m * setup.size = (m - 1) * setup.size + setup.size
              /\ (m + 1 - 1) * setup.size = m * setup.size
              /\ m + 1 \in 1 .. Files + 1
<1>1. PICK s \in Nat : s = setup.size
  BY Fields
<1>2. PICK n \in Nat \ {0} : n = Files
  BY Numbers
<1>3. \A k \in 0 .. n : k * s \in 0 .. n * s
  <2> SUFFICES ASSUME NEW k \in 0 .. n PROVE k * s \in 0 .. n * s
    OBVIOUS
  <2>1. k * s \in Nat /\ (n - k) * s \in Nat /\ n * s = k * s + (n - k) * s
    OBVIOUS
  <2> QED BY <2>1
<1>4. n * s \in Nat /\ (n + 1 - 1) * s = n * s
  OBVIOUS
<1>5. \A m \in 1 .. n + 1 : m - 1 \in 0 .. n
  OBVIOUS
<1>6. \A m \in 1 .. n : /\ m \in 0 .. n /\ m * s = (m - 1) * s + s
                        /\ (m + 1 - 1) * s = m * s /\ m + 1 \in 1 .. n + 1
  OBVIOUS
<1> QED BY <1>1, <1>2, <1>3, <1>4, <1>5, <1>6

(* Where the messages begin is no concern of the receiver.                 *)
LEMMA SenderSame ==
  ASSUME UNCHANGED <<setup, sender>>
  PROVE  /\ \A m : From(m)' = From(m)
         /\ Total' = Total /\ sent' = sent /\ sendPc' = sendPc
         /\ PadOf(setup.size)' = PadOf(setup.size) /\ Block' = Block
BY Same DEF From, sender

(* The receiver asks for a header, or for what is left of a file before it.*)
LEMMA NeedHeader ==
  ASSUME SenderType, UNCHANGED <<setup, sender>>, NEW t \in Nat,
         NEW m \in 1 .. Files + 1, Need("header", 2 * Word),
         rcvStatus' # "Finish",
         Got(got \o chunk, (m - 1) * setup.size)',
         t = From(m) \/ error'
  PROVE  Place(t, m)'
<1>1. rcvPc' = "header" /\ stay' = 2 * Word /\ buffer' = <<>>
  BY DEF Need
<1>2. Lost' \/ Reads(From(m), 2 * Word, t)'
  <2>1. CASE error'
    <3>1. 2 * Word > 0
      BY Numbers
    <3> QED BY <1>1, <2>1, <3>1 DEF Lost
  <2>2. CASE t = From(m)
    <3>1. Len(<<>>) + 2 * Word = 2 * Word /\ t = t + Len(<<>>)
          /\ 1 .. Len(<<>>) = {}
      BY Numbers
    <3>2. From(m)' = t
      BY <2>2, SenderSame
    <3> QED BY <1>1, <3>1, <3>2 DEF Reads
  <2> QED BY <2>1, <2>2
<1>3. HeaderInv(t, m)'
  BY <1>2 DEF HeaderInv
<1> QED BY <1>1, <1>3 DEF Place, DataInv, PadInv, EndInv, LoopInv

(* After the last data: the padding to a word, and then the next header.   *)
LEMMA RestKept ==
  ASSUME SenderType, UNCHANGED <<setup, sender>>, NEW t \in Nat,
         NEW m \in 1 .. Files, ~setup.sync, dataSize = setup.size,
         dataSize' = dataSize, AfterBlockRest, rcvStatus' # "Finish",
         Got(got \o chunk, m * setup.size)',
         t = From(m) + 2 * Word + setup.size \/ error'
  PROVE  /\ rcvPc' \in {"header", "padWord"} /\ stay' \in Nat /\ buffer' = <<>>
         /\ \E k \in 1 .. Files + 1 : Place(t, k)'
<1>1. PICK s \in Nat, pad \in Nat, w \in Nat, F \in Nat :
        /\ s = setup.size /\ pad = PadOf(setup.size) /\ w = 2 * Word
        /\ F = From(m)
  <2>1. setup.size \in Nat /\ PadOf(setup.size) \in Nat /\ 2 * Word \in Nat
        /\ From(m) \in Nat
    BY Fields, PadIs, Numbers, FromIs
  <2> QED BY <2>1
<1>2. CASE pad > 0
  <2>1. rcvPc' = "padWord" /\ stay' = pad /\ buffer' = <<>>
    BY <1>1, <1>2 DEF AfterBlockRest, Need
  <2>2. Lost' \/ Reads(From(m) + 2 * Word + setup.size, PadOf(setup.size), t)'
    <3>1. CASE error'
      BY <1>2, <2>1, <3>1 DEF Lost
    <3>2. CASE t = From(m) + 2 * Word + setup.size
      <4>1. Len(<<>>) + pad = pad /\ t = t + Len(<<>>) /\ 1 .. Len(<<>>) = {}
        OBVIOUS
      <4>2. (From(m) + 2 * Word + setup.size)' = t /\ PadOf(setup.size)' = pad
        BY <1>1, <3>2, SenderSame
      <4> QED BY <2>1, <4>1, <4>2 DEF Reads
    <3> QED BY <3>1, <3>2
  <2>3. PadInv(t, m)'
    BY <2>1, <2>2, Numbers DEF PadInv
  <2>4. Place(t, m)' /\ m \in 1 .. Files + 1
    BY <2>1, <2>3, Numbers DEF Place, HeaderInv, DataInv, EndInv, LoopInv
  <2> QED BY <2>1, <2>4
<1>3. CASE pad = 0
  <2>1. Need("header", 2 * Word)
    BY <1>1, <1>3 DEF AfterBlockRest
  <2>2. From(m + 1) = F + w + s
    <3>1. MessageLen = w + s + pad
      BY <1>1 DEF MessageLen
    <3>2. From(m + 1) = F + (w + s + pad)
      BY <1>1, <3>1, FromIs
    <3>3. F + (w + s + pad) = F + w + s
      BY <1>3
    <3> QED BY <3>2, <3>3
  <2>3. PICK k \in 1 .. Files + 1 : k = m + 1 /\ (k - 1) * setup.size = m * setup.size
    BY SizesAre
  <2>4. Got(got \o chunk, (k - 1) * setup.size)'
    BY <2>3 DEF Got
  <2>5. t = From(k) \/ error'
    BY <1>1, <2>2, <2>3
  <2>6. Place(t, k)'
    BY <2>1, <2>4, <2>5, NeedHeader
  <2> QED BY <1>1, <2>1, <2>6 DEF Need
<1> QED BY <1>1, <1>2, <1>3

(* What is ready goes to the program.                                      *)
LEMMA Returned ==
  ASSUME SenderType, ReceiverType, setup' = setup, ToProgram,
         NEW n \in 0 .. Files * setup.size, Got(got \o chunk, n),
         dataSize' \in Nat, needRcv' \in Nat,
         rcvStatus' \in {"UnsupportTag", "DataProcessing", "DataPadding",
                         "AllData", "Finish", "Termination", "Error"},
         setup.sync => rcvStatus' \notin {"DataProcessing", "AllData", "Finish"}
  PROVE  /\ ReceiverType' /\ Got(got, n)' /\ chunk' = <<>>
         /\ rcvPc' \in {"loop", "done"} /\ (setup.sync => rcvPc' = "done")
<1>1. /\ got' = got \o chunk /\ chunk' = <<>> /\ inBlock' = FALSE
      /\ rcvPc' \in {"loop", "done"} /\ (setup.sync => rcvPc' = "done")
      /\ stay' = stay /\ buffer' = buffer
  BY Fields DEF ToProgram
<1>2. Got(got, n)'
  BY <1>1, Same DEF Got, Large
<1>3. /\ got' \in Bytes /\ chunk' \in Bytes /\ buffer' \in Bytes /\ stay' \in Nat
  BY <1>1 DEF ReceiverType, Bytes
<1>4. ReceiverType'
  <2>1. \E k \in 0 .. Files * setup.size' : Got(got, k)'
    BY <1>2
  <2> QED BY <1>1, <1>3, <2>1 DEF ReceiverType, Needs
<1> QED BY <1>1, <1>2, <1>4

(* HeaderRead: the header of a file sets dataSize_ to its size; one of     *)
(* another kind is the message of the server, after all files.             *)
LEMMA HeaderReadKeeps ==
  ASSUME IInv, HeaderRead
  PROVE  IInv'
<1> DEFINE size == ToNumber(SubSeq(buffer, 1, Word))
           tag  == ToNumber(SubSeq(buffer, Word + 1, 2 * Word))
<1>1. /\ Through("header") /\ dataSize' = size /\ needRcv' = size
      /\ UNCHANGED <<setup, error, wire, sender, iRcv>>
  BY DEF HeaderRead
<1> SUFFICES ASSUME InTurn
             PROVE  /\ ReceiverType'
                    /\ \E t \in 0 .. Len(sent) : \E m \in 1 .. Files + 1 :
                         WireInv(t) /\ Place(t, m)'
  BY <1>1, StepKept DEF IInv, SenderType
<1>2. SenderType /\ ReceiverType
  BY PlaceIs DEF IInv
<1>3. PICK t \in 0 .. Len(sent), m \in 1 .. Files + 1 :
        /\ WireInv(t) /\ Place(t, m) /\ t \in Nat /\ From(m) \in Nat
        /\ Len(sent) \in Nat
  BY PlaceIs
<1>4. t <= Len(sent)
  BY <1>3
<1>5. /\ size \in Nat /\ tag \in Nat /\ t = From(m) + 2 * Word
      /\ Got(got \o chunk, (m - 1) * setup.size)
      /\ m <= Files => size = setup.size /\ tag = DataTag
      /\ m = Files + 1 => tag \in {ServiceTag, PaddingTag, OtherTag}
  BY <1>1, <1>3, <1>4, HeaderIsRead
<1>6. m <= Files \/ m = Files + 1
  BY Numbers
<1>7. (m - 1) * setup.size \in 0 .. Files * setup.size
      /\ (m = Files + 1 => (m - 1) * setup.size = Files * setup.size
                           /\ From(m) = Total)
  <2>1. (m - 1) * setup.size \in 0 .. Files * setup.size
    BY <1>2, SizesAre
  <2>2. m = Files + 1 => (m - 1) * setup.size = Files * setup.size
    <3>1. m = Files + 1 => m - 1 = Files
      BY Numbers
    <3> QED BY <3>1
  <2>3. m = Files + 1 => From(m) = Total
    BY <1>2, FromIs
  <2> QED BY <2>1, <2>2, <2>3
<1>8. rcvPc = "header" /\ rcvStatus \notin {"Finish", "DataProcessing"}
  BY <1>1, <1>2 DEF Through, ReceiverType, Needs
<1>9. setup.sync => chunk = <<>> /\ rcvStatus \notin {"AllData"}
  BY <1>2 DEF ReceiverType
<1> HIDE DEF size, tag
<1>10. DataTag # ServiceTag /\ DataTag # PaddingTag /\ DataTag # OtherTag
  BY DEF DataTag, ServiceTag, PaddingTag, OtherTag
<1>11. CASE /\ tag = ServiceTag
            /\ Need("service", Word)
            /\ UNCHANGED <<rcvStatus, inBlock, chunk, got>>
  <2>1. m = Files + 1
    BY <1>5, <1>6, <1>10, <1>11
  <2>2. /\ rcvPc' = "service" /\ stay' = Word /\ buffer' = <<>>
        /\ rcvStatus' = rcvStatus /\ chunk' = chunk /\ got' = got
        /\ inBlock' = inBlock
    BY <1>11 DEF Need
  <2>3. ReceiverType'
    <3>1. PICK n \in 0 .. Files * setup.size : Got(got, n)
      BY <1>2 DEF ReceiverType
    <3>2. Got(got, n)'
      BY <1>1, <2>2, <3>1, Same DEF Got, Large
    <3>3. \E k \in 0 .. Files * setup.size' : Got(got, k)'
      BY <1>1, <3>2
    <3>4. <<>> \in Bytes
      BY DEF Bytes
    <3> QED BY <1>1, <1>2, <1>5, <1>8, <2>2, <3>3, <3>4, Numbers DEF ReceiverType, Needs
  <2>4. Place(t, m)'
    <3>1. Got(got \o chunk, Files * setup.size)'
      <4>1. Got(got \o chunk, Files * setup.size)
        BY <1>5, <1>7, <2>1 DEF Got
      <4> QED BY <1>1, <2>2, <4>1, Same DEF Got, Large
    <3>2. Reads(Total + 2 * Word, Word, t)'
      <4>1. Len(<<>>) + Word = Word /\ t = t + Len(<<>>) /\ 1 .. Len(<<>>) = {}
        BY <1>3, Numbers
      <4>2. (Total + 2 * Word)' = t
        BY <1>1, <1>5, <1>7, <2>1, SenderSame
      <4> QED BY <2>2, <4>1, <4>2 DEF Reads
    <3>3. EndInv(t, m)'
      BY <2>2, <3>1, <3>2 DEF EndInv
    <3> QED BY <1>8, <2>2, <3>3 DEF Place, HeaderInv, DataInv, PadInv, LoopInv
  <2> QED BY <1>3, <2>3, <2>4
<1>12. CASE /\ tag = DataTag /\ setup.sync
            /\ Need("data", size + PadOf(size))
            /\ UNCHANGED <<rcvStatus, inBlock, chunk, got>>
  <2>1. m \in 1 .. Files /\ size = setup.size
    BY <1>5, <1>6, <1>10, <1>12
  <2>2. PICK n \in Nat : n = setup.size + PadOf(setup.size)
    <3>1. PICK s \in Nat : s = setup.size
      BY <1>2, Fields
    <3>2. PadOf(s) \in 0 .. Word - 1
      BY PadIs
    <3>3. PICK p \in Nat : p = PadOf(s)
      BY <3>2, Numbers
    <3> QED BY <3>1, <3>3
  <2>3. /\ rcvPc' = "data" /\ stay' = n /\ buffer' = <<>>
        /\ rcvStatus' = rcvStatus /\ chunk' = chunk /\ got' = got
        /\ inBlock' = inBlock /\ chunk = <<>>
    BY <1>9, <1>12, <2>1, <2>2 DEF Need
  <2>4. got \o chunk = got
    BY <1>2, <2>3 DEF ReceiverType, Bytes
  <2>5. Got(got, (m - 1) * setup.size)'
    <3>1. Got(got, (m - 1) * setup.size)
      BY <1>5, <2>4
    <3> QED BY <1>1, <2>3, <3>1, Same DEF Got, Large
  <2>6. ReceiverType'
    <3>1. PICK k \in 0 .. Files * setup.size : Got(got, k)'
      <4>1. PICK k \in 0 .. Files * setup.size : k = (m - 1) * setup.size
        BY <1>7
      <4>2. Got(got, k)'
        BY <1>1, <2>5, <4>1 DEF Got
      <4> QED BY <4>2
    <3>2. \E k1 \in 0 .. Files * setup.size' : Got(got, k1)'
      BY <1>1, <3>1
    <3>3. <<>> \in Bytes
      BY DEF Bytes
    <3> QED BY <1>1, <1>2, <1>5, <1>8, <1>9, <2>3, <3>2, <3>3 DEF ReceiverType, Needs
  <2>7. Place(t, m)'
    <3>1. Reads(From(m) + 2 * Word, setup.size + PadOf(setup.size), t)'
      <4>1. Len(<<>>) + n = n /\ t = t + Len(<<>>) /\ 1 .. Len(<<>>) = {}
        BY <1>3
      <4>2. (From(m) + 2 * Word)' = t /\ (setup.size + PadOf(setup.size))' = n
        BY <1>1, <1>5, <2>2, SenderSame
      <4> QED BY <2>3, <4>1, <4>2 DEF Reads
    <3>2. DataInv(t, m)'
      BY <1>1, <1>12, <2>1, <2>3, <2>5, <3>1 DEF DataInv
    <3> QED BY <1>8, <2>3, <3>2 DEF Place, HeaderInv, EndInv, PadInv, LoopInv
  <2> QED BY <1>3, <2>6, <2>7
<1>13. CASE /\ tag = DataTag /\ ~setup.sync
            /\ rcvStatus' = "DataProcessing"
            /\ ToProgram
  <2>1. m \in 1 .. Files /\ size = setup.size
    BY <1>5, <1>6, <1>10, <1>13
  <2>2. PICK n \in 0 .. Files * setup.size : n = (m - 1) * setup.size
    BY <1>7
  <2>3. /\ ReceiverType' /\ Got(got, n)' /\ chunk' = <<>>
        /\ rcvPc' \in {"loop", "done"}
    BY <1>1, <1>2, <1>5, <1>13, <2>2, Returned
  <2>4. Place(t, m)'
    <3>1. m * setup.size - setup.size = n
      <4>1. PICK s \in Nat : s = setup.size
        BY <1>2, Fields
      <4>2. m * setup.size = n + s
        BY <1>2, <2>1, <2>2, <4>1, SizesAre
      <4> QED BY <4>1, <4>2
    <3>2. Got(got, m * setup.size - needRcv)'
      BY <1>1, <2>1, <2>3, <3>1 DEF Got
    <3>3. t = Rest(m)'
      <4>1. PICK s \in Nat, w \in Nat, F \in Nat :
              s = setup.size /\ w = 2 * Word /\ F = From(m)
        <5>1. setup.size \in Nat /\ 2 * Word \in Nat
          BY <1>2, Fields, Numbers
        <5> QED BY <1>3, <5>1
      <4>2. Rest(m)' = F + w + s - s
        BY <1>1, <2>1, <4>1, SenderSame DEF Rest
      <4>3. F + w + s - s = F + w
        OBVIOUS
      <4> QED BY <1>5, <4>1, <4>2, <4>3
    <3>4. LoopInv(t, m)'
      BY <1>1, <1>2, <1>13, <2>1, <2>3, <3>2, <3>3, Fields DEF LoopInv
    <3> QED BY <1>13, <2>3, <3>4 DEF Place, HeaderInv, DataInv, EndInv, PadInv
  <2> QED BY <1>3, <2>3, <2>4
<1>14. CASE /\ tag = PaddingTag /\ ~setup.sync
            /\ rcvStatus' = "DataPadding"
            /\ Need("padding", size)
            /\ UNCHANGED <<inBlock, chunk, got>>
  <2>1. m = Files + 1
    BY <1>5, <1>6, <1>10, <1>14
  <2>2. /\ rcvPc' = "padding" /\ stay' = size /\ buffer' = <<>>
        /\ chunk' = chunk /\ got' = got /\ inBlock' = inBlock
    BY <1>14 DEF Need
  <2>3. ReceiverType'
    <3>1. PICK n \in 0 .. Files * setup.size : Got(got, n)
      BY <1>2 DEF ReceiverType
    <3>2. Got(got, n)'
      BY <1>1, <2>2, <3>1, Same DEF Got, Large
    <3>3. \E k \in 0 .. Files * setup.size' : Got(got, k)'
      BY <1>1, <3>2
    <3>4. <<>> \in Bytes
      BY DEF Bytes
    <3> QED BY <1>1, <1>2, <1>5, <1>14, <2>2, <3>3, <3>4 DEF ReceiverType, Needs
  <2>4. Place(t, m)'
    <3>1. Got(got \o chunk, Files * setup.size)'
      <4>1. Got(got \o chunk, Files * setup.size)
        BY <1>5, <1>7, <2>1 DEF Got
      <4> QED BY <1>1, <2>2, <4>1, Same DEF Got, Large
    <3>2. EndInv(t, m)'
      BY <1>1, <1>14, <2>2, <3>1 DEF EndInv
    <3> QED BY <1>14, <2>2, <3>2 DEF Place, HeaderInv, DataInv, PadInv, LoopInv
  <2> QED BY <1>3, <2>3, <2>4
<1>15. CASE /\ tag \notin {ServiceTag, DataTag}
            /\ tag = PaddingTag => setup.sync
            /\ rcvStatus' = "UnsupportTag"
            /\ ToProgram
  <2>1. m = Files + 1
    BY <1>5, <1>6, <1>15
  <2>2. PICK n \in 0 .. Files * setup.size : n = (m - 1) * setup.size
    BY <1>7
  <2>3. /\ ReceiverType' /\ Got(got, n)' /\ chunk' = <<>>
        /\ rcvPc' \in {"loop", "done"} /\ (setup.sync => rcvPc' = "done")
    BY <1>1, <1>2, <1>5, <1>15, <2>2, Returned
  <2>4. Place(t, m)'
    <3>1. LoopInv(t, m)'
      BY <1>1, <1>15, <2>3 DEF LoopInv
    <3> QED BY <1>15, <2>3, <3>1 DEF Place, HeaderInv, DataInv, EndInv, PadInv
  <2> QED BY <1>3, <2>3, <2>4
<1> QED
  <2>1. \/ /\ tag = ServiceTag
           /\ Need("service", Word)
           /\ UNCHANGED <<rcvStatus, inBlock, chunk, got>>
        \/ /\ tag = DataTag /\ setup.sync
           /\ Need("data", size + PadOf(size))
           /\ UNCHANGED <<rcvStatus, inBlock, chunk, got>>
        \/ /\ tag = DataTag /\ ~setup.sync
           /\ rcvStatus' = "DataProcessing"
           /\ ToProgram
        \/ /\ tag = PaddingTag /\ ~setup.sync
           /\ rcvStatus' = "DataPadding"
           /\ Need("padding", size)
           /\ UNCHANGED <<inBlock, chunk, got>>
        \/ /\ tag \notin {ServiceTag, DataTag}
           /\ tag = PaddingTag => setup.sync
           /\ rcvStatus' = "UnsupportTag"
           /\ ToProgram
    BY DEF HeaderRead, size, tag
  <2> QED BY <1>11, <1>12, <1>13, <1>14, <1>15, <2>1

(* ServiceRead and PaddingRead: a command or a padding, which the server   *)
(* sends after all files.                                                  *)
LEMMA EndReadKeeps ==
  ASSUME IInv, ServiceRead \/ PaddingRead
  PROVE  IInv'
<1>1. /\ Through("service") \/ Through("padding")
      /\ Through("service") =>
           rcvStatus' = IF ToNumber(buffer) # Terminate THEN rcvStatus
                        ELSE IF rcvStatus = "AllData" THEN "Finish" ELSE "Termination"
      /\ Through("padding") => rcvStatus' = "AllData"
      /\ ToProgram
      /\ UNCHANGED <<setup, error, wire, sender, dataSize, needRcv, iRcv>>
  BY DEF ServiceRead, PaddingRead, Through
<1> SUFFICES ASSUME InTurn
             PROVE  /\ ReceiverType'
                    /\ \E t \in 0 .. Len(sent) : \E m \in 1 .. Files + 1 :
                         WireInv(t) /\ Place(t, m)'
  BY <1>1, StepKept DEF IInv, SenderType
<1>2. SenderType /\ ReceiverType /\ StreamInv
  BY PlaceIs DEF IInv
<1>3. PICK t \in 0 .. Len(sent), m \in 1 .. Files + 1 :
        /\ WireInv(t) /\ Place(t, m) /\ t \in Nat /\ From(m) \in Nat
        /\ Len(sent) \in Nat
  BY PlaceIs
<1>4. /\ rcvPc \in {"service", "padding"} /\ stay = 0
      /\ rcvPc = "service" => Through("service")
      /\ rcvPc = "padding" => Through("padding")
  BY <1>1 DEF Through
<1>5. /\ Got(got \o chunk, Files * setup.size)
      /\ rcvPc = "padding" => ~setup.sync
      /\ rcvPc = "service" => /\ Reads(Total + 2 * Word, Word, t)
                              /\ setup.sockets > 1 => buffer = <<>>
  BY <1>3, <1>4 DEF Place, EndInv
<1>6. /\ rcvStatus \notin {"Finish", "DataProcessing"}
      /\ setup.sync => rcvStatus # "AllData"
  BY <1>2, <1>4 DEF ReceiverType, Needs
<1>7. /\ rcvStatus' \in {"UnsupportTag", "DataPadding", "AllData", "Finish",
                         "Termination", "Error"}
      /\ setup.sync => rcvStatus' \notin {"AllData", "Finish"}
  BY <1>1, <1>2, <1>4, <1>5, <1>6 DEF ReceiverType
<1>8. PICK n \in 0 .. Files * setup.size : n = Files * setup.size
  <2>1. PICK n \in Nat : n = Files * setup.size
    BY <1>2, SizesAre
  <2> QED BY <2>1
<1>9. /\ ReceiverType' /\ Got(got, n)' /\ chunk' = <<>>
      /\ rcvPc' \in {"loop", "done"} /\ (setup.sync => rcvPc' = "done")
  <2>1. dataSize' \in Nat /\ needRcv' \in Nat
    BY <1>1, <1>2 DEF ReceiverType
  <2> QED BY <1>1, <1>2, <1>5, <1>7, <1>8, <2>1, Returned
<1>10. LoopInv(t, m)'
  BY <1>1, <1>7, <1>9 DEF LoopInv
<1>11. Place(t, m)'
  BY <1>9, <1>10 DEF Place, HeaderInv, DataInv, PadInv, EndInv
<1> QED BY <1>3, <1>9, <1>11

(* ReceiveDataBlock: it asks for no more than is left of the file.         *)
LEMMA ReceiveDataBlockKeeps ==
  ASSUME IInv, ReceiveDataBlock
  PROVE  IInv'
<1>1. /\ rcvPc = "loop" /\ ~setup.sync /\ rcvStatus = "DataProcessing"
      /\ rcvPc' = "data" /\ stay' = AtMost(needRcv, setup.rcvBuf) /\ buffer' = <<>>
      /\ inBlock' = TRUE
      /\ UNCHANGED <<setup, error, wire, sender, rcvStatus, dataSize, needRcv,
                     chunk, iRcv, got>>
  BY DEF ReceiveDataBlock, Need
<1> SUFFICES ASSUME InTurn
             PROVE  /\ ReceiverType'
                    /\ \E t \in 0 .. Len(sent) : \E m \in 1 .. Files + 1 :
                         WireInv(t) /\ Place(t, m)'
  BY <1>1, StepKept DEF IInv, SenderType
<1>2. SenderType /\ ReceiverType
  BY PlaceIs DEF IInv
<1>3. PICK t \in 0 .. Len(sent), m \in 1 .. Files + 1 :
        /\ WireInv(t) /\ Place(t, m) /\ t \in Nat /\ From(m) \in Nat
        /\ Len(sent) \in Nat
  BY PlaceIs
<1>4. /\ chunk = <<>> /\ m <= Files /\ dataSize = setup.size
      /\ needRcv <= setup.size /\ Got(got, m * setup.size - needRcv)
      /\ t = Rest(m)
  BY <1>1, <1>3 DEF Place, LoopInv
<1>5. PICK n \in Nat : n = AtMost(needRcv, setup.rcvBuf)
  BY <1>2, Fields DEF AtMost, ReceiverType
<1>6. ReceiverType'
  <2>1. PICK k \in 0 .. Files * setup.size : Got(got, k)
    BY <1>2 DEF ReceiverType
  <2>2. Got(got, k)'
    BY <1>1, <2>1, Same DEF Got, Large
  <2>3. \E k1 \in 0 .. Files * setup.size' : Got(got, k1)'
    BY <1>1, <2>2
  <2>4. <<>> \in Bytes
    BY DEF Bytes
  <2> QED BY <1>1, <1>2, <1>5, <2>3, <2>4 DEF ReceiverType, Needs
<1>7. Place(t, m)'
  <2>1. Got(got, m * setup.size - needRcv)'
    BY <1>1, <1>4, Same DEF Got, Large
  <2>2. Reads(Rest(m), AtMost(needRcv, setup.rcvBuf), t)'
    <3>1. Len(<<>>) + n = n /\ t = t + Len(<<>>) /\ 1 .. Len(<<>>) = {}
      BY <1>3
    <3>2. Rest(m)' = t /\ AtMost(needRcv, setup.rcvBuf)' = n
      BY <1>1, <1>4, <1>5, SenderSame DEF Rest
    <3> QED BY <1>1, <1>5, <3>1, <3>2 DEF Reads
  <2>3. DataInv(t, m)'
    BY <1>1, <1>4, <2>1, <2>2 DEF DataInv
  <2> QED BY <1>1, <2>3 DEF Place, HeaderInv, EndInv, PadInv, LoopInv
<1> QED BY <1>3, <1>6, <1>7

(* ReceiveSync: each call begins at a header.                              *)
LEMMA ReceiveSyncKeeps ==
  ASSUME IInv, ReceiveSync
  PROVE  IInv'
<1>1. /\ rcvPc = "loop" /\ setup.sync /\ Need("header", 2 * Word)
      /\ UNCHANGED <<setup, error, wire, sender, inBlock, rcvStatus, dataSize,
                     needRcv, chunk, iRcv, got>>
  BY DEF ReceiveSync
<1> SUFFICES ASSUME InTurn
             PROVE  /\ ReceiverType'
                    /\ \E t \in 0 .. Len(sent) : \E m \in 1 .. Files + 1 :
                         WireInv(t) /\ Place(t, m)'
  BY <1>1, StepKept DEF IInv, SenderType
<1>2. SenderType /\ ReceiverType
  BY PlaceIs DEF IInv
<1>3. PICK t \in 0 .. Len(sent), m \in 1 .. Files + 1 :
        /\ WireInv(t) /\ Place(t, m) /\ t \in Nat /\ From(m) \in Nat
        /\ Len(sent) \in Nat
  BY PlaceIs
<1>4. chunk = <<>> /\ Got(got, (m - 1) * setup.size) /\ t = From(m)
  BY <1>1, <1>3 DEF Place, LoopInv
<1>5. rcvStatus \notin {"DataProcessing", "AllData", "Finish"}
  BY <1>1, <1>2 DEF ReceiverType
<1>6. ReceiverType'
  <2>1. PICK k \in 0 .. Files * setup.size : Got(got, k)
    BY <1>2 DEF ReceiverType
  <2>2. Got(got, k)'
    BY <1>1, <2>1, Same DEF Got, Large
  <2>3. \E k1 \in 0 .. Files * setup.size' : Got(got, k1)'
    BY <1>1, <2>2
  <2>4. <<>> \in Bytes
    BY DEF Bytes
  <2> QED BY <1>1, <1>2, <1>5, <2>3, <2>4, Numbers DEF ReceiverType, Needs, Need
<1>7. Place(t, m)'
  <2>1. got \o chunk = got
    BY <1>2, <1>4 DEF ReceiverType, Bytes
  <2>2. Got(got \o chunk, (m - 1) * setup.size)'
    <3>1. Got(got \o chunk, (m - 1) * setup.size)
      BY <1>4, <2>1
    <3> QED BY <1>1, <3>1, Same DEF Got, Large
  <2> QED BY <1>1, <1>2, <1>3, <1>4, <1>5, <2>2, NeedHeader
<1> QED BY <1>3, <1>6, <1>7

(* DataRead: all of the piece goes to the program, or becomes the chunk.   *)
LEMMA DataReadKeeps ==
  ASSUME IInv, DataRead
  PROVE  IInv'
<1>1. /\ Through("data") /\ ~setup.sync /\ needRcv' = needRcv - Len(buffer)
      /\ UNCHANGED <<setup, error, wire, sender, dataSize, iRcv>>
  BY DEF DataRead
<1> SUFFICES ASSUME InTurn
             PROVE  /\ ReceiverType'
                    /\ \E t \in 0 .. Len(sent) : \E m \in 1 .. Files + 1 :
                         WireInv(t) /\ Place(t, m)'
  BY <1>1, StepKept DEF IInv, SenderType
<1>2. SenderType /\ ReceiverType /\ StreamInv
  BY PlaceIs DEF IInv
<1>3. PICK t \in 0 .. Len(sent), m \in 1 .. Files + 1 :
        /\ WireInv(t) /\ Place(t, m) /\ t \in Nat /\ From(m) \in Nat
        /\ Len(sent) \in Nat
  BY PlaceIs
<1>4. /\ rcvPc = "data" /\ stay = 0 /\ m \in 1 .. Files /\ dataSize = setup.size
      /\ chunk = <<>> /\ needRcv <= setup.size
      /\ Got(got, m * setup.size - needRcv)
      /\ Reads(Rest(m), AtMost(needRcv, setup.rcvBuf), t)
      /\ rcvStatus # "Finish"
  <2>1. rcvPc = "data" /\ stay = 0
    BY <1>1 DEF Through
  <2>2. m <= Files => m \in 1 .. Files
    BY Numbers
  <2> QED BY <1>1, <1>2, <1>3, <2>1, <2>2 DEF Place, DataInv, ReceiverType, Needs
<1>5. PICK s \in Nat, need \in Nat, w \in Nat, F \in Nat, l \in Nat :
        /\ s = setup.size /\ need = needRcv /\ w = 2 * Word /\ F = From(m)
        /\ l = Len(buffer) /\ need <= s
  <2>1. setup.size \in Nat /\ needRcv \in Nat /\ 2 * Word \in Nat
        /\ Len(buffer) \in Nat
    BY <1>2, Fields, Numbers DEF ReceiverType, Bytes
  <2> QED BY <1>3, <1>4, <2>1
<1>6. Rest(m) = F + w + s - need /\ Rest(m) \in Nat
  <2>1. Rest(m) = F + w + s - need
    BY <1>5 DEF Rest
  <2>2. need <= s
    BY <1>5
  <2>3. F + w + s - need \in Nat
    BY <2>2
  <2> QED BY <2>1, <2>3
<1>7. /\ l <= need /\ t = (F + w + s - need) + l
      /\ \A i \in 1 .. l : buffer[i] = sent[(F + w + s - need) + i]
  <2>1. PICK r \in Nat : r = setup.rcvBuf
    BY <1>2, Fields
  <2>2. l + 0 = AtMost(need, r)
    BY <1>4, <1>5, <2>1 DEF Reads
  <2>3. l <= need
    BY <2>2 DEF AtMost
  <2> QED BY <1>4, <1>5, <1>6, <2>3 DEF Reads
<1>8. needRcv' = need - l /\ needRcv' \in Nat
  BY <1>1, <1>5, <1>7
<1>9. PICK n \in Nat : n = m * setup.size - needRcv /\ n + l <= Files * setup.size
        /\ n = (m - 1) * setup.size + (s - need)
        /\ m * setup.size - (need - l) = n + l
  <2>1. PICK a \in Nat, b \in Nat, c \in Nat :
          /\ a = (m - 1) * setup.size /\ b = m * setup.size
          /\ c = Files * setup.size /\ b <= c /\ b = a + s
    <3>1. /\ (m - 1) * setup.size \in Nat /\ m * setup.size \in Nat
          /\ Files * setup.size \in Nat /\ m * setup.size <= Files * setup.size
      <4>1. PICK c \in Nat : c = Files * setup.size
        BY <1>2, SizesAre
      <4>2. m * setup.size \in 0 .. c /\ (m - 1) * setup.size \in 0 .. c
        BY <1>2, <1>3, <1>4, <4>1, SizesAre
      <4> QED BY <4>1, <4>2
    <3> QED BY <1>2, <1>4, <1>5, <3>1, SizesAre, SMTT(30)
  <2>2. b - need \in Nat /\ (b - need) + l <= c /\ b - need = a + (s - need)
        /\ b - (need - l) = (b - need) + l
    <3>1. need <= s /\ l <= need /\ b <= c /\ b = a + s
      BY <1>5, <1>7, <2>1
    <3> QED BY <3>1
  <2> QED BY <1>5, <2>1, <2>2
<1>10. buffer \in Bytes /\ got \in Bytes /\ got \o buffer \in Bytes
  BY <1>2 DEF ReceiverType, Bytes
<1>11. Got(got \o buffer, n + l)
  <2>1. \A i \in 1 .. l : buffer[i] = Contents[n + i]
    <3> SUFFICES ASSUME NEW i \in 1 .. l PROVE buffer[i] = Contents[n + i]
      OBVIOUS
    <3>1. PICK o \in 1 .. s : o = (s - need) + i
      <4>1. (s - need) + i \in 1 .. s
        <5>1. need <= s /\ l <= need
          BY <1>5, <1>7
        <5> QED BY <5>1
      <4> QED BY <4>1
    <3>2. buffer[i] = sent[F + w + o]
      <4>1. (F + w + s - need) + i = F + w + o
        BY <3>1
      <4> QED BY <1>7, <4>1
    <3>3. F + w + o <= Len(sent)
      <4>1. PICK L \in Nat : L = Len(sent) /\ t <= L
        BY <1>3
      <4>2. F + w + o <= L
        BY <1>7, <3>1, <4>1
      <4> QED BY <4>1, <4>2
    <3>4. sent[F + w + o] = Contents[(m - 1) * setup.size + o]
      BY <1>2, <1>4, <1>5, <3>3, SentIs
    <3>5. (m - 1) * setup.size + o = n + i
      <4>1. PICK a \in Nat : a = (m - 1) * setup.size
        <5>1. PICK c \in Nat : c = Files * setup.size
          BY <1>2, SizesAre
        <5>2. (m - 1) * setup.size \in 0 .. c
          BY <1>2, <1>3, <5>1, SizesAre
        <5> QED BY <5>2
      <4>2. a + ((s - need) + i) = (a + (s - need)) + i
        OBVIOUS
      <4> QED BY <1>9, <3>1, <4>1, <4>2
    <3> QED BY <3>2, <3>4, <3>5
  <2>2. Got(got, n)
    BY <1>4, <1>9
  <2> QED BY <1>5, <1>9, <1>10, <2>1, <2>2, GotMore
<1>12. CASE /\ needRcv' > 0
            /\ got' = got \o buffer /\ rcvPc' = "loop" /\ inBlock' = FALSE
            /\ UNCHANGED <<rcvStatus, stay, buffer, chunk>>
  <2>1. Got(got, n + l)'
    BY <1>1, <1>11, <1>12, Same DEF Got, Large
  <2>2. ReceiverType'
    <3>1. PICK k \in 0 .. Files * setup.size : k = n + l
      <4>1. PICK c \in Nat : c = Files * setup.size
        BY <1>2, SizesAre
      <4>2. n + l <= c
        BY <1>9, <4>1
      <4>3. n + l \in 0 .. c
        BY <4>2
      <4> QED BY <4>1, <4>3
    <3>2. Got(got, k)'
      BY <2>1, <3>1
    <3>3. \E k1 \in 0 .. Files * setup.size' : Got(got, k1)'
      BY <1>1, <3>2
    <3> QED BY <1>1, <1>2, <1>4, <1>8, <1>10, <1>12, <3>3 DEF ReceiverType, Needs
  <2>3. Place(t, m)'
    <3>1. Got(got, m * setup.size - needRcv)'
      BY <1>1, <1>8, <1>9, <2>1 DEF Got
    <3>2. t = Rest(m)'
      <4>1. Rest(m)' = F + w + s - (need - l)
        BY <1>1, <1>5, <1>8, SenderSame DEF Rest
      <4>2. F + w + s - (need - l) = (F + w + s - need) + l
        OBVIOUS
      <4> QED BY <1>7, <4>1, <4>2
    <3>3. needRcv' <= setup.size'
      <4>1. need <= s /\ l <= need
        BY <1>5, <1>7
      <4>2. need - l <= s
        BY <4>1
      <4> QED BY <1>1, <1>5, <1>8, <4>2
    <3>4. LoopInv(t, m)'
      BY <1>1, <1>4, <1>12, <3>1, <3>2, <3>3, Numbers DEF LoopInv
    <3> QED BY <1>4, <1>12, <3>4 DEF Place, HeaderInv, DataInv, EndInv, PadInv
  <2> QED BY <1>3, <2>2, <2>3
<1>13. CASE /\ needRcv' <= 0
            /\ rcvStatus' = "AllData" /\ chunk' = buffer
            /\ IF BlockRest > 0 THEN Need("padBuf", BlockRest) ELSE AfterBlockRest
            /\ UNCHANGED <<inBlock, got>>
  <2>1. need = l /\ t = F + w + s
    BY <1>7, <1>8, <1>13
  <2>2. Got(got \o chunk, m * setup.size)'
    <3>1. m * setup.size = n + l
      <4>1. PICK b \in Nat : b = m * setup.size
        <5>1. PICK c \in Nat : c = Files * setup.size
          BY <1>2, SizesAre
        <5>2. m * setup.size \in 0 .. c
          BY <1>2, <1>4, <5>1, SizesAre
        <5> QED BY <5>2
      <4>2. b - (need - l) = b
        BY <2>1, <4>1
      <4> QED BY <1>9, <4>1, <4>2
    <3> QED BY <1>1, <1>11, <1>13, <3>1, Same DEF Got, Large
  <2>3. \E k \in 0 .. Files * setup.size' : Got(got, k)'
    <3>1. PICK k \in 0 .. Files * setup.size : Got(got, k)
      BY <1>2 DEF ReceiverType
    <3>2. Got(got, k)'
      BY <1>1, <1>13, <3>1, Same DEF Got, Large
    <3> QED BY <1>1, <3>2
  <2>4. ASSUME rcvPc' \in {"header", "padWord", "padBuf"}, stay' \in Nat, buffer' = <<>>
        PROVE  ReceiverType'
    <3>1. <<>> \in Bytes
      BY DEF Bytes
    <3> QED BY <1>1, <1>2, <1>8, <1>10, <1>13, <2>3, <2>4, <3>1 DEF ReceiverType, Needs
  <2>5. CASE BlockRest > 0
    <3>1. rcvPc' = "padBuf" /\ stay' = BlockRest /\ buffer' = <<>>
      BY <1>13, <2>5 DEF Need
    <3>2. BlockRest \in 1 .. Block - 1 /\ BlockRest \in Nat
      <4>1. PICK b \in Nat \ {0} : b = Block /\ b = setup.bufSize
        BY <1>2, Fields DEF Block
      <4>2. (s + w) % b \in 0 .. b - 1
        BY DivMod
      <4>3. PICK d \in Nat : d = b - ((s + w) % b)
        BY <4>2
      <4>4. d % b \in 0 .. b - 1
        BY DivMod
      <4>5. BlockRest = d % b
        BY <1>4, <1>5, <4>1, <4>3 DEF BlockRest
      <4> QED BY <2>5, <4>1, <4>4, <4>5
    <3>3. PadInv(t, m)'
      BY <1>1, <1>4, <2>2, <3>1, <3>2, SenderSame, Numbers DEF PadInv
    <3>4. Place(t, m)'
      BY <1>13, <3>1, <3>3 DEF Place, HeaderInv, DataInv, EndInv, LoopInv
    <3> QED BY <1>3, <2>4, <3>1, <3>2, <3>4
  <2>6. CASE ~(BlockRest > 0)
    <3>1. AfterBlockRest
      BY <1>13, <2>6
    <3>2. t = From(m) + 2 * Word + setup.size
      BY <1>5, <2>1
    <3>3. /\ rcvPc' \in {"header", "padWord"} /\ stay' \in Nat /\ buffer' = <<>>
          /\ \E k \in 1 .. Files + 1 : Place(t, k)'
      BY <1>1, <1>2, <1>3, <1>4, <1>13, <2>2, <3>1, <3>2, RestKept
    <3>4. ReceiverType'
      BY <2>4, <3>3
    <3> QED BY <1>3, <3>3, <3>4
  <2> QED BY <2>5, <2>6
<1> QED BY <1>12, <1>13 DEF DataRead

(* PadRead: what is dropped is padding, of the block or of the word.       *)
LEMMA PadReadKeeps ==
  ASSUME IInv, PadRead
  PROVE  IInv'
<1>1. /\ Through("padBuf") \/ Through("padWord")
      /\ UNCHANGED <<setup, error, wire, sender, inBlock, rcvStatus, dataSize,
                     needRcv, chunk, iRcv, got>>
  BY DEF PadRead
<1> SUFFICES ASSUME InTurn
             PROVE  /\ ReceiverType'
                    /\ \E t \in 0 .. Len(sent) : \E m \in 1 .. Files + 1 :
                         WireInv(t) /\ Place(t, m)'
  BY <1>1, StepKept DEF IInv, SenderType
<1>2. SenderType /\ ReceiverType
  BY PlaceIs DEF IInv
<1>3. PICK t \in 0 .. Len(sent), m \in 1 .. Files + 1 :
        /\ WireInv(t) /\ Place(t, m) /\ t \in Nat /\ From(m) \in Nat
        /\ Len(sent) \in Nat
        /\ m <= Files => From(m + 1) = From(m) + MessageLen
  BY PlaceIs
<1>4. rcvPc \in {"padBuf", "padWord"} /\ stay = 0
  BY <1>1 DEF Through
<1>5. PadInv(t, m)
  BY <1>3 DEF Place
<1>6. rcvPc # "padBuf"
  <2>1. rcvPc = "padBuf" => stay \in 1 .. Block - 1
    BY <1>4, <1>5 DEF PadInv
  <2>2. Block \in Nat
    BY <1>2, Fields DEF Block
  <2> QED BY <1>4, <2>1, <2>2
<1>7. /\ m \in 1 .. Files /\ Got(got \o chunk, m * setup.size)
      /\ Reads(From(m) + 2 * Word + setup.size, PadOf(setup.size), t)
      /\ rcvStatus # "Finish" /\ rcvStatus # "DataProcessing"
  <2>1. m <= Files => m \in 1 .. Files
    BY Numbers
  <2> QED BY <1>2, <1>4, <1>5, <1>6, <2>1 DEF PadInv, Lost, ReceiverType, Needs
<1>8. Need("header", 2 * Word)
  BY <1>1, <1>4, <1>6 DEF PadRead
<1>9. ReceiverType'
  <2>1. PICK k \in 0 .. Files * setup.size : Got(got, k)
    BY <1>2 DEF ReceiverType
  <2>2. Got(got, k)'
    BY <1>1, <2>1, Same DEF Got, Large
  <2>3. \E k1 \in 0 .. Files * setup.size' : Got(got, k1)'
    BY <1>1, <2>2
  <2>4. <<>> \in Bytes
    BY DEF Bytes
  <2> QED BY <1>1, <1>2, <1>7, <1>8, <2>3, <2>4, Numbers DEF ReceiverType, Needs, Need
<1>10. PICK k \in 1 .. Files + 1 : k = m + 1 /\ (k - 1) * setup.size = m * setup.size
  BY <1>2, <1>7, SizesAre
<1>11. t = From(k)
  <2>1. PICK s \in Nat, p \in Nat, w \in Nat, F \in Nat :
          s = setup.size /\ p = PadOf(setup.size) /\ w = 2 * Word /\ F = From(m)
    <3>1. PICK s \in Nat : s = setup.size
      BY <1>2, Fields
    <3>2. PadOf(s) \in 0 .. Word - 1
      BY PadIs
    <3>3. PICK p \in Nat : p = PadOf(s)
      BY <3>2, Numbers
    <3>4. 2 * Word \in Nat
      BY Numbers
    <3> QED BY <1>3, <3>1, <3>3, <3>4
  <2>2. Len(buffer) = p /\ t = (F + w + s) + p
    <3>1. PICK l \in Nat : l = Len(buffer)
      BY <1>2 DEF ReceiverType, Bytes
    <3>2. l + 0 = p /\ t = (F + w + s) + l
      BY <1>4, <1>7, <2>1, <3>1 DEF Reads
    <3> QED BY <3>1, <3>2
  <2>3. MessageLen = w + s + p
    BY <2>1 DEF MessageLen
  <2>4. From(k) = F + (w + s + p)
    BY <1>3, <1>7, <1>10, <2>1, <2>3
  <2>5. (F + w + s) + p = F + (w + s + p)
    OBVIOUS
  <2> QED BY <2>2, <2>4, <2>5
<1>12. Got(got \o chunk, (k - 1) * setup.size)'
  <2>1. Got(got \o chunk, (k - 1) * setup.size)
    BY <1>7, <1>10
  <2> QED BY <1>1, <2>1, Same DEF Got, Large
<1>13. Place(t, k)'
  BY <1>1, <1>2, <1>3, <1>7, <1>8, <1>11, <1>12, NeedHeader
<1> QED BY <1>3, <1>9, <1>13

(* SyncRead: the file without its padding, if the vector is large enough.  *)
LEMMA SyncReadKeeps ==
  ASSUME IInv, SyncRead
  PROVE  IInv'
<1> DEFINE z == [i \in 1 .. dataSize |->
                   IF i <= setup.vector THEN buffer[i] ELSE 0]
<1>1. /\ Through("data") /\ setup.sync /\ got' = got \o z
      /\ rcvPc' \in {"loop", "done"}
      /\ UNCHANGED <<setup, error, wire, sender, inBlock, rcvStatus, dataSize,
                     needRcv, stay, buffer, chunk, iRcv>>
  BY DEF SyncRead
<1> SUFFICES ASSUME InTurn
             PROVE  /\ ReceiverType'
                    /\ \E t \in 0 .. Len(sent) : \E m \in 1 .. Files + 1 :
                         WireInv(t) /\ Place(t, m)'
  BY <1>1, StepKept DEF IInv, SenderType
<1>2. SenderType /\ ReceiverType /\ StreamInv
  BY PlaceIs DEF IInv
<1>3. PICK t \in 0 .. Len(sent), m \in 1 .. Files + 1 :
        /\ WireInv(t) /\ Place(t, m) /\ t \in Nat /\ From(m) \in Nat
        /\ Len(sent) \in Nat
        /\ m <= Files => From(m + 1) = From(m) + MessageLen
  BY PlaceIs
<1>4. /\ rcvPc = "data" /\ stay = 0 /\ m \in 1 .. Files /\ dataSize = setup.size
      /\ chunk = <<>> /\ Got(got, (m - 1) * setup.size)
      /\ Reads(From(m) + 2 * Word, setup.size + PadOf(setup.size), t)
      /\ rcvStatus \notin {"DataProcessing", "AllData", "Finish"}
  <2>1. rcvPc = "data" /\ stay = 0
    BY <1>1 DEF Through
  <2>2. m <= Files => m \in 1 .. Files
    BY Numbers
  <2> QED BY <1>1, <1>2, <1>3, <2>1, <2>2 DEF Place, DataInv, ReceiverType
<1>5. PICK s \in Nat, p \in Nat, w \in Nat, F \in Nat, l \in Nat, v \in Nat :
        /\ s = setup.size /\ p = PadOf(setup.size) /\ w = 2 * Word /\ F = From(m)
        /\ l = Len(buffer) /\ v = setup.vector
  <2>1. PICK s \in Nat : s = setup.size
    BY <1>2, Fields
  <2>2. PadOf(s) \in 0 .. Word - 1
    BY PadIs
  <2>3. PICK p \in Nat : p = PadOf(s)
    BY <2>2, Numbers
  <2>4. 2 * Word \in Nat /\ Len(buffer) \in Nat /\ setup.vector \in Nat
    BY <1>2, Numbers, Fields DEF ReceiverType, Bytes
  <2> QED BY <1>3, <2>1, <2>3, <2>4
<1>6. /\ l = s + p /\ t = (F + w) + l
      /\ \A i \in 1 .. l : buffer[i] = sent[(F + w) + i]
  <2>1. l + 0 = s + p
    BY <1>4, <1>5 DEF Reads
  <2>2. l = s + p
    BY <2>1
  <2> QED BY <1>4, <1>5, <2>2 DEF Reads
<1>7. PICK n \in 0 .. Files * setup.size : n = (m - 1) * setup.size
  BY <1>2, SizesAre
<1>8. PICK c \in Nat : c = Files * setup.size
  BY <1>2, SizesAre
<1>9. n \in Nat /\ m * setup.size = n + s /\ n + s \in 0 .. c
  BY <1>2, <1>4, <1>5, <1>7, <1>8, SizesAre, SMTT(30)
<1>10. z \in Bytes /\ Len(z) = s
  <2>1. \A i \in 1 .. s : buffer[i] \in Nat
    <3>1. PICK b \in Seq(Nat) : b = buffer /\ Len(b) = l
      BY <1>2, <1>5 DEF ReceiverType, Bytes
    <3>2. \A i \in 1 .. s : i \in 1 .. l
      BY <1>6
    <3>3. \A i \in 1 .. l : b[i] \in Nat
      BY <3>1
    <3> QED BY <3>1, <3>2, <3>3
  <2>2. z \in [1 .. s -> Nat]
    BY <1>4, <1>5, <2>1
  <2> QED BY <2>2, StringOf
<1>11. got \o z \in Bytes /\ Got(got \o z, n + s)
  <2>1. ASSUME Large, NEW i \in 1 .. s PROVE z[i] = Contents[n + i]
    <3>1. v >= s
      BY <1>1, <1>5, <2>1 DEF Large
    <3>2. i <= v
      BY <3>1
    <3>3. z[i] = buffer[i]
      BY <1>4, <1>5, <3>2
    <3>4. i \in 1 .. l /\ (F + w) + i = F + w + i
      BY <1>6
    <3>5. buffer[i] = sent[F + w + i]
      BY <1>6, <3>4
    <3>6. F + w + i <= Len(sent)
      <4>1. PICK L \in Nat : L = Len(sent) /\ t <= L
        BY <1>3
      <4>2. F + w + i <= L
        BY <1>6, <3>4, <4>1
      <4> QED BY <4>1, <4>2
    <3>7. sent[F + w + i] = Contents[(m - 1) * setup.size + i]
      BY <1>2, <1>4, <1>5, <3>6, SentIs
    <3> HIDE DEF z
    <3> QED BY <1>7, <3>3, <3>5, <3>7
  <2>2. got \in Bytes /\ Got(got, n)
    BY <1>2, <1>4, <1>7 DEF ReceiverType
  <2> HIDE DEF z
  <2> QED BY <1>9, <1>10, <2>1, <2>2, GotMore
<1> HIDE DEF z
<1>12. Got(got, n + s)'
  BY <1>1, <1>11, Same DEF Got, Large
<1>13. ReceiverType'
  <2>1. PICK k \in 0 .. Files * setup.size : k = n + s
    BY <1>8, <1>9
  <2>2. Got(got, k)'
    BY <1>12, <2>1
  <2>3. \E k1 \in 0 .. Files * setup.size' : Got(got, k1)'
    BY <1>1, <2>2
  <2> QED BY <1>1, <1>2, <1>4, <1>11, <2>3 DEF ReceiverType, Needs
<1>14. PICK k \in 1 .. Files + 1 : k = m + 1 /\ (k - 1) * setup.size = m * setup.size
  BY <1>2, <1>4, SizesAre
<1>15. Place(t, k)'
  <2>1. t = From(k)
    <3>1. MessageLen = w + s + p
      BY <1>5 DEF MessageLen
    <3>2. From(k) = F + (w + s + p)
      BY <1>3, <1>4, <1>5, <1>14, <3>1
    <3>3. t = F + (w + s + p)
      BY <1>6
    <3> QED BY <3>2, <3>3
  <2>2. Got(got, (k - 1) * setup.size)'
    BY <1>1, <1>9, <1>12, <1>14 DEF Got
  <2>3. LoopInv(t, k)'
    BY <1>1, <1>4, <2>1, <2>2, SenderSame DEF LoopInv
  <2> QED BY <1>1, <1>4, <2>3 DEF Place, HeaderInv, DataInv, EndInv, PadInv
<1> QED BY <1>3, <1>13, <1>15

(* ReceiveFails: what the program has got until then stays in order.       *)
LEMMA ReceiveFailsKeeps ==
  ASSUME IInv, ReceiveFails
  PROVE  IInv'
<1>1. /\ rcvPc \in Needs /\ error' = TRUE
      /\ UNCHANGED <<setup, wire, sender, dataSize, needRcv, iRcv>>
  BY DEF ReceiveFails
<1> SUFFICES ASSUME InTurn
             PROVE  /\ ReceiverType'
                    /\ \E t \in 0 .. Len(sent) : \E m \in 1 .. Files + 1 :
                         WireInv(t) /\ Place(t, m)'
  BY <1>1, StepKept DEF IInv, SenderType
<1>2. SenderType /\ ReceiverType
  BY PlaceIs DEF IInv
<1>3. PICK t \in 0 .. Len(sent), m \in 1 .. Files + 1 :
        /\ WireInv(t) /\ Place(t, m) /\ t \in Nat /\ From(m) \in Nat
        /\ Len(sent) \in Nat
  BY PlaceIs
<1>4. m <= Files => m \in 1 .. Files
  BY Numbers
<1>5. CASE rcvPc = "padBuf"
  <2>1. AfterBlockRest /\ UNCHANGED <<inBlock, rcvStatus, chunk, got>>
    BY <1>5 DEF ReceiveFails
  <2>2. /\ ~setup.sync /\ m \in 1 .. Files /\ dataSize = setup.size
        /\ Got(got \o chunk, m * setup.size)
        /\ rcvStatus \notin {"Finish", "DataProcessing"}
    BY <1>2, <1>3, <1>4, <1>5 DEF Place, PadInv, ReceiverType, Needs
  <2>3. Got(got \o chunk, m * setup.size)'
    BY <1>1, <2>1, <2>2, Same DEF Got, Large
  <2>4. /\ rcvPc' \in {"header", "padWord"} /\ stay' \in Nat /\ buffer' = <<>>
        /\ \E k \in 1 .. Files + 1 : Place(t, k)'
    BY <1>1, <1>2, <1>3, <2>1, <2>2, <2>3, RestKept
  <2>5. ReceiverType'
    <3>1. PICK k \in 0 .. Files * setup.size : Got(got, k)
      BY <1>2 DEF ReceiverType
    <3>2. Got(got, k)'
      BY <1>1, <2>1, <3>1, Same DEF Got, Large
    <3>3. \E k1 \in 0 .. Files * setup.size' : Got(got, k1)'
      BY <1>1, <3>2
    <3>4. <<>> \in Bytes
      BY DEF Bytes
    <3> QED BY <1>1, <1>2, <2>1, <2>2, <2>4, <3>3, <3>4 DEF ReceiverType, Needs
  <2> QED BY <1>3, <2>4, <2>5
<1>6. CASE rcvPc # "padBuf"
  <2>1. rcvStatus' = "Error" /\ ToProgram
    BY <1>6 DEF ReceiveFails
  <2>2. PICK n \in 0 .. Files * setup.size : Got(got \o chunk, n)
    <3>1. CASE rcvPc = "header"
      BY <1>2, <1>3, <3>1, SizesAre DEF Place, HeaderInv
    <3>2. CASE rcvPc = "data"
      <4>1. chunk = <<>>
        BY <1>3, <3>2 DEF Place, DataInv
      <4>2. got \o chunk = got
        BY <1>2, <4>1 DEF ReceiverType, Bytes
      <4> QED BY <1>2, <4>2 DEF ReceiverType
    <3>3. CASE rcvPc = "padWord"
      BY <1>2, <1>3, <1>4, <3>3, SizesAre DEF Place, PadInv
    <3>4. CASE rcvPc \in {"service", "padding"}
      <4>1. Got(got \o chunk, Files * setup.size)
        BY <1>3, <3>4 DEF Place, EndInv
      <4>2. PICK c \in Nat : c = Files * setup.size
        BY <1>2, SizesAre
      <4> QED BY <4>1, <4>2
    <3> QED BY <1>1, <1>6, <3>1, <3>2, <3>3, <3>4 DEF Needs
  <2>3. /\ ReceiverType' /\ chunk' = <<>>
        /\ rcvPc' \in {"loop", "done"} /\ (setup.sync => rcvPc' = "done")
    <3>1. dataSize' \in Nat /\ needRcv' \in Nat
      BY <1>1, <1>2 DEF ReceiverType
    <3> QED BY <1>1, <1>2, <2>1, <2>2, <3>1, Returned
  <2>4. Place(t, m)'
    BY <1>1, <2>1, <2>3 DEF Place, HeaderInv, DataInv, PadInv, EndInv, LoopInv
  <2> QED BY <1>3, <2>3, <2>4
<1> QED BY <1>5, <1>6

(* ReceiveBlock: what the buffer gets is what comes next of what was sent. *)
LEMMA ReceiveBlockKeeps ==
  ASSUME IInv, ReceiveBlock
  PROVE  IInv'
<1>1. /\ rcvPc \in Needs /\ ~error /\ stay >= setup.bufSize
      /\ Len(wire[iRcv]) >= setup.bufSize
      /\ buffer' = buffer \o SubSeq(wire[iRcv], 1, setup.bufSize)
      /\ stay' = stay - setup.bufSize
      /\ wire' = [wire EXCEPT ![iRcv] =
                    SubSeq(wire[iRcv], setup.bufSize + 1, Len(wire[iRcv]))]
      /\ iRcv' = Turn(iRcv)
      /\ UNCHANGED <<setup, error, sender, rcvPc, inBlock, rcvStatus, dataSize,
                     needRcv, chunk, got>>
  BY DEF ReceiveBlock
<1>2. SenderType /\ StreamInv /\ SendInv
  BY DEF IInv
<1>3. PICK B \in Nat \ {0}, L \in Nat : B = Block /\ B = setup.bufSize
                                        /\ L = Len(wire[iRcv]) /\ L >= B
  <2>1. Len(wire[iRcv]) \in Nat
    BY <1>2 DEF SenderType, Bytes
  <2>2. Block \in Nat \ {0} /\ Block = setup.bufSize
    BY <1>2, Fields DEF Block
  <2> QED BY <1>1, <2>1, <2>2
<1>4. PICK v \in Bytes : v = wire[iRcv] /\ Len(v) = L
  BY <1>2, <1>3 DEF SenderType
<1>5. PICK x \in Bytes : /\ x = SubSeq(wire[iRcv], 1, setup.bufSize) /\ Len(x) = B
                         /\ \A i \in 1 .. B : x[i] = wire[iRcv][i]
  <2>1. PICK o \in Nat : o = 0
    OBVIOUS
  <2>2. o + B <= Len(v) /\ o + 1 = 1 /\ o + B = B /\ \A i \in 1 .. B : o + i = i
    BY <1>3, <1>4, <2>1
  <2>3. /\ SubSeq(v, o + 1, o + B) \in Bytes /\ Len(SubSeq(v, o + 1, o + B)) = B
        /\ \A i \in 1 .. B : SubSeq(v, o + 1, o + B)[i] = v[o + i]
    BY <2>2, PartIs
  <2>4. PICK x : x = SubSeq(v, o + 1, o + B)
    OBVIOUS
  <2>5. x = SubSeq(wire[iRcv], 1, setup.bufSize)
    BY <1>3, <1>4, <2>2, <2>4
  <2>6. x \in Bytes /\ Len(x) = B /\ \A i \in 1 .. B : x[i] = wire[iRcv][i]
    BY <1>4, <2>2, <2>3, <2>4
  <2> QED BY <2>5, <2>6
<1>6. wire' \in [Socket -> Bytes]
  <2>1. PICK d \in Nat : B + d = L
    <3>1. L - B \in Nat /\ B + (L - B) = L
      BY <1>3
    <3> QED BY <3>1
  <2>2. B + d <= Len(v)
    BY <1>3, <1>4, <2>1
  <2>3. /\ SubSeq(v, B + 1, B + d) \in Bytes
        /\ Len(SubSeq(v, B + 1, B + d)) = d
        /\ \A i \in 1 .. d : SubSeq(v, B + 1, B + d)[i] = v[B + i]
    BY <1>3, <1>4, <2>2, PartIs
  <2>4. SubSeq(wire[iRcv], setup.bufSize + 1, Len(wire[iRcv])) \in Bytes
    BY <1>3, <1>4, <2>1, <2>3
  <2> QED BY <1>1, <1>2, <2>4 DEF SenderType
<1>7. iRcv' \in Socket
  BY <1>1, <1>2, TurnsIs DEF SenderType
<1>8. SenderType' /\ StreamInv' /\ SendInv'
  BY <1>1, <1>2, <1>6, <1>7, SenderKept DEF SenderType
<1>9. ReceiverInv'
  <2> SUFFICES ASSUME InTurn PROVE ReceiverInv'
    BY <1>1, Same DEF ReceiverInv
  <2>1. ReceiverType
    BY PlaceIs
  <2>2. PICK t \in 0 .. Len(sent), m \in 1 .. Files + 1 :
          /\ WireInv(t) /\ Place(t, m) /\ t \in Nat /\ From(m) \in Nat
          /\ Len(sent) \in Nat
    BY PlaceIs
  <2>3. /\ t + Block \in 0 .. Len(sent)
        /\ \A i \in 1 .. Block : wire[iRcv][i] = sent[t + i]
        /\ WireInv(t + Block)'
    BY <1>2, <2>2, ReceiveOnWire
  <2>4. PICK u \in 0 .. Len(sent) : u = t + B /\ WireInv(u)'
    <3>1. (t + Block)' = t + B
      BY <1>1, <1>3, Same
    <3>2. PICK u : u = t + B
      OBVIOUS
    <3>3. WireInv(u)'
      BY <2>3, <3>1, <3>2
    <3> QED BY <1>3, <2>3, <3>2, <3>3
  <2>5. PICK l \in Nat, st \in Nat : l = Len(buffer) /\ st = stay /\ st >= B
    BY <1>1, <1>3, <2>1 DEF ReceiverType, Bytes
  <2>6. PICK y \in Bytes : y = buffer' /\ Len(y) = l + B
          /\ (\A i \in 1 .. l : y[i] = buffer[i])
          /\ (\A i \in 1 .. B : y[l + i] = sent[t + i])
    <3>1. buffer \in Bytes
      BY <2>1 DEF ReceiverType
    <3>2. PICK y : y = buffer \o x /\ Joins(y, buffer, Len(buffer), x, Len(x))
      BY <3>1, Joined
    <3>3. \A i \in 1 .. B : x[i] = sent[t + i]
      BY <1>3, <1>5, <2>3
    <3>4. y = buffer'
      BY <1>1, <1>5, <3>2
    <3>5. /\ y \in Bytes /\ Len(y) = l + B
          /\ \A i \in 1 .. l : y[i] = buffer[i]
          /\ \A i \in 1 .. B : y[l + i] = x[i]
      BY <1>5, <2>5, <3>2 DEF Joins
    <3> QED BY <3>3, <3>4, <3>5
  <2>7. stay' = st - B /\ st - B \in Nat
    <3>1. st - B \in Nat
      BY <2>5
    <3> QED BY <1>1, <1>3, <2>5, <3>1
  <2>8. ASSUME NEW p \in Nat, NEW n, Reads(p, n, t)
        PROVE  Reads(p, n, u)'
    <3>1. /\ l + st = n /\ t = p + l
          /\ \A i \in 1 .. l : buffer[i] = sent[p + i]
      BY <2>5, <2>8 DEF Reads
    <3>2. (l + B) + (st - B) = n /\ u = p + (l + B)
      BY <2>4, <2>5, <3>1
    <3>3. ASSUME NEW i \in 1 .. l + B PROVE y[i] = sent[p + i]
      <4>1. CASE i <= l
        <5>1. i \in 1 .. l
          BY <4>1
        <5> QED BY <2>6, <3>1, <5>1
      <4>2. CASE i > l
        <5>1. PICK j \in 1 .. B : l + j = i
          <6>1. i - l \in 1 .. B /\ l + (i - l) = i
            BY <4>2
          <6> QED BY <6>1
        <5>2. t + j = p + i
          BY <3>1, <5>1
        <5> QED BY <2>6, <5>1, <5>2
      <4> QED BY <4>1, <4>2
    <3>4. sent' = sent
      BY <1>1, SenderSame
    <3> QED BY <2>6, <2>7, <3>2, <3>3, <3>4 DEF Reads
  <2>9. /\ \A n : Got(got, n) => Got(got, n)'
        /\ \A n : Got(got \o chunk, n) => Got(got \o chunk, n)'
    BY <1>1, Same DEF Got, Large
  <2>10. ReceiverType'
    <3>1. PICK k \in 0 .. Files * setup.size : Got(got, k)
      BY <2>1 DEF ReceiverType
    <3>2. \E k1 \in 0 .. Files * setup.size' : Got(got, k1)'
      BY <1>1, <2>9, <3>1
    <3> QED BY <1>1, <2>1, <2>6, <2>7, <3>2 DEF ReceiverType
  <2>11. ~Lost /\ rcvPc' = rcvPc /\ rcvStatus # "Finish" /\ rcvStatus' = rcvStatus
         /\ rcvPc \notin {"loop", "done"}
    BY <1>1, <2>1 DEF Lost, ReceiverType, Needs
  <2>12. PICK s \in Nat, w \in Nat, q \in Nat, F \in Nat, T \in Nat :
           /\ s = setup.size /\ w = 2 * Word /\ q = PadOf(setup.size)
           /\ F = From(m) /\ T = Total
    <3>1. PICK s \in Nat : s = setup.size
      BY <1>2, Fields
    <3>2. PadOf(s) \in 0 .. Word - 1
      BY PadIs
    <3>3. PICK q \in Nat : q = PadOf(s)
      BY <3>2, Numbers
    <3>4. 2 * Word \in Nat /\ Total \in Nat
      BY <1>2, Numbers, FromIs
    <3> QED BY <2>2, <3>1, <3>3, <3>4
  <2>13. HeaderInv(u, m)'
    <3> SUFFICES ASSUME rcvPc = "header" PROVE HeaderInv(u, m)'
      BY <2>11 DEF HeaderInv
    <3>1. Got(got \o chunk, (m - 1) * setup.size) /\ Reads(From(m), 2 * Word, t)
      BY <2>2, <2>11 DEF Place, HeaderInv
    <3>2. Got(got \o chunk, (m - 1) * setup.size)'
      BY <1>1, <2>9, <3>1 DEF Got
    <3>3. Reads(F, w, u)'
      BY <2>8, <2>12, <3>1
    <3>4. From(m)' = F /\ (2 * Word)' = w
      BY <1>1, <2>12, SenderSame
    <3>5. Reads(From(m), 2 * Word, u)'
      BY <3>3, <3>4
    <3> QED BY <3>2, <3>5 DEF HeaderInv
  <2>14. DataInv(u, m)'
    <3> SUFFICES ASSUME rcvPc = "data" PROVE DataInv(u, m)'
      BY <2>11 DEF DataInv
    <3>1. DataInv(t, m)
      BY <2>2 DEF Place
    <3>2. CASE setup.sync
      <4>1. /\ Got(got, (m - 1) * setup.size)
            /\ Reads(From(m) + 2 * Word, setup.size + PadOf(setup.size), t)
        BY <3>1, <3>2 DEF DataInv
      <4>2. Got(got, (m - 1) * setup.size)'
        BY <1>1, <2>9, <4>1 DEF Got
      <4>3. Reads(F + w, s + q, u)'
        <5>1. PICK p \in Nat : p = F + w
          OBVIOUS
        <5>2. PICK n : n = s + q
          OBVIOUS
        <5>3. Reads(p, n, t)
          BY <2>12, <4>1, <5>1, <5>2
        <5> QED BY <2>8, <5>1, <5>2, <5>3
      <4>4. (From(m) + 2 * Word)' = F + w /\ (setup.size + PadOf(setup.size))' = s + q
        BY <1>1, <2>12, SenderSame
      <4>5. Reads(From(m) + 2 * Word, setup.size + PadOf(setup.size), u)'
        BY <4>3, <4>4
      <4> QED BY <1>1, <3>1, <3>2, <4>2, <4>5 DEF DataInv
    <3>3. CASE ~setup.sync
      <4>1. /\ Got(got, m * setup.size - needRcv) /\ needRcv <= setup.size
            /\ Reads(Rest(m), AtMost(needRcv, setup.rcvBuf), t)
        BY <3>1, <3>3 DEF DataInv
      <4>2. Got(got, m * setup.size - needRcv)'
        BY <1>1, <2>9, <4>1 DEF Got
      <4>3. PICK p \in Nat : p = Rest(m)
        <5>1. PICK d \in Nat : d = needRcv /\ d <= s
          BY <2>1, <2>12, <4>1 DEF ReceiverType
        <5>2. Rest(m) = F + w + s - d
          BY <2>12, <5>1 DEF Rest
        <5>3. F + w + s - d \in Nat
          BY <5>1
        <5> QED BY <5>2, <5>3
      <4>4. PICK n : n = AtMost(needRcv, setup.rcvBuf)
        OBVIOUS
      <4>5. Reads(p, n, u)'
        BY <2>8, <4>1, <4>3, <4>4
      <4>6. Rest(m)' = p /\ AtMost(needRcv, setup.rcvBuf)' = n
        BY <1>1, <4>3, <4>4, SenderSame DEF Rest
      <4>7. Reads(Rest(m), AtMost(needRcv, setup.rcvBuf), u)'
        BY <4>5, <4>6
      <4> QED BY <1>1, <3>1, <3>3, <4>2, <4>7 DEF DataInv
    <3> QED BY <3>2, <3>3
  <2>15. PadInv(u, m)'
    <3>1. CASE rcvPc = "padBuf"
      <4>1. stay \in 1 .. Block - 1
        BY <2>2, <3>1 DEF Place, PadInv
      <4> QED BY <1>3, <2>5, <4>1
    <3>2. CASE rcvPc = "padWord"
      <4>1. /\ ~setup.sync /\ m <= Files /\ dataSize = setup.size
            /\ Got(got \o chunk, m * setup.size)
            /\ Reads(From(m) + 2 * Word + setup.size, PadOf(setup.size), t)
        BY <2>2, <2>11, <3>2 DEF Place, PadInv
      <4>2. Got(got \o chunk, m * setup.size)'
        BY <1>1, <2>9, <4>1 DEF Got
      <4>3. Reads(F + w + s, q, u)'
        <5>1. PICK p \in Nat : p = F + w + s
          OBVIOUS
        <5>2. Reads(p, q, t)
          BY <2>12, <4>1, <5>1
        <5> QED BY <2>8, <5>1, <5>2
      <4>4. (From(m) + 2 * Word + setup.size)' = F + w + s /\ PadOf(setup.size)' = q
        BY <1>1, <2>12, SenderSame
      <4>5. Reads(From(m) + 2 * Word + setup.size, PadOf(setup.size), u)'
        BY <4>3, <4>4
      <4> QED BY <1>1, <3>2, <4>1, <4>2, <4>5 DEF PadInv
    <3> QED BY <2>11, <3>1, <3>2 DEF PadInv
  <2>16. EndInv(u, m)'
    <3> SUFFICES ASSUME rcvPc \in {"service", "padding"} PROVE EndInv(u, m)'
      BY <2>11 DEF EndInv
    <3>1. EndInv(t, m)
      BY <2>2 DEF Place
    <3>2. Got(got \o chunk, Files * setup.size)'
      BY <1>1, <2>9, <3>1 DEF EndInv, Got
    <3>3. CASE rcvPc = "service"
      <4>1. Reads(Total + 2 * Word, Word, t)
        BY <3>1, <3>3 DEF EndInv
      <4>2. Reads(T + w, Word, u)'
        BY <2>8, <2>12, <4>1
      <4>3. (Total + 2 * Word)' = T + w
        BY <1>1, <2>12, SenderSame
      <4>4. Reads(Total + 2 * Word, Word, u)'
        BY <4>2, <4>3
      <4>5. ~(setup.sockets > 1)
        <5>1. PICK c \in Nat \ {0} : c = Word
          BY Numbers
        <5>2. l + st = c
          BY <2>5, <4>1, <5>1 DEF Reads
        <5>3. setup.sockets > 1 => B = 2 * c
          BY <1>2, <1>3, <5>1, ManySockets
        <5> QED BY <2>5, <5>2, <5>3
      <4> QED BY <1>1, <3>2, <3>3, <4>4, <4>5 DEF EndInv
    <3>4. CASE rcvPc = "padding"
      BY <1>1, <3>1, <3>2, <3>4 DEF EndInv
    <3> QED BY <3>3, <3>4
  <2>17. Place(u, m)'
    BY <2>11, <2>13, <2>14, <2>15, <2>16 DEF Place, LoopInv
  <2>18. sent' = sent
    BY <1>1, SenderSame
  <2> QED BY <2>4, <2>10, <2>17, <2>18 DEF ReceiverInv
<1> QED BY <1>8, <1>9 DEF IInv

-----------------------------------------------------------------------------
(* Everything is as it should be at first, and stays so with each step.    *)
LEMMA InitHolds ==
  ASSUME Init
  PROVE  IInv
<1>1. /\ setup \in Setups /\ error = FALSE /\ wire = [i \in Socket |-> <<>>]
      /\ file = 1 /\ fileRest = setup.size - setup.missing
      /\ sendPc = "loop" /\ sendStatus = "DataProcessing"
      /\ needSend = setup.size /\ piece = 0 /\ iSend = 0 /\ sent = <<>>
      /\ rcvPc = "header" /\ inBlock = FALSE /\ rcvStatus = "UnsupportTag"
      /\ dataSize = 0 /\ needRcv = 0 /\ stay = 2 * Word /\ buffer = <<>>
      /\ chunk = <<>> /\ iRcv = 0 /\ got = <<>>
  BY DEF Init
<1>2. /\ setup.sockets \in Nat \ {0} /\ setup.bufSize \in Nat \ {0}
      /\ setup.size \in Nat /\ setup.missing \in Nat
      /\ setup.missing = 0 \/ setup.missing < setup.size
  BY <1>1, ChunksAssumption
<1>3. PICK s \in Nat, miss \in Nat, N \in Nat \ {0} :
        s = setup.size /\ miss = setup.missing /\ N = setup.sockets
        /\ (miss = 0 \/ miss < s)
  BY <1>2
<1>4. <<>> \in Bytes /\ Len(<<>>) = 0 /\ 0 \in Socket
  <2>1. 0 \in 0 .. N - 1
    OBVIOUS
  <2> QED BY <1>3, <2>1 DEF Bytes, Socket
<1>5. SenderType
  <2>1. fileRest \in Nat
    <3>1. s - miss \in Nat
      BY <1>3
    <3> QED BY <1>1, <1>3, <3>1
  <2>2. needSend \in 0 .. setup.size
    BY <1>1, <1>3
  <2>3. file \in 1 .. Files
    BY <1>1, Numbers
  <2> QED BY <1>1, <1>4, <2>1, <2>2, <2>3 DEF SenderType
<1>6. StreamInv
  <2>1. Total \in Nat
    BY <1>5, FromIs
  <2> QED BY <1>1, <1>4, <2>1 DEF StreamInv
<1>7. From(1) = 0
  BY <1>5, FromIs
<1>8. SendInv
  <2>1. needSend = fileRest + setup.missing
    <3>1. needSend = s /\ fileRest = s - miss
      BY <1>1, <1>3
    <3>2. s = (s - miss) + miss
      OBVIOUS
    <3> QED BY <1>3, <3>1, <3>2
  <2>2. Sent(0)
    BY <1>1, <1>4, <1>7 DEF Sent
  <2> QED BY <1>1, <1>3, <2>1, <2>2 DEF SendInv
<1>9. ReceiverInv
  <2> SUFFICES ASSUME InTurn PROVE ReceiverInv
    BY DEF ReceiverInv
  <2>1. Got(got, 0) /\ Got(got \o chunk, 0)
    <3>1. <<>> \o <<>> = <<>>
      OBVIOUS
    <3> QED BY <1>1, <1>4, <3>1 DEF Got
  <2>2. ReceiverType
    <3>1. PICK c \in Nat : c = Files * setup.size
      BY <1>5, SizesAre
    <3>2. 0 \in 0 .. c
      OBVIOUS
    <3> QED BY <1>1, <1>4, <2>1, <3>1, <3>2, Numbers DEF ReceiverType, Needs
  <2>3. HeaderInv(0, 1)
    <3>1. (1 - 1) * setup.size = 0
      BY <1>3
    <3>2. Got(got \o chunk, (1 - 1) * setup.size)
      BY <2>1, <3>1
    <3>3. Reads(From(1), 2 * Word, 0)
      BY <1>1, <1>4, <1>7, Numbers DEF Reads
    <3> QED BY <3>2, <3>3 DEF HeaderInv
  <2>4. Place(0, 1)
    BY <1>1, <2>3 DEF Place, DataInv, PadInv, EndInv, LoopInv
  <2>5. WireInv(0)
    <3>1. Len(sent) = 0 /\ \A j \in Socket : wire[j] = <<>>
      BY <1>1, <1>4
    <3>2. ASSUME setup.sockets > 1 PROVE needSend % Block = 0
      BY <1>1, <1>5, <3>2, ManySockets DEF Block
    <3>3. ASSUME NEW j \in Socket PROVE PathInv(0, j, 0)
      <4>1. PICK b \in Nat \ {0} : b = Block
        BY <1>2 DEF Block
      <4>2. PICK r \in Nat : r = Round
        BY <1>2 DEF Round
      <4>3. PICK d \in Nat : d = Turns(iRcv, j) /\ d = Turns(iSend, j)
        <5>1. Turns(0, j) \in 0 .. N - 1
          BY <1>3, <1>4, <1>5, TurnsIs
        <5>2. PICK d \in Nat : d = Turns(0, j)
          BY <5>1
        <5> QED BY <1>1, <5>2
      <4>4. /\ 0 * b = 0 /\ (0 + 1) * b = b /\ 0 * r = 0 /\ 0 .. 0 - 1 = {}
            /\ d * b \in Nat
        OBVIOUS
      <4>5. 0 * b <= 0 /\ 0 < (0 + 1) * b
        BY <4>4
      <4>6. Next1(0, j) + 0 * r = 0 + d * b
        BY <4>1, <4>3, <4>4 DEF Next1
      <4> QED BY <1>4, <3>1, <4>1, <4>2, <4>3, <4>4, <4>5, <4>6 DEF PathInv
    <3>4. setup.sockets > 1 => \A j \in Socket : \E c \in Nat : PathInv(0, j, c)
      BY <3>3
    <3>5. setup.sockets = 1 =>
            /\ Len(wire[0]) = Len(sent) - 0
            /\ \A i \in 1 .. Len(wire[0]) : wire[0][i] = sent[0 + i]
      BY <1>4, <3>1
    <3>6. 0 \in 0 .. Len(sent)
      BY <3>1
    <3> QED BY <3>2, <3>4, <3>5, <3>6 DEF WireInv
  <2>6. 1 \in 1 .. Files + 1 /\ 0 \in 0 .. Len(sent)
    BY <1>1, <1>4, Numbers
  <2> QED BY <2>2, <2>4, <2>5, <2>6 DEF ReceiverInv
<1> QED BY <1>5, <1>6, <1>8, <1>9 DEF IInv

(* A step of somebody else.                                                *)
LEMMA StutterKeeps ==
  ASSUME IInv, UNCHANGED vars
  PROVE  IInv'
<1>1. SenderType /\ StreamInv /\ SendInv /\ ReceiverInv
  BY DEF IInv
<1>2. UNCHANGED <<setup, error, wire, sender, receiver>>
  BY DEF vars
<1>3. /\ UNCHANGED <<setup, sender, receiver, wire, iRcv, sent, iSend>>
      /\ error' \in BOOLEAN /\ error' = error /\ Open' = Open
      /\ sendPc' = sendPc /\ needSend' = needSend
  BY <1>1, <1>2 DEF sender, receiver, SenderType, Open
<1>4. SenderType' /\ StreamInv' /\ SendInv'
  <2>1. wire' \in [Socket -> Bytes] /\ iRcv' \in Socket
    BY <1>1, <1>3 DEF SenderType
  <2> QED BY <1>1, <1>3, <2>1, SenderKept
<1>5. ReceiverInv'
  <2>1. Len(sent) \in Nat /\ sent' = sent
    BY <1>1, <1>3 DEF SenderType, Bytes
  <2>2. ASSUME NEW t, InTurn, WireInv(t) PROVE WireInv(t)'
    <3>1. setup.sockets > 1 => (setup.missing = 0 => needSend' % Block = 0)
      BY <1>3, <2>2 DEF WireInv
    <3> QED BY <1>1, <1>3, <2>2, <3>1, WireKept
  <2> QED BY <1>1, <1>3, <2>1, <2>2, ReceiverKept
<1> QED BY <1>4, <1>5 DEF IInv

(* The inductive invariant.                                                *)
LEMMA Invariance == Spec => []IInv
<1>1. Init => IInv
  BY InitHolds
<1>2. IInv /\ [Next]_vars => IInv'
  <2> SUFFICES ASSUME IInv, [Next]_vars PROVE IInv'
    OBVIOUS
  <2>1. CASE SenderStep
    BY <2>1, SendDataBlockKeeps, SendHeaderKeeps, SendDataKeeps, SendPadKeeps,
       NextFileKeeps, ServerEndsKeeps DEF SenderStep
  <2>2. CASE ReceiverStep
    BY <2>2, ReceiveBlockKeeps, HeaderReadKeeps, EndReadKeeps,
       ReceiveDataBlockKeeps, DataReadKeeps, PadReadKeeps, SyncReadKeeps,
       ReceiveSyncKeeps, ReceiverDoneKeeps DEF ReceiverStep
  <2>3. CASE ReceiveFails
    BY <2>3, ReceiveFailsKeeps
  <2>4. CASE UNCHANGED vars
    BY <2>4, StutterKeeps
  <2> QED BY <2>1, <2>2, <2>3, <2>4 DEF Next
<1> QED BY <1>1, <1>2, PTL DEF Spec
(* A string that is like another one as far as it goes is a prefix of it.  *)
LEMMA PrefixIs ==
  ASSUME NEW a \in Bytes, NEW b \in Bytes, Len(a) <= Len(b),
         \A i \in 1 .. Len(a) : a[i] = b[i]
  PROVE  IsPrefix(a, b)
<1>1. PICK l \in Nat : l = Len(a)
  BY DEF Bytes
<1>2. PICK o \in Nat : o = 0
  OBVIOUS
<1>3. PICK k \in Nat : k = Len(b)
  BY DEF Bytes
<1>4. /\ o + l = l /\ o + 1 = 1 /\ o + l <= k
      /\ \A i \in 1 .. l : o + i = i
  BY <1>1, <1>2, <1>3
<1>5. /\ SubSeq(a, o + 1, o + l) \in Bytes /\ Len(SubSeq(a, o + 1, o + l)) = l
      /\ \A i \in 1 .. l : SubSeq(a, o + 1, o + l)[i] = a[o + i]
  <2>1. o + l <= Len(a)
    BY <1>1, <1>4
  <2> QED BY <2>1, PartIs
<1>6. /\ SubSeq(b, o + 1, o + l) \in Bytes /\ Len(SubSeq(b, o + 1, o + l)) = l
      /\ \A i \in 1 .. l : SubSeq(b, o + 1, o + l)[i] = b[o + i]
  <2>1. o + l <= Len(b)
    BY <1>3, <1>4
  <2> QED BY <2>1, PartIs
<1>7. PICK c \in Bytes : c = SubSeq(a, o + 1, o + l)
  BY <1>5
<1>8. PICK d \in Bytes : d = SubSeq(b, o + 1, o + l)
  BY <1>6
<1>9. c = d
  <2>1. Len(c) = l /\ Len(d) = l
    BY <1>5, <1>6, <1>7, <1>8
  <2>2. \A i \in 1 .. l : c[i] = a[i] /\ d[i] = b[i]
    BY <1>4, <1>5, <1>6, <1>7, <1>8
  <2>3. \A i \in 1 .. Len(c) : c[i] = d[i]
    BY <1>1, <2>1, <2>2
  <2> QED BY <2>1, <2>3, SeqEqual DEF Bytes
<1>10. SubSeq(a, o + 1, o + l) = SubSeq(b, o + 1, o + l)
  BY <1>7, <1>8, <1>9
<1>11. SubSeq(a, 1, Len(a)) = SubSeq(b, 1, Len(a))
  BY <1>1, <1>4, <1>10
<1>12. Len(a) <= Len(b)
  BY <1>1, <1>3, <1>4
<1> QED BY <1>11, <1>12 DEF IsPrefix

(* What SendChunks has sent is the messages as far as it got, each with    *)
(* one header and one padding, in whatever portions the program reads its  *)
(* files, and whatever fails (send_data_block, send_header).               *)
THEOREM SendsTheMessages == Spec => []SenderStream
<1>1. IInv => SenderStream
  <2> SUFFICES ASSUME IInv PROVE SenderStream
    OBVIOUS
  <2>1. SenderType /\ StreamInv /\ SendInv
    BY DEF IInv
  <2>2. ASSUME sendPc # "closed" PROVE IsPrefix(sent, Messages)
    <3>1. PICK a \in Bytes : a = sent
      BY <2>1 DEF SenderType
    <3>2. PICK b \in Bytes : b = Messages /\ Len(b) = Total
      BY <2>1, MessagesAre
    <3>3. Total \in Nat /\ Len(a) \in Nat /\ Len(a) <= Total
      BY <2>1, <2>2, <3>1, FromIs DEF StreamInv, Bytes
    <3>4. Len(a) <= Len(b)
      BY <3>2, <3>3
    <3>5. \A i \in 1 .. Len(a) : a[i] = b[i]
      BY <2>1, <3>1, <3>2, <3>3 DEF StreamInv
    <3> QED BY <3>1, <3>2, <3>4, <3>5, PrefixIs
  <2>3. ASSUME sendPc = "loop", sendStatus = "AllData", ~error
        PROVE  Len(sent) = file * Len(Message(1))
    <3>1. Len(sent) = From(file) + MessageLen
      BY <2>1, <2>3 DEF SendInv, Sent
    <3>2. file \in 1 .. Files
      BY <2>1 DEF SenderType
    <3>3. Len(Message(1)) = MessageLen /\ MessageLen \in Nat
      <4>1. 1 \in 1 .. Files
        BY Numbers
      <4> QED BY <2>1, <4>1, MessageIs
    <3>4. PICK l \in Nat : l = MessageLen
      BY <3>3
    <3>5. (file - 1) * l + l = file * l
      BY <3>2
    <3> QED BY <3>1, <3>3, <3>4, <3>5 DEF From
  <2> QED BY <2>2, <2>3 DEF SenderStream
<1> QED BY <1>1, Invariance, PTL

(* Over sockets that keep the order of the bytes the program gets the      *)
(* files from the start, in order and nothing else, whatever the sizes of  *)
(* the buffers and of the files are and wherever an error ends the         *)
(* transfer (receive_data_block, receive_header, receive_sync).            *)
THEOREM DeliversInOrder == Spec => []DeliveredInOrder
<1>1. IInv => DeliveredInOrder
  <2> SUFFICES ASSUME IInv, InTurn, Large PROVE IsPrefix(got, Contents)
    BY DEF DeliveredInOrder, Large
  <2>1. SenderType /\ ReceiverType
    BY DEF IInv, ReceiverInv
  <2>2. PICK a \in Bytes : a = got
    BY <2>1 DEF ReceiverType
  <2>3. PICK N \in Nat : N = Files * setup.size
    BY Numbers, Fields, <2>1
  <2>4. PICK b \in Bytes : b = Contents /\ Len(b) = N
    BY <2>1, <2>3, ContentsAre
  <2>5. PICK n \in 0 .. N : Got(got, n)
    BY <2>1, <2>3 DEF ReceiverType
  <2>6. Len(a) = n /\ \A i \in 1 .. n : a[i] = b[i]
    BY <2>2, <2>4, <2>5 DEF Got
  <2>7. Len(a) <= Len(b) /\ \A i \in 1 .. Len(a) : a[i] = b[i]
    BY <2>4, <2>5, <2>6
  <2> QED BY <2>2, <2>4, <2>7, PrefixIs
<1> QED BY <1>1, Invariance, PTL

-----------------------------------------------------------------------------
(* What the receiver does whether or not the sockets keep the order: it    *)
(* never asks for less than nothing.                                       *)
NeedInv ==
  /\ rcvPc \in Needs \cup {"loop", "done"}
  /\ dataSize \in Nat /\ needRcv \in Nat /\ stay \in Nat /\ buffer \in Bytes
  /\ rcvPc = "header" => Len(buffer) + stay = 2 * Word
  /\ rcvPc = "data" /\ ~setup.sync => Len(buffer) + stay <= needRcv

(* A receive_need begins.                                                  *)
LEMMA NeedBegins ==
  ASSUME NEW place \in Needs, NEW n \in Nat, Need(place, n), dataSize' \in Nat,
         needRcv' \in Nat, place = "header" => n = 2 * Word,
         place = "data" /\ ~setup'.sync => n <= needRcv'
  PROVE  NeedInv'
<1>1. rcvPc' = place /\ stay' = n /\ buffer' = <<>>
  BY DEF Need
<1>2. <<>> \in Bytes /\ Len(<<>>) = 0 /\ Len(<<>>) + n = n
  BY DEF Bytes
<1> QED BY <1>1, <1>2 DEF NeedInv

(* AfterBlockRest does not ask for less than nothing.                      *)
LEMMA RestBegins ==
  ASSUME AfterBlockRest, dataSize \in Nat, dataSize' \in Nat, needRcv' \in Nat
  PROVE  NeedInv'
<1>1. PadOf(dataSize) \in Nat
  BY PadIs
<1>2. CASE Need("padWord", PadOf(dataSize))
  BY <1>1, <1>2, NeedBegins DEF Needs
<1>3. CASE Need("header", 2 * Word)
  BY <1>3, Numbers, NeedBegins DEF Needs
<1> QED BY <1>2, <1>3 DEF AfterBlockRest

(* And the receiver back in the program.                                   *)
LEMMA ProgramBegins ==
  ASSUME NeedInv, ToProgram, dataSize' \in Nat, needRcv' \in Nat
  PROVE  NeedInv'
<1>1. rcvPc' \in {"loop", "done"} /\ stay' = stay /\ buffer' = buffer
  BY DEF ToProgram
<1> QED BY <1>1 DEF NeedInv

(* ReceiveBlock: what the buffer gets is no longer wanted.                 *)
LEMMA BlockNeeded ==
  ASSUME SenderType, NeedInv, ReceiveBlock
  PROVE  NeedInv'
<1>1. /\ stay >= setup.bufSize /\ Len(wire[iRcv]) >= setup.bufSize
      /\ buffer' = buffer \o SubSeq(wire[iRcv], 1, setup.bufSize)
      /\ stay' = stay - setup.bufSize
      /\ UNCHANGED <<setup, rcvPc, dataSize, needRcv>>
  BY DEF ReceiveBlock
<1>2. PICK B \in Nat \ {0} : B = setup.bufSize
  BY Fields
<1>3. PICK v \in Bytes : v = wire[iRcv] /\ Len(v) \in Nat /\ Len(v) >= B
  BY <1>1, <1>2 DEF SenderType, Bytes
<1>4. PICK x \in Bytes : x = SubSeq(wire[iRcv], 1, setup.bufSize) /\ Len(x) = B
  <2>1. PICK o \in Nat : o = 0
    OBVIOUS
  <2>2. o + B <= Len(v) /\ o + 1 = 1 /\ o + B = B
    BY <1>3, <2>1
  <2>3. /\ SubSeq(v, o + 1, o + B) \in Bytes /\ Len(SubSeq(v, o + 1, o + B)) = B
    BY <2>2, PartIs
  <2> QED BY <1>2, <1>3, <2>2, <2>3
<1>5. /\ buffer' \in Bytes /\ Len(buffer') = Len(buffer) + B
      /\ Len(buffer) \in Nat /\ stay \in Nat /\ stay' = stay - B /\ B <= stay
  <2>1. buffer \in Bytes /\ stay \in Nat
    BY DEF NeedInv
  <2>2. buffer' = buffer \o x
    BY <1>1, <1>4
  <2> QED BY <1>1, <1>2, <1>4, <2>1, <2>2, Joined DEF Joins, Bytes
<1>6. stay' \in Nat /\ Len(buffer') + stay' = Len(buffer) + stay
  BY <1>5
<1> QED BY <1>1, <1>5, <1>6 DEF NeedInv

(* HeaderRead: the words of a header are numbers.                          *)
LEMMA HeaderNeeded ==
  ASSUME NeedInv, HeaderRead
  PROVE  NeedInv'
<1>1. PICK size : size = ToNumber(SubSeq(buffer, 1, Word))
  OBVIOUS
<1>2. /\ dataSize' = size /\ needRcv' = size /\ stay = 0 /\ rcvPc = "header"
      /\ \/ Need("service", Word)
         \/ setup.sync /\ setup' = setup /\ Need("data", size + PadOf(size))
         \/ Need("padding", size)
         \/ ToProgram
  BY <1>1 DEF HeaderRead, Through
<1>3. size \in Nat
  <2>1. buffer \in Bytes /\ Len(buffer) = 2 * Word
    BY <1>2 DEF NeedInv, Bytes
  <2>2. PICK o \in Nat : o = 0
    OBVIOUS
  <2>3. o + Word <= Len(buffer) /\ o + 1 = 1 /\ o + Word = Word /\ Word \in Nat
    BY <2>1, <2>2, Numbers
  <2>4. /\ SubSeq(buffer, o + 1, o + Word) \in Bytes
        /\ Len(SubSeq(buffer, o + 1, o + Word)) = Word
    BY <2>1, <2>3, PartIs
  <2>5. PICK b \in Bytes : b = SubSeq(buffer, 1, Word) /\ Len(b) = Word
    BY <2>3, <2>4
  <2> QED BY <1>1, <2>5, WordRead
<1>4. size + PadOf(size) \in Nat /\ Word \in Nat
  BY <1>3, PadIs, Numbers
<1>5. CASE Need("service", Word)
  BY <1>2, <1>3, <1>4, <1>5, NeedBegins DEF Needs
<1>6. CASE setup.sync /\ setup' = setup /\ Need("data", size + PadOf(size))
  <2>1. \A n \in Nat : Need("data", n) => NeedInv'
    BY <1>2, <1>3, <1>6, NeedBegins DEF Needs
  <2> QED BY <1>4, <1>6, <2>1
<1>7. CASE Need("padding", size)
  BY <1>2, <1>3, <1>7, NeedBegins DEF Needs
<1>8. CASE ToProgram
  BY <1>2, <1>3, <1>8, ProgramBegins
<1> QED BY <1>2, <1>5, <1>6, <1>7, <1>8

(* DataRead: the buffer is never more than what is left of the file.       *)
LEMMA DataNeeded ==
  ASSUME SenderType, NeedInv, DataRead
  PROVE  NeedInv'
<1>1. /\ rcvPc = "data" /\ stay = 0 /\ ~setup.sync /\ setup' = setup
      /\ needRcv' = needRcv - Len(buffer) /\ dataSize' = dataSize
      /\ \/ rcvPc' = "loop" /\ UNCHANGED <<stay, buffer>>
         \/ IF BlockRest > 0 THEN Need("padBuf", BlockRest) ELSE AfterBlockRest
  BY DEF DataRead, Through
<1>2. Len(buffer) \in Nat /\ needRcv \in Nat /\ Len(buffer) <= needRcv
  BY <1>1 DEF NeedInv, Bytes
<1>3. needRcv' \in Nat /\ dataSize \in Nat /\ dataSize' \in Nat
  BY <1>1, <1>2 DEF NeedInv
<1>4. CASE rcvPc' = "loop" /\ UNCHANGED <<stay, buffer>>
  BY <1>3, <1>4 DEF NeedInv
<1>5. CASE AfterBlockRest
  BY <1>3, <1>5, RestBegins
<1>6. CASE Need("padBuf", BlockRest)
  <2>1. BlockRest \in Nat
    <3>1. PICK B \in Nat \ {0} : B = setup.bufSize
      BY Fields
    <3>2. PICK d \in Nat : d = dataSize + 2 * Word
      BY <1>3, Numbers
    <3>3. d % B \in 0 .. B - 1
      BY <3>1, <3>2, DivMod
    <3>4. PICK r \in Nat : r = B - (d % B)
      BY <3>1, <3>3
    <3>5. r % B \in Nat
      BY <3>1, <3>4, DivMod
    <3> QED BY <3>1, <3>2, <3>4, <3>5 DEF BlockRest
  <2>2. \A n \in Nat : Need("padBuf", n) => NeedInv'
    BY <1>3, NeedBegins DEF Needs
  <2> QED BY <1>6, <2>1, <2>2
<1> QED BY <1>1, <1>4, <1>5, <1>6

(* Each step of either program.                                            *)
LEMMA NeedKept ==
  ASSUME SenderType, NeedInv, [Next]_vars
  PROVE  NeedInv'
<1>1. CASE SenderStep \/ UNCHANGED vars
  <2>1. UNCHANGED <<setup, receiver>>
    BY <1>1 DEF SenderStep, SendDataBlock, SendHeader, SendData, SendPad,
       NextFile, ServerEnds, vars
  <2> QED BY <2>1 DEF receiver, NeedInv
<1>2. CASE ReceiveBlock
  BY <1>2, BlockNeeded
<1>3. CASE HeaderRead
  BY <1>3, HeaderNeeded
<1>4. CASE ServiceRead \/ PaddingRead
  <2>1. ToProgram /\ dataSize' = dataSize /\ needRcv' = needRcv
    BY <1>4 DEF ServiceRead, PaddingRead
  <2> QED BY <2>1, ProgramBegins DEF NeedInv
<1>5. CASE ReceiveDataBlock
  <2>1. /\ Need("data", AtMost(needRcv, setup.rcvBuf))
        /\ dataSize' = dataSize /\ needRcv' = needRcv
    BY <1>5 DEF ReceiveDataBlock
  <2>2. needRcv \in Nat /\ dataSize \in Nat /\ setup.rcvBuf \in Nat
    BY Fields DEF NeedInv
  <2>3. PICK n \in Nat : n = AtMost(needRcv, setup.rcvBuf) /\ n <= needRcv
    BY <2>2 DEF AtMost
  <2> QED BY <2>1, <2>2, <2>3, NeedBegins DEF Needs
<1>6. CASE DataRead
  BY <1>6, DataNeeded
<1>7. CASE PadRead
  <2>1. /\ AfterBlockRest \/ Need("header", 2 * Word)
        /\ dataSize' = dataSize /\ needRcv' = needRcv
    BY <1>7 DEF PadRead
  <2>2. dataSize \in Nat /\ needRcv \in Nat
    BY DEF NeedInv
  <2>3. AfterBlockRest => NeedInv'
    BY <2>1, <2>2, RestBegins
  <2>4. Need("header", 2 * Word) => NeedInv'
    BY <2>1, <2>2, Numbers, NeedBegins DEF Needs
  <2> QED BY <2>1, <2>3, <2>4
<1>8. CASE SyncRead \/ ReceiverDone
  <2>1. /\ rcvPc' \in {"loop", "done"}
        /\ UNCHANGED <<dataSize, needRcv, stay, buffer>>
    BY <1>8 DEF SyncRead, ReceiverDone
  <2> QED BY <2>1 DEF NeedInv
<1>9. CASE ReceiveSync
  <2>1. Need("header", 2 * Word) /\ dataSize' = dataSize /\ needRcv' = needRcv
    BY <1>9 DEF ReceiveSync
  <2>2. dataSize \in Nat /\ needRcv \in Nat
    BY DEF NeedInv
  <2> QED BY <2>1, <2>2, Numbers, NeedBegins DEF Needs
<1>10. CASE ReceiveFails
  <2>1. /\ AfterBlockRest \/ ToProgram
        /\ dataSize' = dataSize /\ needRcv' = needRcv
    BY <1>10 DEF ReceiveFails
  <2>2. dataSize \in Nat /\ needRcv \in Nat
    BY DEF NeedInv
  <2>3. AfterBlockRest => NeedInv'
    BY <2>1, <2>2, RestBegins
  <2>4. ToProgram => NeedInv'
    BY <2>1, <2>2, ProgramBegins
  <2> QED BY <2>1, <2>3, <2>4
<1> QED BY <1>1, <1>2, <1>3, <1>4, <1>5, <1>6, <1>7, <1>8, <1>9, <1>10
        DEF Next, ReceiverStep

(* A receive_need of a length that tcpBufSize_ does not divide ends with   *)
(* an error or not at all (receive 557, receive_need 599-610).             *)
THEOREM SpinsForEver == Spec => NeedSpins
<1>1. Init => NeedInv
  <2> SUFFICES ASSUME Init PROVE NeedInv
    OBVIOUS
  <2>1. <<>> \in Bytes /\ Len(<<>>) = 0
    BY DEF Bytes
  <2>2. 2 * Word \in Nat /\ Len(<<>>) + 2 * Word = 2 * Word
    BY <2>1, Numbers
  <2> QED BY <2>1, <2>2 DEF Init, NeedInv, Needs
<1>2. IInv /\ NeedInv /\ [Next]_vars => NeedInv'
  BY NeedKept DEF IInv
<1>3. IInv /\ NeedInv /\ [Next]_vars =>
        [stay % setup.bufSize # 0 /\ rcvPc \in Needs =>
           error' \/ (rcvPc' = rcvPc /\ stay' % setup.bufSize # 0)]_vars
  <2> SUFFICES ASSUME SenderType, NeedInv, [Next]_vars,
                      stay % setup.bufSize # 0, rcvPc \in Needs, ~error'
               PROVE  rcvPc' = rcvPc /\ stay' % setup.bufSize # 0
    BY DEF IInv
  <2>1. PICK B \in Nat \ {0} : B = setup.bufSize
    BY Fields
  <2>2. stay \in Nat /\ stay # 0
    <3>1. \A b \in Nat \ {0} : 0 % b = 0
      OBVIOUS
    <3> QED BY <2>1, <3>1 DEF NeedInv
  <2>3. rcvPc \notin {"loop", "done"}
    BY DEF Needs
  <2>4. CASE SenderStep \/ UNCHANGED vars
    <3>1. UNCHANGED receiver
      BY <2>4 DEF SenderStep, SendDataBlock, SendHeader, SendData, SendPad,
         NextFile, ServerEnds, vars
    <3> QED BY <3>1 DEF receiver
  <2>5. CASE ReceiveBlock
    <3>1. stay >= B /\ stay' = stay - B /\ rcvPc' = rcvPc
      BY <2>1, <2>5 DEF ReceiveBlock
    <3>2. PICK q \in Nat, r \in 0 .. B - 1 : r = stay % B /\ stay = q * B + r
      <4>1. /\ stay \div B \in Nat /\ stay % B \in 0 .. B - 1
            /\ stay = (stay \div B) * B + (stay % B)
        BY <2>1, <2>2, DivMod
      <4>2. PICK d \in Nat, m \in 0 .. B - 1 : d = stay \div B /\ m = stay % B
        BY <4>1
      <4>3. m = stay % B /\ stay = d * B + m
        BY <4>1, <4>2
      <4> QED BY <4>3
    <3>3. q # 0
      BY <2>1, <3>1, <3>2
    <3>4. PICK k \in Nat : q = k + 1
      <4>1. q - 1 \in Nat /\ q = (q - 1) + 1
        BY <3>2, <3>3
      <4> QED BY <4>1
    <3>5. stay' = k * B + r
      BY <3>1, <3>2, <3>4
    <3>6. (k * B + r) % B = r
      BY DivModUnique
    <3> QED BY <2>1, <3>1, <3>2, <3>5, <3>6
  <2>6. ~(/\ Next
          /\ \/ HeaderRead \/ ServiceRead \/ PaddingRead \/ ReceiveDataBlock
             \/ DataRead \/ PadRead \/ SyncRead \/ ReceiveSync
             \/ ReceiverDone \/ ReceiveFails)
    BY <2>2, <2>3 DEF HeaderRead, ServiceRead, PaddingRead, ReceiveDataBlock,
       DataRead, PadRead, SyncRead, ReceiveSync, ReceiverDone, ReceiveFails,
       Through
  <2> QED BY <2>4, <2>5, <2>6 DEF Next, ReceiverStep
<1>4. Spec => [](IInv /\ NeedInv)
  BY <1>1, <1>2, Invariance, PTL DEF Spec
<1> QED BY <1>3, <1>4, PTL DEF Spec, NeedSpins

-----------------------------------------------------------------------------
(* With blocks larger than a header the receiver is in the receive_need it *)
(* begins with, or has left it by an error of the sender.                  *)
StuckInv ==
  setup.bufSize > 2 * Word =>
    /\ got = <<>> /\ chunk = <<>>
    /\ \/ rcvPc = "header" /\ stay = 2 * Word /\ buffer = <<>>
       \/ /\ error /\ rcvStatus = "Error"
          /\ rcvPc = "done" \/ (rcvPc = "loop" /\ ~setup.sync)

(* A client that is connected, whose blocks are larger than a header, gets *)
(* no byte through ReceiveChunks or receive_sync: the first receive_need   *)
(* asks receive() for less than a block without end (receive 557,          *)
(* receive_need 599, configSocket 208).                                    *)
THEOREM NothingIsReceived == Spec => []NothingReceived
<1>1. Init => StuckInv
  BY DEF Init, StuckInv
<1>2. IInv /\ StuckInv /\ [Next]_vars => StuckInv'
  <2> SUFFICES ASSUME SenderType, StuckInv, [Next]_vars PROVE StuckInv'
    BY DEF IInv
  <2>0. setup' = setup
    <3>1. CASE SenderStep \/ UNCHANGED vars
      BY <3>1 DEF SenderStep, SendDataBlock, SendHeader, SendData, SendPad,
         NextFile, ServerEnds, vars
    <3>2. CASE ReceiverStep
      BY <3>2 DEF ReceiverStep, ReceiveBlock, HeaderRead, ServiceRead,
         PaddingRead, ReceiveDataBlock, DataRead, PadRead, SyncRead,
         ReceiveSync, ReceiverDone
    <3>3. CASE ReceiveFails
      BY <3>3 DEF ReceiveFails
    <3> QED BY <3>1, <3>2, <3>3 DEF Next
  <2> SUFFICES ASSUME setup.bufSize > 2 * Word PROVE StuckInv'
    BY <2>0 DEF StuckInv
  <2>1. PICK B \in Nat, w \in Nat : B = setup.bufSize /\ w = 2 * Word /\ B > w
        /\ w # 0
    BY Fields, Numbers
  <2>2. CASE SenderStep \/ UNCHANGED vars
    <3>1. UNCHANGED receiver
      BY <2>2 DEF SenderStep, SendDataBlock, SendHeader, SendData, SendPad,
         NextFile, ServerEnds, vars
    <3>2. error => error'
      <4>1. CASE SendDataBlock \/ NextFile \/ UNCHANGED vars
        BY <4>1 DEF SendDataBlock, NextFile, vars
      <4>2. CASE SendHeader \/ SendData \/ SendPad \/ ServerEnds
        BY <4>2 DEF SendHeader, SendData, SendPad, ServerEnds, SendNeed,
           SendNeedFails
      <4> QED BY <2>2, <4>1, <4>2 DEF SenderStep
    <3> QED BY <2>0, <3>1, <3>2 DEF receiver, StuckInv
  <2>3. CASE ReceiveFails
    <3>1. rcvPc = "header" /\ chunk = <<>> /\ got = <<>>
      BY <2>3 DEF ReceiveFails, Needs, StuckInv
    <3>2. /\ error' /\ rcvStatus' = "Error" /\ setup' = setup
          /\ got' = got \o chunk /\ chunk' = <<>>
          /\ rcvPc' = "done" \/ (rcvPc' = "loop" /\ ~setup.sync)
      BY <2>3, <3>1 DEF ReceiveFails, ToProgram
    <3>3. <<>> \o <<>> = <<>>
      OBVIOUS
    <3> QED BY <3>1, <3>2, <3>3 DEF StuckInv
  <2>4. CASE ReceiverDone
    BY <2>4 DEF ReceiverDone, StuckInv
  <2>5. ~(/\ Next
          /\ \/ ReceiveBlock \/ HeaderRead \/ ServiceRead \/ PaddingRead
             \/ ReceiveDataBlock \/ DataRead \/ PadRead \/ SyncRead
             \/ ReceiveSync)
    BY <2>1 DEF StuckInv, ReceiveBlock, HeaderRead, ServiceRead, PaddingRead,
       ReceiveDataBlock, DataRead, PadRead, SyncRead, ReceiveSync, Through,
       Needs
  <2> QED BY <2>2, <2>3, <2>4, <2>5 DEF Next, ReceiverStep
<1>3. StuckInv => NothingReceived
  BY DEF StuckInv, NothingReceived
<1> QED BY <1>1, <1>2, <1>3, Invariance, PTL DEF Spec
=============================================================================
