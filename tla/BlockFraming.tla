---------------------------- MODULE BlockFraming ----------------------------
(***************************************************************************)
(* How a string of bytes is cut into blocks and put together again.  An    *)
(* exchange sends one string, and the terminate blocks after it, while the *)
(* reply, which is the same blocks, is received:                           *)
(*   "tcpio"  send_to_tcp_io,  receive_tcp_io into a buffer                *)
(*   "data"   sendData,        receiveToData (receive_data) into a vector  *)
(*   "bin"    sendBinFile,     receiveToBin into a file                    *)
(*   "hex"    sendHexFile,     receiveToHex into a file of words           *)
(*   "badHex" the same, with something in the file that is not a word      *)
(*   "quick"  sendData,        receiveQuickData onto the end of a vector   *)
(* A program may have several exchanges over one client.  The blocks go    *)
(* through a FIFO, which is what StripedStream implements.                 *)
(*                                                                         *)
(* A block is two header words, the size and the tag, and room for data;   *)
(* what the data does not fill is what was in the sender's buffer before.  *)
(***************************************************************************)
EXTENDS Integers, Sequences

CONSTANTS
  Word,          \* bytes of a word
  Words,         \* words of a block: tcpBufSize_ / 8
  SocketCounts,  \* what sockfd_send_.size() may be
  Kinds,         \* the kinds of exchange the program may have
  Lengths,       \* how many bytes it may send
  Rooms,         \* sizes of the buffer receive_tcp_io may be given
  FirstBlocks,   \* receiveToData begins with a vector of this many blocks
  MaxExchanges,  \* bound: how many exchanges over one client
  MaxPipe        \* bound: blocks under way when the sender never ends

ASSUME FramingAssumption ==
  /\ Word \in Nat \ {0} /\ Words \in Nat /\ Words >= 4
  /\ SocketCounts \subseteq Nat \ {0}
  /\ Kinds \subseteq {"tcpio", "data", "bin", "hex", "badHex", "quick"}
  /\ Lengths \subseteq Nat /\ Rooms \subseteq Nat
  /\ FirstBlocks \in Nat \ {0} /\ MaxExchanges \in Nat /\ MaxPipe \in Nat \ {0}

VARIABLES
  nSend,      \* sockfd_send_.size()
  up,         \* no call has failed: lastError_ = 0
  pipe,       \* blocks under way
  exchange,   \* number of the exchange
  kind,       \* its kind
  length,     \* bytes it sends
  clean,      \* nothing was left over when it began
  \* the sending function
  sending,    \* "no", "data", "terminate"
  readBytes,  \* readBytes: how much of the string it has sent
  size,       \* data[0]
  body,       \* the rest of the block buffer
  terms,      \* terminate blocks it still sends
  \* the receiving function
  receiving,  \* it is running
  room,       \* length: size of the buffer of receive_tcp_io
  out,        \* dataOut of receiveToData; what the others have written
  cursor,     \* bytes between the start of dataOut and pDataChar
  words,      \* rcvDataSize
  result      \* how the last one ended

sender   == <<sending, readBytes, size, body, terms>>
receiver == <<receiving, room, out, cursor, words, result>>
vars == <<nSend, up, pipe, exchange, kind, length, clean, sender,
          receiver>>

BufSize     == Word * Words             \* tcpBufSize_
BufDataSize == BufSize - 2 * Word       \* bufDataSize

(* Byte i of the string of exchange x; what fills a buffer at first.       *)
Byte(x, i) == <<x, i>>
Zero       == <<0, 0>>
Zeros(n)   == [i \in 1 .. n |-> Zero]
String     == [i \in 1 .. length |-> Byte(exchange, i)]

RoundUp(n) == (n + Word - 1) \div Word  \* bytes in words
Data(s, b) == [tag |-> "data", size |-> s, body |-> b]
Terminate  == [tag |-> "terminate", size |-> Word, body |-> Zeros(BufDataSize)]

(* memcpy(to + at, from, Len(from))                                        *)
Copy(to, at, from) ==
  [i \in DOMAIN to |-> IF i - at \in DOMAIN from THEN from[i - at] ELSE to[i]]

(* std::vector::resize                                                     *)
Extend(v, n) == v \o Zeros(n - Len(v))

Init ==
  /\ nSend \in SocketCounts /\ up = TRUE /\ pipe = <<>>
  /\ exchange = 0 /\ kind = "none" /\ length = 0 /\ clean = TRUE
  /\ sending = "no" /\ readBytes = 0 /\ size = 0 /\ body = <<>> /\ terms = 0
  /\ receiving = FALSE /\ room = 0 /\ out = <<>> /\ cursor = 0 /\ words = 0
  /\ result = "none"

-----------------------------------------------------------------------------
(* The program begins an exchange.  A vector has at least one word, and a  *)
(* vector and a hex file have whole words.                                 *)
Begin(k, n, r) ==
  /\ sending = "no" /\ ~receiving /\ up /\ exchange < MaxExchanges
  /\ k \in {"data", "hex", "badHex", "quick"} => n % Word = 0
  /\ k \in {"data", "quick"} => n > 0
  /\ exchange' = exchange + 1 /\ kind' = k /\ length' = n
  /\ clean' = (pipe = <<>>)
  /\ sending' = "data" /\ readBytes' = 0
  /\ size' = BufDataSize /\ body' = Zeros(BufDataSize) /\ terms' = nSend
  /\ receiving' = TRUE /\ room' = IF k = "tcpio" THEN r ELSE 0
  /\ out' = IF k = "data" THEN Zeros(FirstBlocks * BufSize) ELSE <<>>
  /\ cursor' = 0 /\ words' = 0 /\ result' = "none"
  /\ UNCHANGED <<nSend, up, pipe>>

(* n bytes of the string go into a block on top of rest, and are sent.     *)
PutBlock(n, rest) ==
  /\ size' = n
  /\ body' = Copy(rest, 0, SubSeq(String, readBytes + 1, readBytes + n))
  /\ pipe' = Append(pipe, Data(size', body'))
  /\ readBytes' = readBytes + n

(* Fault: the loop ends when less than a block is left.                    *)
SendBlockTailLost ==
  LET need == length - readBytes
      n    == IF BufDataSize > need THEN need ELSE size
  IN /\ sending = "data" /\ kind \notin {"hex", "badHex"} /\ up
     /\ ~(kind = "bin" /\ n = 0)
     /\ PutBlock(n, body)
     /\ sending' = IF length - readBytes' < BufDataSize
                     THEN "terminate" ELSE "data"
     /\ UNCHANGED <<nSend, up, exchange, kind, length, clean, terms, receiver>>

(* One round of the loop of send_to_tcp_io, sendData or sendBinFile.  The  *)
(* size stays that of a full block until the last one; only sendBinFile    *)
(* clears the buffer before it.                                            *)
SendBlock ==
  LET need == length - readBytes
      n    == IF BufDataSize > need THEN need ELSE size
      rest == IF BufDataSize > need /\ kind = "bin"
                THEN Zeros(BufDataSize) ELSE body
  IN /\ sending = "data" /\ kind \notin {"hex", "badHex"} /\ up
     /\ ~(kind = "bin" /\ n = 0)
     /\ PutBlock(n, rest)
     /\ sending' = IF length - readBytes' > 0 THEN "data" ELSE "terminate"
     /\ UNCHANGED <<nSend, up, exchange, kind, length, clean, terms, receiver>>

(* Fault: the function returns instead.                                    *)
SendEmptyFileReturns ==
  /\ sending = "data" /\ kind = "bin" /\ length = 0
  /\ sending' = "no"
  /\ UNCHANGED <<nSend, up, pipe, exchange, kind, length, clean, readBytes,
                 size, body, terms, receiver>>

(* sendBinFile reads nothing from an empty file and leaves its loop.       *)
SendEmptyFile ==
  /\ sending = "data" /\ kind = "bin" /\ length = 0
  /\ sending' = "terminate"
  /\ UNCHANGED <<nSend, up, pipe, exchange, kind, length, clean, readBytes,
                 size, body, terms, receiver>>

(* Fault: a word that cannot be read ends the loop, whatever the reason.   *)
SendHexBlockStops(newline) ==
  LET need == length - readBytes
      n    == IF BufDataSize > need THEN need ELSE BufDataSize
  IN /\ sending = "data" /\ kind \in {"hex", "badHex"} /\ up
     /\ PutBlock(n, IF n < BufDataSize THEN Zeros(BufDataSize) ELSE body)
     /\ sending' = IF n < BufDataSize \/ (~newline /\ readBytes' = length)
                     THEN "terminate" ELSE "data"
     /\ UNCHANGED <<nSend, up, exchange, kind, length, clean, terms, receiver>>

(* One round of the loop of sendHexFile: words are read until the block is *)
(* full or a read fails; the file is at its end when a read has failed, or *)
(* with the last word if no newline comes after it.  It never is when what *)
(* fails is a thing that is not a word: then the blocks are empty.         *)
SendHexBlock(newline) ==
  LET need == length - readBytes
      n    == IF BufDataSize > need THEN need ELSE BufDataSize
      eof  == n < BufDataSize \/ (~newline /\ readBytes' = length)
  IN /\ sending = "data" /\ kind \in {"hex", "badHex"} /\ up
     /\ kind = "badHex" => Len(pipe) < MaxPipe
     /\ PutBlock(n, IF n < BufDataSize THEN Zeros(BufDataSize) ELSE body)
     /\ sending' = IF kind = "hex" /\ eof THEN "terminate" ELSE "data"
     /\ UNCHANGED <<nSend, up, exchange, kind, length, clean, terms, receiver>>

(* Fault: one block too many.                                              *)
SendTerminateOneMore ==
  /\ sending = "terminate" /\ up
  /\ pipe' = Append(pipe, Terminate)
  /\ terms' = terms - 1
  /\ sending' = IF terms = 0 THEN "no" ELSE "terminate"
  /\ UNCHANGED <<nSend, up, exchange, kind, length, clean, readBytes, size,
                 body, receiver>>

(* send_terminate: one block for every sending socket.                     *)
SendTerminate ==
  /\ sending = "terminate" /\ up
  /\ pipe' = Append(pipe, Terminate)
  /\ terms' = terms - 1
  /\ sending' = IF terms = 1 THEN "no" ELSE "terminate"
  /\ UNCHANGED <<nSend, up, exchange, kind, length, clean, readBytes, size,
                 body, receiver>>

(* send() fails: the function returns.  What it was given after the break  *)
(* and before that is lost.                                                *)
SendFails ==
  /\ sending # "no" /\ ~up
  /\ sending' = "no"
  /\ UNCHANGED <<nSend, up, pipe, exchange, kind, length, clean, readBytes,
                 size, body, terms, receiver>>

-----------------------------------------------------------------------------
Return(value) ==
  /\ receiving' = FALSE
  /\ result' = value

(* Every receiving loop ends with a terminate block.                       *)
LoopUnless(b) ==
  IF b.tag = "terminate"
    THEN Return("done") ELSE UNCHANGED <<receiving, result>>

(* What a block brings: header and padding stay behind, a service block    *)
(* has no data.                                                            *)
ReceiveData(b) == IF b.tag = "data" THEN SubSeq(b.body, 1, b.size) ELSE <<>>

Take ==
  /\ receiving /\ pipe # <<>>
  /\ pipe' = Tail(pipe)
  /\ UNCHANGED <<nSend, up, exchange, kind, length, clean, sender, room>>

(* Fault: room for one block is enough.                                    *)
TcpIoRoomForOne(b) ==
  /\ \/ /\ BufSize > room
        /\ Return("noRoom")
        /\ UNCHANGED out
     \/ /\ BufSize <= room
        /\ out' = out \o ReceiveData(b)
        /\ LoopUnless(b)
  /\ UNCHANGED <<cursor, words>>

(* receive_tcp_io: another whole block must fit, or it returns -2.         *)
TcpIo(b) ==
  /\ \/ /\ Len(out) + BufSize > room
        /\ Return("noRoom")
        /\ UNCHANGED out
     \/ /\ Len(out) + BufSize <= room
        /\ out' = out \o ReceiveData(b)
        /\ LoopUnless(b)
  /\ UNCHANGED <<cursor, words>>

ReceiveTcpIo == kind = "tcpio" /\ Take /\ TcpIo(Head(pipe))

(* The vector of receiveToData with room for one more block, and where     *)
(* that block goes.                                                        *)
Enlarged ==
  LET needSize == (words + Words) * Word
  IN IF Len(out) >= needSize
       THEN [v |-> out, at |-> cursor]
       ELSE [v |-> Extend(out, needSize), at |-> words * Word]

(* receiveToData: the data goes where pDataChar points, and the size is    *)
(* counted in words.  At the end the vector is cut to it.                  *)
ReceiveToData ==
  LET b    == Head(pipe)
      data == ReceiveData(b)
  IN /\ kind = "data" /\ Take
     /\ words' = words + RoundUp(Len(data))
     /\ cursor' = Enlarged.at + Len(data)
     /\ LET v == Copy(Enlarged.v, Enlarged.at, data)
        IN out' = IF b.tag = "terminate" THEN SubSeq(v, 1, words' * Word) ELSE v
     /\ LoopUnless(b)

(* receiveToBin writes size bytes, receiveToHex the words they begin.      *)
ReceiveToFile ==
  LET b == Head(pipe)
      n == IF kind = "bin" THEN b.size ELSE RoundUp(b.size) * Word
  IN /\ kind \in {"bin", "hex", "badHex"} /\ Take
     /\ out' = IF b.tag = "data" THEN out \o SubSeq(b.body, 1, n) ELSE out
     /\ LoopUnless(b)
     /\ UNCHANGED <<cursor, words>>

(* receiveQuickData puts the words at the end of a vector.                 *)
ReceiveQuickData ==
  LET b == Head(pipe)
  IN /\ kind = "quick" /\ Take
     /\ out' = IF b.tag = "data"
                 THEN out \o SubSeq(b.body, 1, RoundUp(b.size) * Word) ELSE out
     /\ LoopUnless(b)
     /\ UNCHANGED <<cursor, words>>

(* receive() fails, now or before.                                         *)
ReceiveFails ==
  /\ receiving /\ ~up
  /\ Return("error")
  /\ UNCHANGED <<nSend, up, pipe, exchange, kind, length, clean, sender, room,
                 out, cursor, words>>

(* The connection breaks, somewhere in what is under way.                  *)
Break ==
  /\ up /\ exchange > 0
  /\ up' = FALSE
  /\ \E k \in 0 .. Len(pipe) : pipe' = SubSeq(pipe, 1, k)
  /\ UNCHANGED <<nSend, exchange, kind, length, clean, sender, receiver>>

-----------------------------------------------------------------------------
SendStep ==
  \/ SendBlock \/ SendEmptyFile
  \/ \E newline \in BOOLEAN : SendHexBlock(newline)
  \/ SendTerminate \/ SendFails
ReceiveStep ==
  ReceiveTcpIo \/ ReceiveToData \/ ReceiveToFile \/ ReceiveQuickData
    \/ ReceiveFails

Next ==
  \/ \E k \in Kinds, n \in Lengths, r \in Rooms : Begin(k, n, r)
  \/ SendStep \/ ReceiveStep \/ Break

(* Both functions run until they return.                                   *)
Spec == Init /\ [][Next]_vars /\ WF_vars(SendStep) /\ WF_vars(ReceiveStep)

-----------------------------------------------------------------------------
(* What an exchange returns, if it gets as far as a terminate block, is    *)
(* the string that was sent, byte for byte, whatever its length is to the  *)
(* block size: provided nothing was left over from the exchange before     *)
(* (send_to_tcp_io 361-374, sendData 869-884, sendBinFile 760-786,         *)
(* sendHexFile 828-842 and their receivers).                               *)
RoundTrip == result = "done" /\ clean => out = String

(* receive_tcp_io writes no further than the buffer it was given reaches,  *)
(* receiveToData asks receive_data for no more than fits behind pDataChar; *)
(* pDataChar counts bytes and rcvDataSize words, and they are at the same  *)
(* place unless blocks were left over that end within a word               *)
(* (receive_tcp_io 632-637, receiveToData 1058-1073).                      *)
NoOverrun ==
  /\ kind = "tcpio" => Len(out) <= room
  /\ kind = "data" /\ receiving =>
       /\ Enlarged.at + BufDataSize <= Len(Enlarged.v)
       /\ clean => Enlarged.at = words * Word

(* With one terminate block per socket and a receiver that stops at the    *)
(* first, an exchange that went through leaves the others behind: none     *)
(* with one socket, so that the next exchange starts clean.                *)
LeftOver ==
  sending = "no" /\ result = "done" /\ up /\ clean =>
    pipe = [k \in 1 .. nSend - 1 |-> Terminate]

(* An exchange comes to an end: there is a terminate block for every       *)
(* receiver, or an error, unless a hex file is malformed.                  *)
ExchangeEnds == (receiving /\ kind # "badHex") ~> ~receiving

(* Nothing but an error ends the transfer of a hex file in which something *)
(* is not a word: the sender goes on with empty blocks, the receiver gets  *)
(* the words before it and waits for more (sendHexFile 828-842).  (Unless  *)
(* that is an over-long number or a sign alone at the very end: reading it *)
(* meets the end of the file too.)                                         *)
MalformedHex ==
  kind = "badHex" /\ clean =>
    /\ up => sending = "data" /\ receiving
    /\ out = SubSeq(String, 1, Len(out))

(* tcpclient.h:180 simpleExample receives its own string of n bytes into a *)
(* buffer of n + 7 bytes, and tcpclient.h:272 calls length the size of the *)
(* buffer: a buffer at least as long as the reply is long enough.          *)
RoomSuffices == kind = "tcpio" /\ room >= length => result # "noRoom"
=============================================================================
