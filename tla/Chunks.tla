------------------------------- MODULE Chunks -------------------------------
(***************************************************************************)
(* The chunked transfer: a program sends files with SendChunks (or         *)
(* SendBlocks, which differs in its constructor only) and another one, or  *)
(* the same, takes them with ReceiveChunks or with receive_sync, each the  *)
(* way the documentation in tcpclient.h does it.  Unlike the block format  *)
(* of send_to_tcp_io, a message is                                         *)
(*   size, tag, the data, zeros up to a whole word                         *)
(* in whatever pieces send_need and receive_need move it, and with each    *)
(* piece these two go on to the next socket: send() passes on any number   *)
(* of bytes, receive() always tcpBufSize_ of them.  The server passes on   *)
(* what it gets, and in the end says so.                                   *)
(***************************************************************************)
EXTENDS Words, SequencesExt

CONSTANTS
  Files,     \* how many files of the same size are sent in a row
  Setups     \* what is looked at: records of the fields below

ASSUME ChunksAssumption ==
  /\ Files \in Nat \ {0}
  /\ Setups \subseteq [sockets : Nat \ {0},  \* size of the bundle
                       bufSize : Nat \ {0},  \* tcpBufSize_
                       size : Nat,           \* of a file
                       missing : Nat,        \* the file is this much shorter
                       sendBuf : Nat \ {0},  \* the sender reads so much
                       rcvBuf : Nat \ {0},   \* BUF_SIZE of the receiver
                       sync : BOOLEAN,       \* receive_sync, not ReceiveChunks
                       vector : Nat]         \* data.size() of receive_sync
  /\ \A s \in Setups : s.missing = 0 \/ s.missing < s.size

VARIABLES
  setup,       \* one of Setups
  error,       \* get_error() # 0
  wire,        \* the bytes under way on each socket
  \* the sending program and its SendChunks
  file,        \* the file being sent
  fileRest,    \* bytes of it that are not read yet
  sendPc,      \* "loop", or the send_need it is in
  sendStatus,  \* SendChunks::status_
  needSend,    \* needBytesSend_
  piece,       \* bytes of the file in its buffer
  iSend,       \* connection_.iSocketSend_
  sent,        \* every byte sent so far, in the order of the send() calls
  \* the receiving program and its ReceiveChunks
  rcvPc,       \* "loop", "done", or the receive_need it is in
  inBlock,     \* it is in receive_data_block, not in the constructor
  rcvStatus,   \* ReceiveChunks::status_
  dataSize,    \* dataSize_
  needRcv,     \* needBytesRecieve_
  stay,        \* stayLength: what its receive_need still wants
  buffer,      \* what its receive_need has got
  chunk,       \* what the receive_data_block it is in will return
  iRcv,        \* connection_.iSocketRcv_
  got          \* the data the program has got

sender   == <<file, fileRest, sendPc, sendStatus, needSend, piece, iSend, sent>>
receiver == <<rcvPc, inBlock, rcvStatus, dataSize, needRcv, stay, buffer, chunk,
              iRcv, got>>
vars == <<setup, error, wire, sender, receiver>>

DataTag    == 0                \* DataTypes
ServiceTag == 1
PaddingTag == 2
OtherTag   == 3                \* none of them

Socket == 0 .. setup.sockets - 1

(* The socket after socket i, as send() and receive() count.               *)
Turn(i) == IF i + 1 = setup.sockets THEN 0 ELSE i + 1

Terminate == Weight[Word] - 1      \* ControlTags::terminate, a large number

(* The size of a file is a uint64_t.                                       *)
ASSUME SizeAssumption == \A s \in Setups : s.size < Weight[Word]

AtMost(a, b)   == IF a < b THEN a ELSE b
Zeros(n)       == [i \in 1 .. n |-> 0]
PadOf(n)       == (Word - (n % Word)) % Word
FileByte(f, i) == (f + i) % Base
Content(f)     == [i \in 1 .. setup.size |-> FileByte(f, i)]
Header         == ToWord(setup.size) \o ToWord(DataTag)

Init ==
  /\ setup \in Setups
  /\ error = FALSE /\ wire = [i \in Socket |-> <<>>]
  /\ file = 1 /\ fileRest = setup.size - setup.missing
  /\ sendPc = "loop" /\ sendStatus = "DataProcessing"
  /\ needSend = setup.size /\ piece = 0 /\ iSend = 0 /\ sent = <<>>
  /\ rcvPc = "header" /\ inBlock = FALSE /\ rcvStatus = "UnsupportTag"
  /\ dataSize = 0 /\ needRcv = 0 /\ stay = 2 * Word /\ buffer = <<>>
  /\ chunk = <<>> /\ iRcv = 0 /\ got = <<>>

-----------------------------------------------------------------------------
(* send_need(b): one send() takes all of b to the next socket.             *)
SendNeed(b) ==
  /\ ~error
  /\ wire' = [wire EXCEPT ![iSend] = @ \o b]
  /\ sent' = sent \o b
  /\ iSend' = Turn(iSend)
  /\ UNCHANGED error

(* ::send fails, or there was an error already and send() returns -2.      *)
SendNeedFails ==
  /\ error' = TRUE
  /\ UNCHANGED <<wire, sent, iSend>>

(* Fault: the header goes out with every block.                            *)
SendDataBlockHeaderAlways ==
  /\ sendPc = "loop" /\ sendStatus = "DataProcessing"
  /\ piece' = AtMost(setup.sendBuf, fileRest)
  /\ fileRest' = fileRest - piece'
  /\ sendPc' = "header"
  /\ UNCHANGED <<setup, error, wire, file, sendStatus, needSend, iSend, sent,
                 receiver>>

(* The program reads the file and calls send_data_block, which sends the   *)
(* header as long as none of the data is gone.                             *)
SendDataBlock ==
  /\ sendPc = "loop" /\ sendStatus = "DataProcessing"
  /\ piece' = AtMost(setup.sendBuf, fileRest)
  /\ fileRest' = fileRest - piece'
  /\ sendPc' = IF needSend = setup.size THEN "header" ELSE "data"
  /\ UNCHANGED <<setup, error, wire, file, sendStatus, needSend, iSend, sent,
                 receiver>>

SendHeader ==
  /\ sendPc = "header"
  /\ \/ /\ SendNeed(Header)
        /\ sendPc' = "data"
        /\ UNCHANGED sendStatus
     \/ /\ SendNeedFails
        /\ sendStatus' = "Error" /\ sendPc' = "loop"
  /\ UNCHANGED <<setup, file, fileRest, needSend, piece, receiver>>

(* Fault: after an error the program tries again.                          *)
SendDataRetries ==
  LET n  == AtMost(needSend, piece)
      at == setup.size - needSend
  IN /\ sendPc = "data"
     /\ \/ /\ SendNeed(SubSeq(Content(file), at + 1, at + n))
           /\ needSend' = needSend - n
           /\ sendStatus' = IF needSend' = 0 THEN "AllData" ELSE sendStatus
           /\ sendPc' = IF needSend' = 0 /\ PadOf(setup.size) > 0
                          THEN "pad" ELSE "loop"
        \/ /\ SendNeedFails
           /\ UNCHANGED <<needSend, sendStatus, sendPc>>
     /\ UNCHANGED <<setup, file, fileRest, piece, receiver>>

(* The data, no more of them than were announced.                          *)
SendData ==
  LET n  == AtMost(needSend, piece)
      at == setup.size - needSend
  IN /\ sendPc = "data"
     /\ \/ /\ SendNeed(SubSeq(Content(file), at + 1, at + n))
           /\ needSend' = needSend - n
           /\ sendStatus' = IF needSend' = 0 THEN "AllData" ELSE sendStatus
           /\ sendPc' = IF needSend' = 0 /\ PadOf(setup.size) > 0
                          THEN "pad" ELSE "loop"
        \/ /\ SendNeedFails
           /\ sendStatus' = "Error" /\ sendPc' = "loop"
           /\ UNCHANGED needSend
     /\ UNCHANGED <<setup, file, fileRest, piece, receiver>>

(* Zeros up to a whole word; nobody looks whether they were sent.          *)
SendPad ==
  /\ sendPc = "pad"
  /\ SendNeed(Zeros(PadOf(setup.size))) \/ SendNeedFails
  /\ sendPc' = "loop"
  /\ UNCHANGED <<setup, file, fileRest, sendStatus, needSend, piece, receiver>>

(* The loop of the program ends: on to a new SendChunks for the next file. *)
NextFile ==
  /\ sendPc = "loop" /\ sendStatus # "DataProcessing"
  /\ \/ /\ file < Files /\ sendStatus = "AllData"
        /\ file' = file + 1 /\ fileRest' = setup.size - setup.missing
        /\ needSend' = setup.size /\ sendStatus' = "DataProcessing"
        /\ UNCHANGED sendPc
     \/ /\ file = Files \/ sendStatus = "Error"
        /\ sendPc' = "done"
        /\ UNCHANGED <<file, fileRest, needSend, sendStatus>>
  /\ UNCHANGED <<setup, error, wire, piece, iSend, sent, receiver>>

(* The server has passed on everything and sends a terminate command, or   *)
(* some padding, or a message of a kind the receiver does not know.        *)
ServerEnds ==
  /\ sendPc = "done" /\ sendStatus = "AllData"
  /\ \E tag \in {ServiceTag, PaddingTag, OtherTag} :
       SendNeed(ToWord(Word) \o ToWord(tag) \o ToWord(Terminate))
  /\ sendPc' = "closed"
  /\ UNCHANGED <<setup, file, fileRest, sendStatus, needSend, piece, receiver>>

-----------------------------------------------------------------------------
(* Places of the receiver that are a receive_need: the two header words, a *)
(* command, a padding message, a block of data, and the padding after all  *)
(* data up to tcpBufSize_ and up to a word.                                *)
Needs == {"header", "service", "padding", "data", "padBuf", "padWord"}

(* receive_need(length) is called.                                         *)
Need(place, n) == rcvPc' = place /\ stay' = n /\ buffer' = <<>>

(* Fault: receive() takes less when less is asked for.                     *)
ReceiveBlockShort ==
  LET n == AtMost(stay, setup.bufSize)
  IN /\ rcvPc \in Needs /\ ~error
     /\ n > 0 /\ Len(wire[iRcv]) >= n
     /\ buffer' = buffer \o SubSeq(wire[iRcv], 1, n)
     /\ stay' = stay - n
     /\ wire' = [wire EXCEPT ![iRcv] = SubSeq(@, n + 1, Len(@))]
     /\ iRcv' = Turn(iRcv)
     /\ UNCHANGED <<setup, error, sender, rcvPc, inBlock, rcvStatus, dataSize,
                    needRcv, chunk, got>>

(* The loop of receive_need calls receive(), which takes tcpBufSize_ bytes *)
(* off the next socket.  It returns 0 at once for a length below that, so  *)
(* the loop goes on without doing anything: no step here.                  *)
ReceiveBlock ==
  /\ rcvPc \in Needs /\ ~error
  /\ stay >= setup.bufSize /\ Len(wire[iRcv]) >= setup.bufSize
  /\ buffer' = buffer \o SubSeq(wire[iRcv], 1, setup.bufSize)
  /\ stay' = stay - setup.bufSize
  /\ wire' = [wire EXCEPT ![iRcv] = SubSeq(@, setup.bufSize + 1, Len(@))]
  /\ iRcv' = Turn(iRcv)
  /\ UNCHANGED <<setup, error, sender, rcvPc, inBlock, rcvStatus, dataSize,
                 needRcv, chunk, got>>

(* receive_need has what it wants; it asks for an error even if that is    *)
(* nothing.                                                                *)
Through(place) == rcvPc = place /\ stay = 0 /\ (error => buffer # <<>>)

(* Back in the program's loop, which writes the chunk and goes on while    *)
(* there are data.  It ends with an empty chunk, and receive_sync with     *)
(* whatever is not data.                                                   *)
ToProgram ==
  /\ got' = got \o chunk
  /\ chunk' = <<>> /\ inBlock' = FALSE
  /\ rcvPc' = IF setup.sync \/ (inBlock /\ chunk = <<>>) THEN "done" ELSE "loop"
  /\ UNCHANGED <<stay, buffer>>

(* receive_header and receive_sync: what to do about a header.             *)
HeaderRead ==
  LET size == ToNumber(SubSeq(buffer, 1, Word))
      tag  == ToNumber(SubSeq(buffer, Word + 1, 2 * Word))
  IN /\ Through("header")
     /\ dataSize' = size /\ needRcv' = size
     /\ \/ /\ tag = ServiceTag
           /\ Need("service", Word)
           /\ UNCHANGED <<rcvStatus, inBlock, chunk, got>>
        \/ /\ tag = DataTag /\ setup.sync
           /\ Need("data", size + PadOf(size))
           /\ UNCHANGED <<rcvStatus, inBlock, chunk, got>>
        \/ /\ tag = DataTag /\ ~setup.sync
           /\ rcvStatus' = "DataProcessing"
           /\ ToProgram
        \/ /\ tag = PaddingTag /\ ~setup.sync
           /\ rcvStatus' = "DataPadding"
           /\ Need("padding", size)
           /\ UNCHANGED <<inBlock, chunk, got>>
        \/ /\ tag \notin {ServiceTag, DataTag}
           /\ tag = PaddingTag => setup.sync
           /\ rcvStatus' = "UnsupportTag"
           /\ ToProgram
     /\ UNCHANGED <<setup, error, wire, sender, iRcv>>

(* A command: terminate after all data is the end.                         *)
ServiceRead ==
  /\ Through("service")
  /\ rcvStatus' = IF ToNumber(buffer) # Terminate THEN rcvStatus
                  ELSE IF rcvStatus = "AllData" THEN "Finish" ELSE "Termination"
  /\ ToProgram
  /\ UNCHANGED <<setup, error, wire, sender, dataSize, needRcv, iRcv>>

(* A message of padding, which SendChunks never sends.                     *)
PaddingRead ==
  /\ Through("padding")
  /\ rcvStatus' = "AllData"
  /\ ToProgram
  /\ UNCHANGED <<setup, error, wire, sender, dataSize, needRcv, iRcv>>

(* The program calls receive_data_block while there are data.              *)
ReceiveDataBlock ==
  /\ rcvPc = "loop" /\ ~setup.sync /\ rcvStatus = "DataProcessing"
  /\ Need("data", AtMost(needRcv, setup.rcvBuf))
  /\ inBlock' = TRUE
  /\ UNCHANGED <<setup, error, wire, sender, rcvStatus, dataSize, needRcv,
                 chunk, iRcv, got>>

(* What is left of a block of tcpBufSize_ after all data, and where        *)
(* receive_data_block goes on after that.                                  *)
BlockRest ==
  (setup.bufSize - ((dataSize + 2 * Word) % setup.bufSize)) % setup.bufSize
AfterBlockRest ==
  IF PadOf(dataSize) > 0 THEN Need("padWord", PadOf(dataSize))
                         ELSE Need("header", 2 * Word)

(* Some of the data: they go to the program at once, but the last ones     *)
(* wait for the padding and for the header of the next message.            *)
DataRead ==
  /\ Through("data") /\ ~setup.sync
  /\ needRcv' = needRcv - Len(buffer)
  /\ \/ /\ needRcv' > 0
        /\ got' = got \o buffer /\ rcvPc' = "loop" /\ inBlock' = FALSE
        /\ UNCHANGED <<rcvStatus, stay, buffer, chunk>>
     \/ /\ needRcv' <= 0
        /\ rcvStatus' = "AllData" /\ chunk' = buffer
        /\ IF BlockRest > 0 THEN Need("padBuf", BlockRest) ELSE AfterBlockRest
        /\ UNCHANGED <<inBlock, got>>
  /\ UNCHANGED <<setup, error, wire, sender, dataSize, iRcv>>

(* The padding is dropped.                                                 *)
PadRead ==
  /\ Through("padBuf") \/ Through("padWord")
  /\ IF rcvPc = "padBuf" THEN AfterBlockRest ELSE Need("header", 2 * Word)
  /\ UNCHANGED <<setup, error, wire, sender, inBlock, rcvStatus, dataSize,
                 needRcv, chunk, iRcv, got>>

(* Fault: the padding of the data counts as data.                          *)
SyncReadPadded ==
  /\ Through("data") /\ setup.sync
  /\ got' = got \o buffer
  /\ rcvPc' = IF dataSize = 0 THEN "done" ELSE "loop"
  /\ UNCHANGED <<setup, error, wire, sender, inBlock, rcvStatus, dataSize,
                 needRcv, stay, buffer, chunk, iRcv>>

(* receive_sync writes from the start of the vector, where only reserve()  *)
(* has made room beyond its size, and resize() then makes zeros of what    *)
(* was not in the vector before.                                           *)
SyncRead ==
  /\ Through("data") /\ setup.sync
  /\ got' = got \o [i \in 1 .. dataSize |->
                      IF i <= setup.vector THEN buffer[i] ELSE 0]
  /\ rcvPc' = IF dataSize = 0 THEN "done" ELSE "loop"
  /\ UNCHANGED <<setup, error, wire, sender, inBlock, rcvStatus, dataSize,
                 needRcv, stay, buffer, chunk, iRcv>>

(* The program calls receive_sync for the next file.                       *)
ReceiveSync ==
  /\ rcvPc = "loop" /\ setup.sync
  /\ Need("header", 2 * Word)
  /\ UNCHANGED <<setup, error, wire, sender, inBlock, rcvStatus, dataSize,
                 needRcv, chunk, iRcv, got>>

(* receive_need returns an error: ::recv has failed, or there has been an  *)
(* error before.  Where the padding up to tcpBufSize_ is missing nobody    *)
(* asks, and the next receive_need gets the error.                         *)
ReceiveFails ==
  /\ rcvPc \in Needs
  /\ stay >= setup.bufSize \/ (error /\ (stay > 0 \/ buffer = <<>>))
  /\ error' = TRUE
  /\ IF rcvPc = "padBuf"
       THEN /\ AfterBlockRest
            /\ UNCHANGED <<inBlock, rcvStatus, chunk, got>>
       ELSE /\ rcvStatus' = "Error"
            /\ ToProgram
  /\ UNCHANGED <<setup, wire, sender, dataSize, needRcv, iRcv>>

(* The loop of the program ends with the status.                           *)
ReceiverDone ==
  /\ rcvPc = "loop" /\ ~setup.sync /\ rcvStatus # "DataProcessing"
  /\ rcvPc' = "done"
  /\ UNCHANGED <<setup, error, wire, sender, inBlock, rcvStatus, dataSize,
                 needRcv, stay, buffer, chunk, iRcv, got>>

-----------------------------------------------------------------------------
SenderStep ==
  SendDataBlock \/ SendHeader \/ SendData \/ SendPad \/ NextFile
    \/ ServerEnds
ReceiverStep ==
  ReceiveBlock \/ HeaderRead \/ ServiceRead \/ PaddingRead \/ ReceiveDataBlock
    \/ DataRead \/ PadRead \/ SyncRead \/ ReceiveSync \/ ReceiverDone

Next == SenderStep \/ ReceiverStep \/ ReceiveFails

(* The programs run; no receive times out of its own accord.               *)
Spec == Init /\ [][Next]_vars /\ WF_vars(SenderStep) /\ WF_vars(ReceiverStep)

-----------------------------------------------------------------------------
Message(f) == Header \o Content(f) \o Zeros(PadOf(setup.size))
Messages   == FlattenSeq([f \in 1 .. Files |-> Message(f)])
Contents   == FlattenSeq([f \in 1 .. Files |-> Content(f)])

(* The sockets keep the order of the bytes if there is one of them, or if  *)
(* every send() is of tcpBufSize_ bytes as every receive() is.             *)
InTurn ==
  \/ setup.sockets = 1
  \/ /\ setup.bufSize = 2 * Word /\ setup.sendBuf = setup.bufSize
     /\ setup.size > 0 /\ setup.size % setup.bufSize = 0

(* In whatever portions a program reads its file, what SendChunks has sent *)
(* in the order of its calls is the messages, each with one header and one *)
(* padding, and all of one once it says "AllData" (send_data_block,        *)
(* send_header: the header is sent by the first of many calls, and nobody  *)
(* looks at the result of the padding).                                    *)
SenderStream ==
  /\ sendPc # "closed" => IsPrefix(sent, Messages)
  /\ sendPc = "loop" /\ sendStatus = "AllData" /\ ~error =>
       Len(sent) = file * Len(Message(1))

(* Over sockets that keep the order, the program never gets a byte that is *)
(* not the next one of the files, whatever tcpBufSize_ and the portions    *)
(* are, and however an error ends the transfer (receive_data_block,        *)
(* receive_header; receive_sync into a vector that is large enough).  That *)
(* is what these functions do for blocks as small as a header, which a     *)
(* client does not have: see NothingReceived for those it has.             *)
DeliveredInOrder ==
  InTurn /\ (setup.sync => setup.vector >= setup.size) =>
    IsPrefix(got, Contents)

(* receive_need never returns from a length that tcpBufSize_ does not      *)
(* divide, except with an error: once less is left, receive() returns 0    *)
(* again and again (receive 557, receive_need 599-610).                    *)
NeedSpins ==
  [][stay % setup.bufSize # 0 /\ rcvPc \in Needs =>
       error' \/ (rcvPc' = rcvPc /\ stay' % setup.bufSize # 0)]_vars

(* With blocks that are larger than a header, and every client that is     *)
(* connected has such (configSocket 208 receives what is left of a block   *)
(* after a control block of eight words), the receiving program never gets *)
(* out of its first receive_need, but by an error of the sender, and never *)
(* gets a byte, whatever was sent to it (receive_need 599, receive 557).   *)
NothingReceived ==
  setup.bufSize > 2 * Word => got = <<>> /\ (rcvPc = "header" \/ error)

(* A program that sends a file as long as it announced gets through, be it *)
(* with an error (send_data_block 937-964).                                *)
SendEnds == setup.missing = 0 => <>(sendPc \in {"done", "closed"})

=============================================================================
