----------------------------- MODULE Converters -----------------------------
(***************************************************************************)
(* The converters of the application (utils::convertors) between files of  *)
(* three types: bin, any bytes; hex, a text with one word per line; ds8,   *)
(* blocks as a tcp_io server takes them, behind a header that names their  *)
(* size; and the transfer of a ds8 file, sendDS8File with receiveToDs8,    *)
(* which neither packs nor unpacks the blocks.  A user converts a file,    *)
(* then the result, and so on, always the last one, with the output in a   *)
(* new file or, as nobody looks, in the input file.                        *)
(*                                                                         *)
(* A hex file is its words: they are written and read with the same stream *)
(* operators.  A ds8 file is the words behind its header.                  *)
(***************************************************************************)
EXTENDS Words, SequencesExt

CONSTANTS
  Multiplier, MaxBlockSize,    \* of normalizeBufSize
  HexBuf,       \* words of the buffer of file_hex_to_bin, file_bin_to_hex
  BinFiles, HexFiles,    \* what the files to begin with hold
  Ds8Files,     \* the same, whole ds8 files: [block, data]
  BlockArgs,    \* values of the option -b
  ServerBlocks, \* tcpBufSize_ as servers announce it
  SocketCounts, \* sockets of the bundle
  MaxFiles,     \* bound: how many files the user makes
  MaxBlocks     \* bound: blocks of a conversion that does not end

ASSUME ConvertersAssumption ==
  /\ Base > 32 /\ HexBuf \in Nat \ {0}
  /\ Multiplier \in Nat /\ Multiplier >= 3 * Word /\ Multiplier % Word = 0
  /\ MaxBlockSize \in Nat \ {0} /\ MaxBlockSize % Multiplier = 0
  /\ ServerBlocks \subseteq {n \in Nat : n >= 4 * Word /\ n % Word = 0}
  /\ SocketCounts \subseteq Nat \ {0}
  /\ BlockArgs \subseteq Nat /\ MaxFiles \in Nat \ {0}
  /\ MaxBlocks \in Nat
  \* block sizes are uint32_t, and a word is a uint64_t
  /\ \A n \in ServerBlocks \cup BlockArgs : n < Weight[Word]

VARIABLES
  root,     \* the bytes of the file the user began with
  files,    \* the files there are, one converted from another
  made,     \* how each of them came to be
  \* the conversion under way
  op,       \* "idle", the conversion, or "undefined"
  call,     \* its parameters: input file, output file, block size, tag,
            \* and the sockets of a transfer
  input,    \* what it finds in the input file
  pos,      \* how much of that is read: bytes, words or blocks
  exit,     \* a word could not be read, the terminate block has come
  data,     \* what its buffer holds behind the header words
  out,      \* the output file
  wire      \* the words under way on each socket
vars == <<root, files, made, op, call, input, pos, exit, data, out, wire>>

AtMost(a, b) == IF a < b THEN a ELSE b
RoundUp(n)   == ((n + Word - 1) \div Word) * Word
WordsOf(b)   == [i \in 1 .. Len(b) \div Word |->
                   SubSeq(b, (i - 1) * Word + 1, i * Word)]

Space      == 32           \* a byte of 0x2020202020202020
Bad        == <<>>         \* what operator>> does not take for a word
Tag        == ToWord(2)    \* " 02" read as a word
DataTag    == ToWord(0)
ServiceTag == ToWord(1)
Terminate  == [i \in 1 .. Word |-> Base - 1]

Bin(b)       == [type |-> "bin", data |-> b]
Hex(w)       == [type |-> "hex", data |-> w]
Ds8(n, w, c) == [type |-> "ds8", block |-> n, data |-> w, cut |-> c]

(* A block of n bytes for the data b, and block i of a file of such blocks.*)
Block(n, b)        == <<ToWord(n), DataTag>> \o WordsOf(b)
TerminateBlock(n)  == <<ToWord(Word), ServiceTag, Terminate>>
                        \o [i \in 1 .. n \div Word - 3 |-> ToWord(0)]
BlockOf(w, n, i)   == SubSeq(w, (i - 1) * (n \div Word) + 1, i * (n \div Word))
Blocks(w, n)       == Len(w) \div (n \div Word)

(* normalizeBufSize, which no code calls: the sizes the blocks should have *)
NormalizeBufSize(blockSize) ==
  LET least == IF blockSize < Multiplier THEN Multiplier ELSE blockSize
      most  == AtMost(least, MaxBlockSize)
  IN most + ((Multiplier - (most % Multiplier)) % Multiplier)
Normal(blockSize) == NormalizeBufSize(blockSize) = blockSize

(* How many words operator>> gets from w: up to the first that is none.    *)
Readable(w) ==
  LET bad == {i \in 1 .. Len(w) : w[i] = Bad}
  IN IF bad = {} THEN Len(w) ELSE (CHOOSE i \in bad : \A j \in bad : i <= j) - 1

Room  == call.block - 2 * Word     \* data bytes of a block
Slots == call.block \div Word - 2  \* data words of a block

Idle == [from |-> 1, to |-> 1, block |-> 0, tag |-> FALSE, sockets |-> 1]

(* The bytes that block b of n bytes is there for.                         *)
Contents(b, n) ==
  IF b[2] # DataTag THEN <<>>
  ELSE SubSeq(FlattenSeq(b), 2 * Word + 1,
              2 * Word + AtMost(ToNumber(b[1]), n - 2 * Word))

(* The bytes a file is there for.                                          *)
Payload(f) ==
  CASE f.type = "bin" -> f.data
    [] f.type = "hex" -> FlattenSeq(SubSeq(f.data, 1, Readable(f.data)))
    [] f.type = "ds8" ->
         FlattenSeq([i \in 1 .. Blocks(f.data, f.block) |->
                       Contents(BlockOf(f.data, f.block, i), f.block)])

(* What the server takes: full data blocks, one that need not be full, and *)
(* one terminate block at the end.                                         *)
WellFormed(f) ==
  LET n    == Blocks(f.data, f.block)
      room == f.block - 2 * Word
      B(k) == BlockOf(f.data, f.block, k)
  IN /\ ~f.cut /\ n > 0 /\ Len(f.data) * Word = n * f.block
     /\ B(n) = TerminateBlock(f.block)
     /\ \A k \in 1 .. n - 1 :
          /\ B(k)[2] = DataTag /\ ToNumber(B(k)[1]) \in 0 .. room
          /\ k < n - 1 => ToNumber(B(k)[1]) = room

(* The files there are to begin with.                                      *)
Byte    == 0 .. Base - 1
WordSet == [1 .. Word -> Byte]
ASSUME FilesAssumption ==
  /\ BinFiles \subseteq Seq(Byte) /\ HexFiles \subseteq Seq(WordSet \cup {Bad})
  /\ \A d \in Ds8Files :
       d.block \in ServerBlocks /\ d.data \in Seq(WordSet)
         /\ WellFormed(Ds8(d.block, d.data, FALSE))

Init ==
  \E f \in {Bin(b) : b \in BinFiles} \cup {Hex(w) : w \in HexFiles}
             \cup {Ds8(d.block, d.data, FALSE) : d \in Ds8Files} :
    /\ root = Payload(f)
    /\ files = <<f>>
    /\ made = <<[ok |-> TRUE, whole |-> TRUE, plain |-> TRUE,
                 same |-> TRUE, op |-> "given"]>>
    /\ op = "idle" /\ call = Idle /\ input = <<>> /\ pos = 0 /\ exit = FALSE
    /\ data = <<>> /\ out = Bin(<<>>) /\ wire = <<>>

-----------------------------------------------------------------------------
(* A conversion opens the input file and then the output file, which       *)
(* empties it, and the input file with it if that is the same.             *)
Open(o, i, j, n, t) ==
  /\ op = "idle" /\ op' = o
  /\ call' = [from |-> i, to |-> j, block |-> n, tag |-> t, sockets |-> 1]
  /\ input' = IF i = j THEN <<>> ELSE files[i].data
  /\ pos' = 0 /\ exit' = FALSE /\ wire' = <<>>
  /\ UNCHANGED <<root, files, made>>

Target(i) == {i} \cup (IF Len(files) < MaxFiles THEN {Len(files) + 1} ELSE {})

(* The buffer has n \div Word words, of which the code fills the first ones*)
(* and writes n bytes: what is outside of it is anybody's.                 *)
Fits(least, n) == n >= least * Word /\ n % Word = 0

OpenBinToDs8 ==
  \E i \in {Len(files)} : \E j \in Target(i), n \in BlockArgs :
    /\ files[i].type = "bin"
    /\ Open(IF Fits(3, n) THEN "bin_ds8" ELSE "undefined", i, j, n, FALSE)
    /\ data' = [k \in 1 .. n - 2 * Word |-> 0] /\ out' = Ds8(n, <<>>, FALSE)

OpenHexToDs8 ==
  \E i \in {Len(files)} : \E j \in Target(i), n \in BlockArgs :
    /\ files[i].type = "hex"
    /\ Open(IF Fits(2, n) THEN "hex_ds8" ELSE "undefined", i, j, n, FALSE)
    /\ data' = <<>> /\ out' = Ds8(n, <<>>, FALSE)

OpenHexToBin ==
  \E i \in {Len(files)} : \E j \in Target(i) :
    /\ files[i].type = "hex"
    /\ Open("hex_bin", i, j, 0, FALSE)
    /\ data' = <<>> /\ out' = Bin(<<>>)

OpenBinToHex ==
  \E i \in {Len(files)} : \E j \in Target(i), t \in BOOLEAN :
    /\ files[i].type = "bin"
    /\ Open("bin_hex", i, j, 0, t)
    /\ data' = [k \in 1 .. HexBuf * Word |-> 0] /\ out' = Hex(<<>>)

(* "Wrong size" if a part of a block is at the end; then the output file   *)
(* is not touched.  What becomes of a ds8 file that is converted onto      *)
(* itself depends on how much of it is in the stream's buffer: left out.   *)
OpenDs8ToHex ==
  \E i \in {Len(files)} : \E j \in Target(i) \ {i}, t \in BOOLEAN :
    /\ files[i].type = "ds8" /\ ~files[i].cut
    /\ Open("ds8_hex", i, j, files[i].block, t)
    /\ data' = <<>> /\ out' = Hex(<<>>)

OpenDs8ToBin ==
  \E i \in {Len(files)} : \E j \in Target(i) \ {i} :
    /\ files[i].type = "ds8" /\ ~files[i].cut
    /\ Open("ds8_bin", i, j, files[i].block, FALSE)
    /\ data' = <<>> /\ out' = Bin(<<>>)

(* sendDS8File, to a server that has its own block size, whatever that of  *)
(* the file is; connect() has overwritten that.  The buffer is of zeros.   *)
OpenTransfer ==
  \E i \in {Len(files)} : \E j \in Target(i) \ {i}, n \in ServerBlocks,
     sockets \in SocketCounts :
    /\ files[i].type = "ds8" /\ ~files[i].cut
    /\ op = "idle" /\ op' = "transfer"
    /\ call' = [from |-> i, to |-> j, block |-> n, tag |-> FALSE,
                sockets |-> sockets]
    /\ input' = files[i].data /\ pos' = 0 /\ exit' = FALSE
    /\ wire' = [s \in 1 .. sockets |-> <<>>]
    /\ data' = [x \in 1 .. files[i].block \div Word |-> ToWord(0)]
    /\ out' = Ds8(n, <<>>, FALSE)
    /\ UNCHANGED <<root, files, made>>

-----------------------------------------------------------------------------
(* One round of a loop has written b.                                      *)
Write(b) == out' = [out EXCEPT !.data = @ \o b]
Same     == UNCHANGED <<root, files, made, op, call, input, wire>>

(* The last block, as any block that is not full, is the last data, what   *)
(* the block before had in the rest of that word, and spaces.              *)
BinToDs8Round ==
  LET need == AtMost(Len(input) - pos, Room)
  IN /\ op = "bin_ds8" /\ pos < Len(input)
     /\ pos' = pos + need
     /\ data' = [k \in 1 .. Room |->
                   IF k <= need THEN input[pos + k]
                   ELSE IF k > RoundUp(need) THEN Space ELSE data[k]]
     /\ Write(Block(IF pos' = Len(input) THEN need ELSE Room, data'))
     /\ Same /\ UNCHANGED exit

(* n words at most are read, fewer if one cannot be.                       *)
ReadWords(n) ==
  LET m == AtMost(n, Readable(input) - pos)
  IN /\ pos' = pos + m /\ exit' = (m < n)
     /\ data' = FlattenSeq(SubSeq(input, pos + 1, pos + m))

(* Fault: the header names the size of the block, not that of its data.    *)
HexToDs8RoundWhole ==
  /\ op = "hex_ds8" /\ ~exit
  /\ ReadWords(Slots)
  /\ Write(<<ToWord(call.block), DataTag>> \o WordsOf(data')
              \o [k \in 1 .. Slots - Len(data') \div Word |-> ToWord(0)])
  /\ Slots = 0 => Len(out.data) < 2 * MaxBlocks
  /\ Same

(* A block is written after every round, that of no words too; with a      *)
(* block that has no room for a word no round is the last.                 *)
HexToDs8Round ==
  /\ op = "hex_ds8" /\ ~exit
  /\ ReadWords(Slots)
  /\ Write(Block(Len(data'), data' \o [k \in 1 .. Room - Len(data') |-> 0]))
  /\ Slots = 0 => Len(out.data) < 2 * MaxBlocks
  /\ Same

HexToBinRound ==
  /\ op = "hex_bin" /\ ~exit
  /\ ReadWords(HexBuf)
  /\ Write(data')
  /\ Same

(* The lines of the words b, each of them with a tag if there is one.      *)
Lines(b) ==
  IF call.tag THEN FlattenSeq([i \in DOMAIN b |-> <<b[i], Tag>>]) ELSE b

(* The last word is filled with what the buffer had there.                 *)
BinToHexRound ==
  LET need == AtMost(Len(input) - pos, HexBuf * Word)
  IN /\ op = "bin_hex" /\ pos < Len(input)
     /\ pos' = pos + need
     /\ data' = [k \in DOMAIN data |->
                   IF k <= need THEN input[pos + k] ELSE data[k]]
     /\ Write(Lines(WordsOf(SubSeq(data', 1, RoundUp(need)))))
     /\ Same /\ UNCHANGED exit

(* Of each block, but not of the last one, whatever it is, the whole words *)
(* of the size it names.                                                   *)
Ds8ToHexRound ==
  LET block == BlockOf(input, call.block, pos + 1)
      size  == ToNumber(block[1])
  IN /\ op = "ds8_hex" /\ pos < Blocks(input, call.block) - 1
     /\ size \div Word <= Slots
     /\ pos' = pos + 1
     /\ Write(Lines(SubSeq(block, 3, size \div Word + 2)))
     /\ Same /\ UNCHANGED <<exit, data>>

(* Fault: a whole block is written, not the size that it names.            *)
Ds8ToBinRoundAll ==
  LET block == BlockOf(input, call.block, pos + 1)
      bytes == FlattenSeq(SubSeq(block, 3, Len(block)))
  IN /\ op = "ds8_bin" /\ pos < Blocks(input, call.block) - 1
     /\ pos' = pos + 1
     /\ Write(bytes)
     /\ Same /\ UNCHANGED <<exit, data>>

(* The buffer is as many words as a block has bytes: behind the block it   *)
(* has zeros.                                                              *)
Ds8ToBinRound ==
  LET block == BlockOf(input, call.block, pos + 1)
      bytes == FlattenSeq(SubSeq(block, 3, Len(block)))
      size  == ToNumber(block[1])
  IN /\ op = "ds8_bin" /\ pos < Blocks(input, call.block) - 1
     /\ size + 2 * Word <= call.block * Word
     /\ pos' = pos + 1
     /\ Write([k \in 1 .. size |-> IF k <= Len(bytes) THEN bytes[k] ELSE 0])
     /\ Same /\ UNCHANGED <<exit, data>>

(* The size in a block is larger than the buffer.                          *)
Ds8Overrun ==
  LET size == ToNumber(BlockOf(input, call.block, pos + 1)[1])
  IN /\ op \in {"ds8_hex", "ds8_bin"} /\ pos < Blocks(input, call.block) - 1
     /\ op = "ds8_hex" => size \div Word > Slots
     /\ op = "ds8_bin" => size + 2 * Word > call.block * Word
     /\ op' = "undefined"
     /\ UNCHANGED <<root, files, made, call, input, pos, exit, data, out, wire>>

(* How many blocks the input file of a transfer had when it was opened.    *)
ToSend == Blocks(files[call.from].data, files[call.from].block)

(* The read of the next block of a ds8 file gets a part of it only, and    *)
(* then those of all that follow get nothing: nobody looks.                *)
ReadsFail ==
  LET n == files[call.from].block \div Word
  IN /\ op = "transfer" /\ pos < ToSend /\ input = files[call.from].data
     /\ \E k \in 0 .. n - 1 : input' = SubSeq(input, 1, pos * n + k)
     /\ UNCHANGED <<root, files, made, op, call, pos, exit, data, out, wire>>

(* The buffer after a read of n words: what could not be read is what was  *)
(* there before.                                                           *)
ReadBlock(n) ==
  data' = [x \in 1 .. n |-> IF pos * n + x <= Len(input)
                               THEN input[pos * n + x] ELSE data[x]]

(* Fault: the loop is that of the converters, without the last block.      *)
SendDs8BlockDataOnly ==
  LET s == (pos % call.sockets) + 1
  IN /\ op = "transfer" /\ pos < ToSend - 1
     /\ ReadBlock(files[call.from].block \div Word)
     /\ wire' = [wire EXCEPT ![s] = @ \o data']
     /\ pos' = pos + 1
     /\ UNCHANGED <<root, files, made, op, call, input, exit, out>>

(* A block of the file, terminate block or not, read or not, goes to the   *)
(* next socket.                                                            *)
SendDs8Block ==
  LET s == (pos % call.sockets) + 1
  IN /\ op = "transfer" /\ pos < ToSend
     /\ ReadBlock(files[call.from].block \div Word)
     /\ wire' = [wire EXCEPT ![s] = @ \o data']
     /\ pos' = pos + 1
     /\ UNCHANGED <<root, files, made, op, call, input, exit, out>>

(* Fault: the terminate block is not written.                              *)
ReceiveDs8BlockDrops ==
  LET n     == call.block \div Word
      s     == ((Len(out.data) \div n) % call.sockets) + 1
      block == SubSeq(wire[s], 1, n)
  IN /\ op = "transfer" /\ ~exit /\ Len(wire[s]) >= n
     /\ wire' = [wire EXCEPT ![s] = SubSeq(@, n + 1, Len(@))]
     /\ exit' = (block[2] = ServiceTag /\ Terminate \in {block[3], block[4]})
     /\ out' = IF exit' THEN out ELSE [out EXCEPT !.data = @ \o block]
     /\ UNCHANGED <<root, files, made, op, call, input, pos, data>>

(* Fault: the word of ones is the end, whatever the block it is in.        *)
ReceiveDs8BlockAnyTag ==
  LET n     == call.block \div Word
      s     == ((Len(out.data) \div n) % call.sockets) + 1
      block == SubSeq(wire[s], 1, n)
  IN /\ op = "transfer" /\ ~exit /\ Len(wire[s]) >= n
     /\ wire' = [wire EXCEPT ![s] = SubSeq(@, n + 1, Len(@))]
     /\ Write(block)
     /\ exit' = (Terminate \in {block[3], block[4]})
     /\ UNCHANGED <<root, files, made, op, call, input, pos, data>>

(* The receiver takes blocks of the size the server has announced, and     *)
(* writes each of them to its file.                                        *)
ReceiveDs8Block ==
  LET n     == call.block \div Word
      s     == ((Len(out.data) \div n) % call.sockets) + 1
      block == SubSeq(wire[s], 1, n)
  IN /\ op = "transfer" /\ ~exit /\ Len(wire[s]) >= n
     /\ wire' = [wire EXCEPT ![s] = SubSeq(@, n + 1, Len(@))]
     /\ Write(block)
     /\ exit' = (block[2] = ServiceTag /\ Terminate \in {block[3], block[4]})
     /\ UNCHANGED <<root, files, made, op, call, input, pos, data>>

-----------------------------------------------------------------------------
(* Fault: only the end of the file is the end, not a malformed word.       *)
OverAtEnd ==
  \/ op \in {"bin_ds8", "bin_hex"} /\ pos = Len(input)
  \/ op \in {"hex_ds8", "hex_bin"} /\ exit /\ pos = Len(input)
  \/ op \in {"ds8_hex", "ds8_bin"} /\ pos >= Blocks(input, call.block) - 1
  \/ op = "transfer" /\ exit /\ pos = ToSend

(* The condition of the loop does not hold any more.                       *)
Over ==
  \/ op \in {"bin_ds8", "bin_hex"} /\ pos = Len(input)
  \/ op \in {"hex_ds8", "hex_bin"} /\ exit
  \/ op \in {"ds8_hex", "ds8_bin"} /\ pos >= Blocks(input, call.block) - 1
  \/ op = "transfer" /\ exit /\ pos = ToSend

(* What a file may be when the end of what was written to it is lost: the  *)
(* last line or block may be there in part.                                *)
Cuts(f) ==
  UNION {LET kept == SubSeq(f.data, 1, k)
         IN CASE f.type = "bin" -> {Bin(kept)}
              [] f.type = "hex" -> {Hex(kept), Hex(Append(kept, Tag))}
              [] f.type = "ds8" ->
                   {Ds8(f.block, kept, k % (f.block \div Word) # 0)}
         : k \in 0 .. Len(f.data) - 1}

(* The function returns ok and leaves f; whole says that all of it is      *)
(* there, and same that a transfer has changed neither the size of the     *)
(* blocks nor, as its reads failed, what is in them.                       *)
Return(f, ok, whole) ==
  LET before == made[call.from]
      entry  == [ok    |-> ok /\ before.ok,
                 whole |-> whole /\ before.whole,
                 same  |-> /\ before.same
                           /\ op = "transfer" =>
                                /\ call.block = files[call.from].block
                                /\ input = files[call.from].data,
                 plain |-> before.plain /\ ~call.tag /\ call.from # call.to,
                 op    |-> op]
      Set(s, e) == IF call.to \in DOMAIN s THEN [s EXCEPT ![call.to] = e]
                                           ELSE Append(s, e)
  IN /\ files' = Set(files, f) /\ made' = Set(made, entry)
     /\ op' = "idle" /\ call' = Idle /\ input' = <<>> /\ pos' = 0
     /\ exit' = FALSE /\ data' = <<>> /\ out' = Bin(<<>>)
     /\ wire' = <<>>
     /\ UNCHANGED root

Ended ==
  IF op \in {"bin_ds8", "hex_ds8"}
    THEN [out EXCEPT !.data = @ \o TerminateBlock(call.block)] ELSE out

(* The end of a loop: a file converted to ds8 gets its terminate block.    *)
Finish == Over /\ Return(Ended, TRUE, TRUE)

(* Nobody looks at the stream after the last write, nor after close().     *)
FinishLosesEnd == Over /\ \E f \in Cuts(Ended) : Return(f, TRUE, FALSE)

(* A read, or a write of which a part may have come through, has failed in *)
(* the loop.  (When a word cannot be read because of an error, that is the *)
(* end of the file to the code: a Bad one.)  In a transfer it is the       *)
(* network, or a write: it does not look at its reads, see ReadsFail.      *)
Fails ==
  /\ op \notin {"idle", "undefined"}
  /\ ~Over \/ out.data # <<>>
  /\ \E f \in {out} \cup Cuts(out) : Return(f, FALSE, FALSE)

Convert ==
  \/ BinToDs8Round \/ HexToDs8Round \/ HexToBinRound
  \/ BinToHexRound \/ Ds8ToHexRound \/ Ds8ToBinRound
  \/ Ds8Overrun \/ SendDs8Block \/ ReceiveDs8Block
  \/ Finish
User ==
  \/ OpenBinToDs8 \/ OpenHexToDs8 \/ OpenHexToBin
  \/ OpenBinToHex \/ OpenDs8ToHex \/ OpenDs8ToBin
  \/ OpenTransfer

Next == User \/ Convert \/ FinishLosesEnd \/ Fails \/ ReadsFail

(* A conversion that has begun goes on; nothing need fail.                 *)
Spec == Init /\ [][Next]_vars /\ WF_vars(Convert)

-----------------------------------------------------------------------------
WholeWords(b) == SubSeq(b, 1, Len(b) - (Len(b) % Word))

(* Along any chain of conversions and transfers that went well and were    *)
(* not tagged, onto themselves, to a server with other blocks, or from a   *)
(* ds8 file that could not be read, the whole words of the first file      *)
(* survive, and the size changes by less than a word: from a file of whole *)
(* words nothing changes at all                                            *)
(* (file_bin_to_ds8 206 to file_ds8_to_bin 591, sendDS8File 721-726,       *)
(* receiveToDs8 943-951).                                                  *)
WordsSurvive ==
  \A i \in DOMAIN files : made[i].ok /\ made[i].whole /\ made[i].plain =>
    LET p == Payload(files[i])
    IN made[i].same =>
         /\ IsPrefix(WholeWords(root), p)
         /\ Len(p) - Len(root) < Word /\ Len(root) - Len(p) < Word
         /\ Len(root) % Word = 0 => p = root

(* Whatever fails, unnoticed or not, but for the reads of a transfer, and  *)
(* however often the result is converted again: a file holds bytes of the  *)
(* first one in their places, except in a last word that was not written   *)
(* to its end.  (A transfer sends what it cannot read as what it has read  *)
(* before, sendDS8File 721.)                                               *)
NothingInvented ==
  \A i \in DOMAIN files : made[i].plain /\ made[i].same =>
    LET p == Payload(files[i])
    IN \A k \in 1 .. AtMost(Len(p) - Word, Len(root)) : p[k] = root[k]

(* Both: nothing of the first file is lost and nothing else is in its      *)
(* place, whatever the conversions on the way.                             *)
Faithful == WordsSurvive /\ NothingInvented

(* A ds8 file that was made without an error, from whatever, is what the   *)
(* server takes; a transfer that could read it does not change that        *)
(* (file_bin_to_ds8, file_hex_to_ds8, receiveToDs8).                       *)
Ds8WellFormed ==
  \A i \in DOMAIN files :
    files[i].type = "ds8" /\ made[i].ok /\ made[i].whole /\ made[i].same =>
      WellFormed(files[i])

(* With a block size that normalizeBufSize lets through no conversion      *)
(* touches memory outside of its buffer, unless its ds8 file has come from *)
(* a server with other blocks.  The option -b is not sent through it:      *)
(* sizes that are not of whole words, or too small, do that (main.cpp 236, *)
(* 249; tcpclientapp.cpp 229-235, 258, 308-312, 332, 508, 575).            *)
NoOverrun ==
  op = "undefined" => ~Normal(call.block) \/ ~made[call.from].same

(* The receiver of a transfer takes it for complete only when it is: when  *)
(* the file had a terminate block and every block before it has come, in   *)
(* its place.  Neither a file that lost its end, nor one of which the reads*)
(* fail unnoticed, so that blocks go out again in place of others, nor data*)
(* that looks like the end makes it stop (sendDS8File 720-722,             *)
(* receiveToDs8 943-951).                                                  *)
NoFalseEnd ==
  op = "transfer" /\ exit /\ made[call.from].same
    /\ call.block = files[call.from].block =>
      LET sent == files[call.from].data
          last == Len(sent) - call.block \div Word
      IN /\ Len(out.data) = Len(sent) /\ sent[last + 2] = ServiceTag
         /\ SubSeq(out.data, 1, last) = SubSeq(sent, 1, last)

(* A conversion with such a block size ends, be the input malformed.  (A   *)
(* block of two words and a hex file, and it does not, file_hex_to_ds8 316 *)
(* to 337.)                                                                *)
ConversionEnds ==
  (/\ op \notin {"idle", "transfer"} /\ made[call.from].same
   /\ call.block = 0 \/ Normal(call.block)) ~> (op = "idle")

(* A ds8 file that is complete and can be read gets through a transfer over*)
(* any number of sockets to a server that has the same block size.  Without*)
(* its terminate block, with other blocks, or when a read fails, it may be *)
(* that nobody sees the end and f_rcv.get() waits for good (sendDS8File    *)
(* 705-727, receiveToDs8 933-951): see NoFalseEnd.                         *)
TransferEnds ==
  (/\ op = "transfer" /\ WellFormed(files[call.from])
   /\ call.block = files[call.from].block)
     ~> (op = "idle" \/ input # files[call.from].data)
=============================================================================
