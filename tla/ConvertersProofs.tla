-------------------------- MODULE ConvertersProofs --------------------------
(***************************************************************************)
(* For any files, sizes of words, blocks and buffers, any chain of         *)
(* conversions and transfers, whatever fails on the way and however often  *)
(* the end of a file is lost: what a chain keeps of the first file, what   *)
(* its ds8 files look like, and that the conversions stay within their     *)
(* buffers.                                                                *)
(*                                                                         *)
(* The payloads of two files are compared by two preorders: b is From a if *)
(* it has nothing but bytes of a in their places, up to a last word that   *)
(* is not complete, and it Keeps a if, in addition, it is a, a without its *)
(* last part of a word, or a with that word filled.  Each conversion goes  *)
(* from a payload to one that Keeps it if it gets to its end, and to one   *)
(* that is From it otherwise; ProgressInv says how far it has got.         *)
(***************************************************************************)
EXTENDS Converters, WordsProofs

-----------------------------------------------------------------------------
(* The sizes of blocks that a buffer of words can hold.                    *)
Sizes == {n \in Nat : n >= 2 * Word /\ n % Word = 0 /\ n < Weight[Word]}

BinFile == [type : {"bin"}, data : Seq(Byte)]
HexFile == [type : {"hex"}, data : Seq(WordSet \cup {Bad})]
Ds8File == [type : {"ds8"}, block : Sizes, data : Seq(WordSet), cut : BOOLEAN]
HexOut  == [type : {"hex"}, data : Seq(WordSet)]
File    == BinFile \cup HexFile \cup Ds8File
Ops     == {"idle", "bin_ds8", "hex_ds8", "hex_bin", "bin_hex", "ds8_hex",
            "ds8_bin", "transfer", "undefined"}
Entry   == [ok : BOOLEAN, whole : BOOLEAN, plain : BOOLEAN, same : BOOLEAN,
            op : Ops \cup {"given"}]

TypeInv ==
  /\ root \in Seq(Byte)
  /\ files \in Seq(File) /\ made \in Seq(Entry) /\ Len(made) = Len(files)
  /\ Len(files) > 0
  /\ op \in Ops
  /\ call \in [from : Nat, to : Nat, block : Nat, tag : BOOLEAN, sockets : Nat]
  /\ pos \in Nat /\ exit \in BOOLEAN

(* A data block, with no more in it than it has room for.                  *)
DataBlock(b, n) == b[2] = DataTag /\ ToNumber(b[1]) \in 0 .. n - 2 * Word
FullBlock(b, n) == b[2] = DataTag /\ ToNumber(b[1]) = n - 2 * Word

(* Data blocks, of which the last one need not be full, and a terminate    *)
(* block: all of it, or its beginning.                                     *)
Shape(w, n) ==
  \A i \in 1 .. Blocks(w, n) :
    \/ DataBlock(BlockOf(w, n, i), n)
         /\ (i < Blocks(w, n) - 1 => FullBlock(BlockOf(w, n, i), n))
    \/ i = Blocks(w, n) /\ BlockOf(w, n, i) = TerminateBlock(n)

(* Data blocks in whole, of which the last one is full if there is more.   *)
Filled(w, n, more) ==
  /\ Len(w) = Blocks(w, n) * (n \div Word)
  /\ \A i \in 1 .. Blocks(w, n) :
       /\ DataBlock(BlockOf(w, n, i), n)
       /\ i < Blocks(w, n) \/ more => FullBlock(BlockOf(w, n, i), n)

(* What the first k blocks are there for.                                  *)
Pay(w, n, k) == FlattenSeq([i \in 1 .. k |-> Contents(BlockOf(w, n, i), n)])

-----------------------------------------------------------------------------
(* The preorders.                                                          *)
Down(n) == n - (n % Word)

SameTo(a, b, m) == \A k \in 1 .. m : b[k] = a[k]
From(a, b) ==
  /\ Len(b) <= RoundUp(Len(a))
  /\ SameTo(a, b, AtMost(RoundUp(Len(b)) - Word, Len(a)))
Keeps(a, b) ==
  /\ Len(b) \in {Down(Len(a)), Len(a), RoundUp(Len(a))}
  /\ SameTo(a, b, AtMost(Len(b), Len(a)))

(* What is known of a file.                                                *)
FileInv(i) ==
  /\ made[i].same /\ files[i].type = "ds8" =>
       /\ Shape(files[i].data, files[i].block)
       /\ made[i].ok /\ made[i].whole => WellFormed(files[i])
  /\ made[i].same /\ made[i].plain =>
       /\ From(root, Payload(files[i]))
       /\ made[i].ok /\ made[i].whole => Keeps(root, Payload(files[i]))
FilesInv ==
  /\ \A i \in DOMAIN files : FileInv(i)
  /\ made[1].op = "given" => root = Payload(files[1])

-----------------------------------------------------------------------------
(* The call under way, and its files.                                      *)
Source == files[call.from]
Busy   == op \notin {"idle", "undefined"}
CallInv ==
  Busy =>
    /\ call.from = Len(files) /\ call.to \in {call.from, call.from + 1}
    /\ op # "transfer" =>
         input = IF call.to = call.from THEN <<>> ELSE Source.data
    /\ op \in {"bin_ds8", "bin_hex"} => Source.type = "bin"
    /\ op \in {"hex_ds8", "hex_bin"} => Source.type = "hex"
    /\ op \in {"ds8_hex", "ds8_bin", "transfer"} =>
         Source.type = "ds8" /\ call.to # call.from
    /\ op \in {"ds8_hex", "ds8_bin"} => call.block = Source.block

(* The output of a conversion to ds8.                                      *)
Ds8Out(more) ==
  /\ call.block \in Sizes
  /\ out = Ds8(call.block, out.data, FALSE)
  /\ out.data \in Seq(WordSet)
  /\ Filled(out.data, call.block, more)
OutBlocks == Blocks(out.data, call.block)

BinToDs8Inv ==
  /\ Ds8Out(pos < Len(input)) /\ call.block >= 3 * Word
  /\ pos <= Len(input)
  /\ data \in Seq(Byte) /\ Len(data) = Room
  /\ Pay(out.data, call.block, OutBlocks) = SubSeq(input, 1, pos)

HexToDs8Inv ==
  /\ Ds8Out(~exit)
  /\ pos <= Readable(input)
  /\ exit => pos = Readable(input) /\ call.block >= 3 * Word
  /\ Pay(out.data, call.block, OutBlocks) = FlattenSeq(SubSeq(input, 1, pos))

HexToBinInv ==
  /\ out \in BinFile
  /\ pos <= Readable(input) /\ (exit => pos = Readable(input))
  /\ out.data = FlattenSeq(SubSeq(input, 1, pos))

BinToHexInv ==
  /\ out \in HexOut
  /\ pos <= Len(input)
  /\ data \in Seq(Byte) /\ Len(data) = HexBuf * Word
  /\ ~call.tag =>
       /\ Len(out.data) * Word = RoundUp(pos)
       /\ pos < Len(input) => pos % Word = 0
       /\ SameTo(input, FlattenSeq(out.data), pos)

(* Nothing is known of a conversion whose ds8 file has come from a server  *)
(* with other blocks.                                                      *)
Ds8ToHexInv ==
  /\ out \in HexOut
  /\ pos <= Blocks(input, call.block)
  /\ made[call.from].same /\ ~call.tag =>
       LET p == Pay(input, call.block, pos)
       IN /\ Len(out.data) * Word = Down(Len(p))
          /\ SameTo(p, FlattenSeq(out.data), Down(Len(p)))
          /\ pos < Blocks(input, call.block) - 1 => Len(p) % Word = 0

Ds8ToBinInv ==
  /\ out \in BinFile
  /\ pos <= Blocks(input, call.block)
  /\ made[call.from].same => out.data = Pay(input, call.block, pos)

(* How many of the first m blocks go to socket s, and which is the k-th.   *)
ShareOf(m, s) == (m + call.sockets - s) \div call.sockets
Turn(k, s)    == (k - 1) * call.sockets + s
OnWire(w, s, k, m) ==
  LET n == call.block
  IN /\ Len(w) = (m - k) * (n \div Word)
     /\ \A i \in 1 .. m - k :
          BlockOf(w, n, i) = BlockOf(input, n, Turn(k + i, s))
InOrder ==
  /\ OutBlocks <= pos
  /\ out.data = SubSeq(input, 1, OutBlocks * (call.block \div Word))
  /\ exit => OutBlocks = Blocks(input, call.block)
  /\ \A s \in 1 .. call.sockets :
       OnWire(wire[s], s, ShareOf(OutBlocks, s), ShareOf(pos, s))
(* Nothing is known of the order of what could not be read.                *)
TransferInv ==
  LET n == call.block
  IN /\ n \in ServerBlocks /\ call.sockets \in SocketCounts
     /\ input \in Seq(WordSet)
     /\ data \in Seq(WordSet) /\ Len(data) = Source.block \div Word
     /\ out = Ds8(n, out.data, FALSE) /\ out.data \in Seq(WordSet)
     /\ Len(out.data) = OutBlocks * (n \div Word)
     /\ wire \in [1 .. call.sockets -> Seq(WordSet)]
     /\ pos <= ToSend
     /\ made[call.from].same /\ Source.block = n /\ input = Source.data
          => InOrder

(* How far the conversion has got.                                         *)
ProgressInv ==
  /\ op = "bin_ds8"  => BinToDs8Inv
  /\ op = "hex_ds8"  => HexToDs8Inv
  /\ op = "hex_bin"  => HexToBinInv
  /\ op = "bin_hex"  => BinToHexInv
  /\ op = "ds8_hex"  => Ds8ToHexInv
  /\ op = "ds8_bin"  => Ds8ToBinInv
  /\ op = "transfer" => TransferInv

(* Inductive (the conversions and the transfer of a ds8 file).             *)
IInv == TypeInv /\ FilesInv /\ CallInv /\ ProgressInv /\ NoOverrun
-----------------------------------------------------------------------------
(* Numbers.                                                                *)
LEMMA Constants ==
  /\ Word \in Nat \ {0} /\ Base \in Nat \ {0} /\ Base > 32
  /\ Weight[Word] \in Nat \ {0}
  /\ HexBuf \in Nat \ {0}
  /\ ServerBlocks \subseteq Sizes /\ \A n \in ServerBlocks : n >= 4 * Word
<1>1. Word \in Nat \ {0} /\ Base \in Nat \ {0} /\ Base > 32 /\ HexBuf \in Nat \ {0}
  BY WordsAssumption, ConvertersAssumption
<1>2. Weight[Word] \in Nat \ {0}
  BY <1>1, WeightIs
<1>3. ASSUME NEW n \in ServerBlocks PROVE n \in Sizes /\ n >= 4 * Word
  <2>1. n \in Nat /\ n >= 4 * Word /\ n % Word = 0 /\ n < Weight[Word]
    BY ConvertersAssumption
  <2> QED BY <1>1, <2>1 DEF Sizes
<1> QED BY <1>1, <1>2, <1>3

(* A multiple of a word has whole words.                                   *)
LEMMA Multiple ==
  ASSUME NEW n \in Nat
  PROVE  /\ n % Word = 0 => n \div Word \in Nat /\ n = (n \div Word) * Word
         /\ \A q \in Nat : n = q * Word => n % Word = 0 /\ n \div Word = q
<1>1. Word \in Nat \ {0}
  BY Constants
<1>2. n % Word = 0 => n \div Word \in Nat /\ n = (n \div Word) * Word
  BY <1>1, DivMod
<1>3. ASSUME NEW q \in Nat, n = q * Word PROVE n % Word = 0 /\ n \div Word = q
  <2>1. (q * Word + 0) % Word = 0 /\ (q * Word + 0) \div Word = q
    <3>1. 0 \in 0 .. Word - 1
      BY <1>1
    <3> QED BY <1>1, <3>1, DivModUnique
  <2>2. q * Word + 0 = n
    BY <1>1, <1>3
  <2> QED BY <2>1, <2>2
<1> QED BY <1>2, <1>3

(* Rounding to whole words, down and up.                                   *)
LEMMA Rounding ==
  ASSUME NEW n \in Nat
  PROVE  /\ \E q \in Nat : Down(n) = q * Word
         /\ \E q \in Nat : RoundUp(n) = q * Word
         /\ Down(n) \in Nat /\ Down(n) <= n /\ n < Down(n) + Word
         /\ RoundUp(n) \in Nat /\ n <= RoundUp(n) /\ RoundUp(n) < n + Word
         /\ n % Word = 0 => Down(n) = n /\ RoundUp(n) = n
<1>1. Word \in Nat \ {0}
  BY Constants
<1>2. PICK q \in Nat : q = n \div Word
  BY <1>1, DivMod
<1>3. PICK r \in 0 .. Word - 1 : r = n % Word
  BY <1>1, DivMod
<1>4. PICK qw \in Nat : qw = q * Word
  BY <1>1
<1>5. n = qw + r
  BY <1>1, <1>2, <1>3, <1>4, DivMod
<1>6. Down(n) = qw
  BY <1>3, <1>5 DEF Down
<1>7. PICK p \in Nat : p = (n + Word - 1) \div Word
  BY <1>1, DivMod
<1>8. PICK s \in 0 .. Word - 1 : s = (n + Word - 1) % Word
  BY <1>1, DivMod
<1>9. PICK pw \in Nat : pw = p * Word
  BY <1>1
<1>10. n + Word - 1 = pw + s
  <2>1. n + Word - 1 \in Nat
    BY <1>1
  <2> QED BY <1>1, <2>1, <1>7, <1>8, <1>9, DivMod
<1>11. RoundUp(n) = pw
  BY <1>7, <1>9 DEF RoundUp
<1>12. n % Word = 0 => pw = n
  <2> SUFFICES ASSUME n % Word = 0 PROVE pw = n
    OBVIOUS
  <2>1. n = qw
    BY <1>3, <1>5
  <2>2. n + Word - 1 = q * Word + (Word - 1) /\ Word - 1 \in 0 .. Word - 1
    BY <1>1, <1>4, <2>1
  <2>3. (n + Word - 1) \div Word = q
    BY <1>1, <2>2, DivModUnique
  <2> QED BY <1>4, <1>7, <1>9, <2>1, <2>3
<1>13. n % Word = 0 => qw = n
  BY <1>3, <1>5
<1> QED BY <1>1, <1>3, <1>4, <1>5, <1>6, <1>8, <1>9, <1>10, <1>11, <1>12, <1>13

(* Between two multiples of a word there is a word.                        *)
LEMMA WordBetween ==
  ASSUME NEW p \in Nat, NEW q \in Nat, p * Word < q * Word
  PROVE  p * Word + Word <= q * Word
<1>1. Word \in Nat \ {0}
  BY Constants
<1>2. PICK pw \in Nat : pw = p * Word
  BY <1>1
<1>3. PICK qw \in Nat : qw = q * Word
  BY <1>1
<1>4. p < q
  <2> SUFFICES ASSUME q <= p PROVE FALSE
    OBVIOUS
  <2>1. (p - q) * Word >= 0
    BY <1>1
  <2>2. (p - q) * Word = pw - qw
    BY <1>1, <1>2, <1>3
  <2> QED BY <1>2, <1>3, <2>1, <2>2
<1>5. (q - p - 1) * Word >= 0
  BY <1>1, <1>4
<1>6. (q - p - 1) * Word = qw - pw - Word
  BY <1>1, <1>2, <1>3
<1> QED BY <1>1, <1>2, <1>3, <1>5, <1>6

(* Rounding keeps the order, and rounding again changes nothing.           *)
LEMMA RoundingOrder ==
  ASSUME NEW a \in Nat, NEW b \in Nat
  PROVE  /\ a <= b => RoundUp(a) <= RoundUp(b) /\ Down(a) <= Down(b)
         /\ a <= RoundUp(b) => RoundUp(a) <= RoundUp(b)
         /\ RoundUp(a) % Word = 0 /\ Down(a) % Word = 0
         /\ a < b /\ b % Word = 0 => RoundUp(a) <= b
         /\ a <= b /\ a % Word = 0 => a <= Down(b)
<1>1. Word \in Nat \ {0}
  BY Constants
<1>2. PICK ua \in Nat : RoundUp(a) = ua * Word
  BY Rounding
<1>3. PICK ub \in Nat : RoundUp(b) = ub * Word
  BY Rounding
<1>4. PICK da \in Nat : Down(a) = da * Word
  BY Rounding
<1>5. PICK db \in Nat : Down(b) = db * Word
  BY Rounding
<1>6. RoundUp(a) % Word = 0 /\ Down(a) % Word = 0
  <2>1. RoundUp(a) \in Nat /\ Down(a) \in Nat
    BY Rounding
  <2> QED BY <1>2, <1>4, <2>1, Multiple
<1>7. /\ a <= RoundUp(a) /\ RoundUp(a) < a + Word /\ RoundUp(a) \in Nat
      /\ b <= RoundUp(b) /\ RoundUp(b) < b + Word /\ RoundUp(b) \in Nat
      /\ Down(a) <= a /\ a < Down(a) + Word /\ Down(a) \in Nat
      /\ Down(b) <= b /\ b < Down(b) + Word /\ Down(b) \in Nat
  BY Rounding
<1>8. ~(RoundUp(b) < RoundUp(a)) \/ RoundUp(b) + Word <= RoundUp(a)
  BY <1>2, <1>3, WordBetween
<1>9. ~(Down(b) < Down(a)) \/ Down(b) + Word <= Down(a)
  BY <1>4, <1>5, WordBetween
<1>10. a % Word = 0 => Down(a) = a
  BY Rounding
<1>11. b % Word = 0 => RoundUp(b) = b
  BY Rounding
<1> QED BY <1>1, <1>6, <1>7, <1>8, <1>9, <1>10, <1>11

-----------------------------------------------------------------------------
(* Words.                                                                  *)
LEMMA WordFacts ==
  /\ \A w \in WordSet : w \in Seq(Byte) /\ Len(w) = Word /\ ToNumber(w) \in Nat
  /\ \A n \in Nat : ToWord(n) \in WordSet
  /\ \A n \in Nat : n < Weight[Word] => ToNumber(ToWord(n)) = n
  /\ DataTag \in WordSet /\ ServiceTag \in WordSet /\ Tag \in WordSet
  /\ Terminate \in WordSet /\ DataTag # ServiceTag
  /\ Bad \notin WordSet
<1>1. Word \in Nat \ {0} /\ Base \in Nat \ {0} /\ Base > 32
  BY Constants
<1>2. ASSUME NEW w \in WordSet
      PROVE  w \in Seq(Byte) /\ Len(w) = Word /\ ToNumber(w) \in Nat
  <2>1. w \in [1 .. Word -> Byte]
    BY DEF WordSet
  <2>2. w \in Seq(Byte) /\ Len(w) = Word
    BY <1>1, <2>1
  <2>3. w \in [1 .. Word -> Nat]
    BY <2>1 DEF Byte
  <2> QED BY <2>2, <2>3, WordIs
<1>3. ASSUME NEW n \in Nat PROVE ToWord(n) \in WordSet
  <2>1. ASSUME NEW i \in 1 .. Word PROVE (n \div Weight[i - 1]) % Base \in Byte
    <3>1. i - 1 \in 0 .. Word
      BY <1>1
    <3>2. Weight[i - 1] \in Nat \ {0}
      BY <3>1, WeightIs
    <3>3. n \div Weight[i - 1] \in Nat
      BY <3>2, DivMod
    <3> QED BY <1>1, <3>3, DivMod DEF Byte
  <2> QED BY <2>1 DEF ToWord, WordSet
<1>4. ASSUME NEW n \in Nat, n < Weight[Word] PROVE ToNumber(ToWord(n)) = n
  <2>1. PICK b \in WordSet : b = ToWord(n)
    BY <1>3
  <2>2. b \in [1 .. Word -> Nat]
    BY DEF WordSet, Byte
  <2>3. ToNumber(b) = n % Weight[Word]
    BY <2>1, <2>2, WordIs
  <2>4. PICK m \in Nat \ {0} : m = Weight[Word]
    BY Constants
  <2>5. n % m = n
    <3>1. n \in 0 .. m - 1 /\ 0 * m + n = n
      BY <1>4, <2>4
    <3>2. (0 * m + n) % m = n
      BY <3>1, DivModUnique
    <3> QED BY <3>1, <3>2
  <2> QED BY <2>1, <2>3, <2>4, <2>5
<1>5. DataTag # ServiceTag
  <2>1. 1 \in 1 .. Word /\ 1 - 1 = 0 /\ Weight[0] = 1
    BY <1>1, WeightIs
  <2>2. DataTag[1] = (0 \div 1) % Base /\ ServiceTag[1] = (1 \div 1) % Base
    BY <2>1 DEF DataTag, ServiceTag, ToWord
  <2>3. 0 \div 1 = 0 /\ 1 \div 1 = 1
    OBVIOUS
  <2>4. 0 % Base = 0 /\ 1 % Base = 1
    BY <1>1
  <2> QED BY <2>2, <2>3, <2>4
<1>6. Terminate \in WordSet
  BY <1>1 DEF Terminate, WordSet, Byte
<1>7. Bad \notin WordSet
  <2>1. ASSUME NEW w \in WordSet PROVE w # <<>>
    <3>1. Len(w) = Word
      BY <1>2
    <3> QED BY <1>1, <3>1
  <2> QED BY <2>1 DEF Bad
<1> QED BY <1>2, <1>3, <1>4, <1>5, <1>6, <1>7 DEF DataTag, ServiceTag, Tag

(* The byte at k is one of a word.                                         *)
LEMMA Position ==
  ASSUME NEW n \in Nat, NEW k \in 1 .. n * Word
  PROVE  \E i \in 1 .. n : \E o \in 1 .. Word : k = (i - 1) * Word + o
<1>1. Word \in Nat \ {0}
  BY Constants
<1>2. PICK nw \in Nat : nw = n * Word
  BY <1>1
<1>3. k - 1 \in Nat
  BY <1>2
<1>4. PICK q \in Nat : q = (k - 1) \div Word
  BY <1>1, <1>3, DivMod
<1>5. PICK r \in 0 .. Word - 1 : r = (k - 1) % Word
  BY <1>1, <1>3, DivMod
<1>6. PICK qw \in Nat : qw = q * Word
  BY <1>1
<1>7. k - 1 = qw + r
  BY <1>1, <1>3, <1>4, <1>5, <1>6, DivMod
<1>8. q < n
  <2> SUFFICES ASSUME n <= q PROVE FALSE
    OBVIOUS
  <2>1. (q - n) * Word >= 0
    BY <1>1
  <2>2. (q - n) * Word = qw - nw
    BY <1>1, <1>2, <1>6
  <2> QED BY <1>2, <1>7, <2>1, <2>2
<1>9. q + 1 \in 1 .. n /\ r + 1 \in 1 .. Word /\ k = ((q + 1) - 1) * Word + (r + 1)
  BY <1>1, <1>6, <1>7, <1>8
<1> QED BY <1>9

(* The bytes of words, in their places.                                    *)
LEMMA FlatWords ==
  ASSUME NEW w \in Seq(WordSet)
  PROVE  /\ FlattenSeq(w) \in Seq(Byte) /\ Len(FlattenSeq(w)) = Len(w) * Word
         /\ \A i \in 1 .. Len(w) : \A o \in 1 .. Word :
              FlattenSeq(w)[(i - 1) * Word + o] = w[i][o]
<1>1. Word \in Nat \ {0} /\ Len(w) \in Nat
  BY Constants
<1>2. w \in [1 .. Len(w) -> Seq(Byte)] /\ AllLong(w, Len(w), Word)
  <2>1. \A i \in 1 .. Len(w) : w[i] \in WordSet
    OBVIOUS
  <2>2. \A i \in 1 .. Len(w) : w[i] \in Seq(Byte) /\ Len(w[i]) = Word
    BY <2>1, WordFacts
  <2> QED BY <2>2 DEF AllLong
<1>3. CASE Len(w) = 0
  <2>0. PICK n \in Nat : n = Len(w) /\ n = 0
    BY <1>3
  <2>1. w \in [1 .. n -> Seq(Byte)]
    BY <1>2, <2>0
  <2>2. FlattenSeq(w) = <<>>
    BY <2>0, <2>1, FlattenMore
  <2> QED BY <1>1, <1>3, <2>2
<1>4. CASE Len(w) # 0
  <2>1. Len(w) \in Nat \ {0} /\ Word \in Nat
    BY <1>1, <1>4
  <2>2. FlattenSeq(w) \in Seq(Byte) /\ Pieces(FlattenSeq(w), w, Len(w), Word)
    BY <1>2, <2>1, FlattenIs, Zenon
  <2> QED BY <2>2 DEF Pieces
<1> QED BY <1>3, <1>4

(* The bytes of some of the words.                                         *)
LEMMA FlatSome ==
  ASSUME NEW w \in Seq(WordSet), NEW a \in Nat, NEW c \in Nat, a <= c, c <= Len(w)
  PROVE  LET v == SubSeq(w, a + 1, c)
         IN /\ v \in Seq(WordSet) /\ Len(v) = c - a
            /\ FlattenSeq(v) \in Seq(Byte) /\ Len(FlattenSeq(v)) = (c - a) * Word
            /\ \A k \in 1 .. (c - a) * Word :
                 FlattenSeq(v)[k] = FlattenSeq(w)[a * Word + k]
<1> DEFINE v == SubSeq(w, a + 1, c)
<1>1. Word \in Nat \ {0} /\ Len(w) \in Nat
  BY Constants
<1>2. /\ v \in Seq(WordSet) /\ Len(v) = c - a
      /\ \A i \in 1 .. c - a : v[i] = w[a + i]
  <2>1. PICK b \in Nat : b = a + 1
    OBVIOUS
  <2>2. /\ SubSeq(w, b, c) \in Seq(WordSet) /\ Len(SubSeq(w, b, c)) = c - a
        /\ \A i \in 1 .. c - a : SubSeq(w, b, c)[i] = w[b + i - 1]
    BY <1>1, <2>1, SubSeqProperties
  <2>3. \A i \in 1 .. c - a : b + i - 1 = a + i
    BY <2>1
  <2> QED BY <2>1, <2>2, <2>3
<1> HIDE DEF v
<1>3. FlattenSeq(v) \in Seq(Byte) /\ Len(FlattenSeq(v)) = (c - a) * Word
  BY <1>2, FlatWords
<1>4. ASSUME NEW k \in 1 .. (c - a) * Word
      PROVE  FlattenSeq(v)[k] = FlattenSeq(w)[a * Word + k]
  <2>0. c - a \in Nat
    OBVIOUS
  <2>1. PICK i \in 1 .. c - a, o \in 1 .. Word : k = (i - 1) * Word + o
    BY <2>0, Position
  <2>2. FlattenSeq(v)[k] = v[i][o]
    BY <1>2, <2>1, FlatWords
  <2>3. a + i \in 1 .. Len(w) /\ v[i] = w[a + i]
    BY <1>2, <2>1
  <2>4. FlattenSeq(w)[((a + i) - 1) * Word + o] = w[a + i][o]
    BY <2>3, FlatWords
  <2>5. ((a + i) - 1) * Word + o = a * Word + k
    <3>1. ((a + i) - 1) * Word = a * Word + (i - 1) * Word
      BY <1>1
    <3>2. PICK x \in Int : x = a * Word
      BY <1>1
    <3>3. PICK y \in Int : y = (i - 1) * Word
      BY <1>1
    <3>4. k = y + o /\ ((a + i) - 1) * Word = x + y
      BY <2>1, <3>1, <3>2, <3>3
    <3> QED BY <3>2, <3>4
  <2> QED BY <2>2, <2>3, <2>4, <2>5
<1> QED BY <1>2, <1>3, <1>4 DEF v

(* Bytes as words, and back.                                               *)
LEMMA AsWords ==
  ASSUME NEW b \in Seq(Byte)
  PROVE  /\ WordsOf(b) \in Seq(WordSet) /\ Len(WordsOf(b)) = Len(b) \div Word
         /\ Len(b) % Word = 0 => FlattenSeq(WordsOf(b)) = b
<1>1. Word \in Nat \ {0} /\ Len(b) \in Nat
  BY Constants
<1>2. PICK n \in Nat : n = Len(b) \div Word
  BY <1>1, DivMod
<1>3. PICK nw \in Nat : nw = n * Word
  BY <1>1
<1>4. nw <= Len(b) /\ (Len(b) % Word = 0 => Len(b) = nw)
  <2>1. PICK r \in 0 .. Word - 1 : r = Len(b) % Word /\ Len(b) = n * Word + r
    BY <1>1, <1>2, DivMod
  <2> QED BY <1>1, <1>3, <2>1
<1>5. ASSUME NEW i \in 1 .. n
      PROVE  /\ SubSeq(b, (i - 1) * Word + 1, i * Word) \in WordSet
             /\ \A o \in 1 .. Word :
                  SubSeq(b, (i - 1) * Word + 1, i * Word)[o] = b[(i - 1) * Word + o]
  <2>1. PICK x \in Nat : x = (i - 1) * Word
    BY <1>1
  <2>2. i * Word = x + Word
    BY <1>1, <2>1
  <2>3. PICK y \in Nat : y = (n - i) * Word
    BY <1>1
  <2>4. x + Word + y = nw
    BY <1>1, <1>3, <2>1, <2>3
  <2>5. PICK f \in Nat : f = x + 1
    OBVIOUS
  <2>6. PICK l \in Nat : l = x + Word
    BY <1>1
  <2>7. /\ SubSeq(b, f, l) \in Seq(Byte) /\ Len(SubSeq(b, f, l)) = Word
        /\ \A o \in 1 .. Word : SubSeq(b, f, l)[o] = b[f + o - 1]
    BY <1>1, <1>4, <2>4, <2>5, <2>6, SubSeqProperties
  <2>8. SubSeq(b, f, l) \in [1 .. Word -> Byte]
    <3>1. PICK v : v = SubSeq(b, f, l)
      OBVIOUS
    <3>2. v \in Seq(Byte) /\ Len(v) = Word
      BY <2>7, <3>1
    <3>3. v \in [1 .. Word -> Byte]
      BY <1>1, <3>2
    <3> QED BY <3>1, <3>3
  <2>9. \A o \in 1 .. Word : f + o - 1 = x + o
    BY <2>5
  <2> QED BY <2>1, <2>2, <2>5, <2>6, <2>7, <2>8, <2>9 DEF WordSet
<1>6. WordsOf(b) \in [1 .. n -> WordSet]
  BY <1>2, <1>5 DEF WordsOf
<1>7. WordsOf(b) \in Seq(WordSet) /\ Len(WordsOf(b)) = n
  BY <1>6
<1>8. ASSUME Len(b) % Word = 0 PROVE FlattenSeq(WordsOf(b)) = b
  <2> DEFINE c == FlattenSeq(WordsOf(b))
  <2>1. c \in Seq(Byte) /\ Len(c) = nw
    BY <1>3, <1>7, FlatWords
  <2>2. Len(b) = nw
    BY <1>4, <1>8
  <2>3. ASSUME NEW k \in 1 .. nw PROVE c[k] = b[k]
    <3>1. PICK i \in 1 .. n, o \in 1 .. Word : k = (i - 1) * Word + o
      BY <1>3, Position
    <3>2. c[k] = WordsOf(b)[i][o]
      BY <1>7, <3>1, FlatWords
    <3>3. WordsOf(b)[i] = SubSeq(b, (i - 1) * Word + 1, i * Word)
      BY <1>2 DEF WordsOf
    <3> QED BY <1>5, <3>1, <3>2, <3>3
  <2> HIDE DEF c
  <2>4. c = b
    BY <2>1, <2>2, <2>3, SeqEqual
  <2> QED BY <2>4 DEF c
<1> QED BY <1>2, <1>7, <1>8

(* What can be read of a hex file are words.                               *)
LEMMA ReadableIs ==
  ASSUME NEW w \in Seq(WordSet \cup {Bad})
  PROVE  /\ Readable(w) \in 0 .. Len(w)
         /\ \A j \in 1 .. Readable(w) : w[j] \in WordSet
         /\ w \in Seq(WordSet) => Readable(w) = Len(w)
         /\ \A m \in 0 .. Readable(w) :
              SubSeq(w, 1, m) \in Seq(WordSet) /\ Len(SubSeq(w, 1, m)) = m
<1> DEFINE bad == {i \in 1 .. Len(w) : w[i] = Bad}
<1>1. Len(w) \in Nat /\ \A i \in 1 .. Len(w) : w[i] \in WordSet \/ w[i] = Bad
  OBVIOUS
<1>2. w \in Seq(WordSet) => bad = {}
  <2> SUFFICES ASSUME w \in Seq(WordSet), NEW i \in 1 .. Len(w) PROVE w[i] # Bad
    OBVIOUS
  <2>1. w[i] \in WordSet
    OBVIOUS
  <2> QED BY <2>1, WordFacts
<1>3. bad # {} => \E x \in bad : \A j \in bad : x <= j
  <2>1. bad \in SUBSET Nat
    OBVIOUS
  <2> HIDE DEF bad
  <2> QED BY <2>1, LeastNumber
<1>4. /\ Readable(w) \in 0 .. Len(w)
      /\ \A j \in 1 .. Readable(w) : j \notin bad
      /\ bad = {} => Readable(w) = Len(w)
  <2>1. CASE bad = {}
    BY <1>1, <2>1 DEF Readable
  <2>2. CASE bad # {}
    <3>1. PICK x : x = CHOOSE i \in bad : \A j \in bad : i <= j
      OBVIOUS
    <3>2. x \in bad /\ \A j \in bad : x <= j
      BY <1>3, <2>2, <3>1
    <3>3. Readable(w) = x - 1
      BY <2>2, <3>1 DEF Readable
    <3> QED BY <1>1, <2>2, <3>2, <3>3
  <2> QED BY <2>1, <2>2
<1>5. \A j \in 1 .. Readable(w) : w[j] \in WordSet
  BY <1>1, <1>4
<1>6. ASSUME NEW m \in 0 .. Readable(w)
      PROVE SubSeq(w, 1, m) \in Seq(WordSet) /\ Len(SubSeq(w, 1, m)) = m
  <2>0. PICK n \in Nat : n = m
    OBVIOUS
  <2>1. SubSeq(w, 1, n) = [i \in 1 .. n |-> w[i]]
    BY <1>4, <2>0
  <2>2. \A i \in 1 .. n : w[i] \in WordSet
    BY <1>4, <1>5, <2>0
  <2>3. SubSeq(w, 1, n) \in [1 .. n -> WordSet]
    BY <2>1, <2>2
  <2>4. PICK v : v = SubSeq(w, 1, n)
    OBVIOUS
  <2>5. v \in [1 .. n -> WordSet]
    BY <2>3, <2>4
  <2>6. v \in Seq(WordSet) /\ Len(v) = n
    BY <2>5
  <2> QED BY <2>0, <2>4, <2>6
<1> QED BY <1>2, <1>4, <1>5, <1>6

-----------------------------------------------------------------------------
(* A part of a sequence.                                                   *)
LEMMA SubIs ==
  ASSUME NEW S, NEW s \in Seq(S), NEW a \in Nat, NEW c \in Nat, a <= c, c <= Len(s)
  PROVE  /\ SubSeq(s, a + 1, c) \in Seq(S) /\ Len(SubSeq(s, a + 1, c)) = c - a
         /\ \A i \in 1 .. c - a : SubSeq(s, a + 1, c)[i] = s[a + i]
<1>1. PICK b \in Nat : b = a + 1
  OBVIOUS
<1>2. /\ SubSeq(s, b, c) \in Seq(S) /\ Len(SubSeq(s, b, c)) = c - a
      /\ \A i \in 1 .. c - a : SubSeq(s, b, c)[i] = s[b + i - 1]
  BY <1>1, SubSeqProperties
<1>3. \A i \in 1 .. c - a : b + i - 1 = a + i
  BY <1>1
<1> QED BY <1>1, <1>2, <1>3

(* The first elements of a sequence.                                       *)
LEMMA FirstIs ==
  ASSUME NEW S, NEW s \in Seq(S), NEW c \in 0 .. Len(s)
  PROVE  /\ SubSeq(s, 1, c) \in Seq(S) /\ Len(SubSeq(s, 1, c)) = c
         /\ \A i \in 1 .. c : SubSeq(s, 1, c)[i] = s[i]
<1>1. PICK o \in Nat : o = 1
  OBVIOUS
<1>2. PICK d \in Nat : d = c /\ d <= Len(s)
  OBVIOUS
<1>3. /\ SubSeq(s, o, d) \in Seq(S) /\ Len(SubSeq(s, o, d)) = d
      /\ \A i \in 1 .. d : SubSeq(s, o, d)[i] = s[o + i - 1]
  <2>1. d - o + 1 = d /\ \A i \in 1 .. d : i \in 1 .. d - o + 1
    BY <1>1, <1>2
  <2> QED BY <1>1, <1>2, <2>1, SubSeqProperties
<1>4. \A i \in 1 .. d : o + i - 1 = i
  BY <1>1
<1> QED BY <1>1, <1>2, <1>3, <1>4

(* Two sequences, one behind the other.                                    *)
LEMMA ConcatIs ==
  ASSUME NEW S, NEW s \in Seq(S), NEW t \in Seq(S)
  PROVE  /\ s \o t \in Seq(S) /\ Len(s \o t) = Len(s) + Len(t)
         /\ \A k \in 1 .. Len(s) : (s \o t)[k] = s[k]
         /\ \A k \in 1 .. Len(t) : (s \o t)[Len(s) + k] = t[k]
OBVIOUS

(* All of a sequence.                                                      *)
LEMMA SubAll ==
  ASSUME NEW S
  PROVE  <<>> \in Seq(S) /\ \A s \in Seq(S) : SubSeq(s, 1, Len(s)) = s
OBVIOUS

(* The words of a block.                                                   *)
LEMMA SizeIs ==
  ASSUME NEW n \in Sizes
  PROVE  /\ n \in Nat /\ n \div Word \in Nat /\ n \div Word >= 2
         /\ n = (n \div Word) * Word /\ n >= 2 * Word
         /\ n >= 3 * Word => n \div Word >= 3
         /\ n >= 4 * Word => n \div Word >= 4
<1>1. Word \in Nat \ {0}
  BY Constants
<1>2. n \in Nat /\ n >= 2 * Word /\ n % Word = 0
  BY DEF Sizes
<1>3. n \div Word \in Nat /\ n = (n \div Word) * Word
  BY <1>1, <1>2, Multiple
<1>4. PICK m \in Nat : m = n \div Word
  BY <1>3
<1>5. ASSUME NEW k \in Nat, n >= k * Word PROVE m >= k
  <2> SUFFICES ASSUME m < k PROVE FALSE
    BY <1>4
  <2>1. (k - m - 1) * Word >= 0
    BY <1>1
  <2>2. PICK x \in Nat : x = k * Word
    BY <1>1
  <2>3. PICK y \in Nat : y = m * Word
    BY <1>1
  <2>4. (k - m - 1) * Word = x - y - Word
    BY <1>1, <2>2, <2>3
  <2>5. n = y
    BY <1>3, <1>4, <2>3
  <2> QED BY <1>1, <1>5, <2>1, <2>2, <2>4, <2>5
<1>6. m >= 2 /\ (n >= 3 * Word => m >= 3) /\ (n >= 4 * Word => m >= 4)
  BY <1>2, <1>5
<1> QED BY <1>2, <1>3, <1>4, <1>6

(* How many blocks there are.                                              *)
LEMMA BlocksIs ==
  ASSUME NEW n \in Sizes, NEW w \in Seq(WordSet)
  PROVE  /\ Blocks(w, n) \in Nat /\ Blocks(w, n) * (n \div Word) <= Len(w)
         /\ Len(w) < Blocks(w, n) * (n \div Word) + (n \div Word)
         /\ \A m \in Nat : m <= Blocks(w, n) => m * (n \div Word) <= Len(w)
         /\ \A m \in Nat : m * (n \div Word) <= Len(w) => m <= Blocks(w, n)
         /\ \A m \in Nat : Len(w) = m * (n \div Word) => Blocks(w, n) = m
<1>1. PICK W \in Nat \ {0} : W = n \div Word
  BY SizeIs
<1>2. PICK l \in Nat : l = Len(w)
  OBVIOUS
<1>3. PICK q \in Nat : q = l \div W
  BY <1>1, <1>2, DivMod
<1>4. PICK r \in 0 .. W - 1 : r = l % W
  BY <1>1, <1>2, DivMod
<1>5. PICK x \in Nat : x = q * W
  BY <1>1
<1>6. l = x + r
  BY <1>3, <1>4, <1>5, DivMod
<1>7. Blocks(w, n) = q
  BY <1>1, <1>2, <1>3 DEF Blocks
<1>8. ASSUME NEW m \in Nat, m <= q PROVE m * W <= l
  <2>1. (q - m) * W >= 0 /\ (q - m) * W = x - m * W
    BY <1>1, <1>5, <1>8
  <2>2. PICK y \in Nat : y = m * W
    BY <1>1
  <2> QED BY <1>6, <2>1, <2>2
<1>9. ASSUME NEW m \in Nat, m * W <= l PROVE m <= q
  <2> SUFFICES ASSUME q < m PROVE FALSE
    OBVIOUS
  <2>1. (m - q - 1) * W >= 0
    BY <1>1
  <2>2. PICK y \in Nat : y = m * W
    BY <1>1
  <2>3. (m - q - 1) * W = y - x - W
    BY <1>1, <1>5, <2>2, SMTT(30)
  <2>4. y <= l
    BY <1>9, <2>2
  <2> QED BY <1>1, <1>6, <2>1, <2>3, <2>4
<1>10. ASSUME NEW m \in Nat, l = m * W PROVE q = m
  <2>1. 0 \in 0 .. W - 1 /\ m * W + 0 = l
    BY <1>1, <1>10
  <2> QED BY <1>3, <2>1, DivModUnique
<1> QED BY <1>1, <1>2, <1>5, <1>6, <1>7, <1>8, <1>9, <1>10

(* A block of a file is words of it.                                       *)
LEMMA BlockIs ==
  ASSUME NEW n \in Sizes, NEW w \in Seq(WordSet), NEW i \in 1 .. Blocks(w, n)
  PROVE  /\ BlockOf(w, n, i) \in Seq(WordSet) /\ Len(BlockOf(w, n, i)) = n \div Word
         /\ \A o \in 1 .. n \div Word :
              /\ (i - 1) * (n \div Word) + o \in 1 .. Len(w)
              /\ BlockOf(w, n, i)[o] = w[(i - 1) * (n \div Word) + o]
<1>1. PICK W \in Nat \ {0} : W = n \div Word
  BY SizeIs
<1>2. Blocks(w, n) \in Nat /\ i * W <= Len(w)
  BY <1>1, BlocksIs
<1>3. PICK x \in Nat : x = (i - 1) * W
  BY <1>1, <1>2
<1>4. PICK y \in Nat : y = i * W /\ y = x + W
  BY <1>1, <1>2, <1>3
<1>5. /\ SubSeq(w, x + 1, y) \in Seq(WordSet) /\ Len(SubSeq(w, x + 1, y)) = y - x
      /\ \A o \in 1 .. y - x : SubSeq(w, x + 1, y)[o] = w[x + o]
  <2>1. x <= y /\ y <= Len(w)
    BY <1>1, <1>2, <1>4
  <2> QED BY <2>1, SubIs
<1>6. BlockOf(w, n, i) = SubSeq(w, x + 1, y)
  BY <1>1, <1>3, <1>4 DEF BlockOf
<1>7. y - x = W /\ \A o \in 1 .. W : x + o \in 1 .. Len(w)
  BY <1>2, <1>4
<1> QED BY <1>1, <1>3, <1>5, <1>6, <1>7

(* The first part of a file, and that its blocks are blocks of the file.   *)
Begins(v, w) == Len(v) <= Len(w) /\ SameTo(w, v, Len(v))

LEMMA BlockBegins ==
  ASSUME NEW n \in Sizes, NEW w \in Seq(WordSet), NEW v \in Seq(WordSet), Begins(v, w)
  PROVE  /\ Blocks(v, n) <= Blocks(w, n)
         /\ \A i \in 1 .. Blocks(v, n) : BlockOf(v, n, i) = BlockOf(w, n, i)
<1>1. n \div Word \in Nat
  BY SizeIs
<1>2. Len(v) <= Len(w) /\ \A k \in 1 .. Len(v) : v[k] = w[k]
  BY DEF Begins, SameTo
<1>3. Blocks(v, n) \in Nat /\ Blocks(w, n) \in Nat
  BY BlocksIs
<1>4. Blocks(v, n) <= Blocks(w, n)
  <2>1. PICK x \in Nat : x = Blocks(v, n) * (n \div Word)
    BY <1>1, <1>3
  <2>2. x <= Len(v)
    BY <2>1, BlocksIs
  <2>3. x <= Len(w)
    BY <1>2, <2>2
  <2> QED BY <1>3, <2>1, <2>3, BlocksIs
<1>5. ASSUME NEW i \in 1 .. Blocks(v, n) PROVE BlockOf(v, n, i) = BlockOf(w, n, i)
  <2>1. i \in 1 .. Blocks(w, n)
    BY <1>3, <1>4
  <2>2. /\ BlockOf(v, n, i) \in Seq(WordSet) /\ Len(BlockOf(v, n, i)) = n \div Word
        /\ \A o \in 1 .. n \div Word :
              /\ (i - 1) * (n \div Word) + o \in 1 .. Len(v)
              /\ BlockOf(v, n, i)[o] = v[(i - 1) * (n \div Word) + o]
    BY BlockIs
  <2>3. /\ BlockOf(w, n, i) \in Seq(WordSet) /\ Len(BlockOf(w, n, i)) = n \div Word
        /\ \A o \in 1 .. n \div Word :
              BlockOf(w, n, i)[o] = w[(i - 1) * (n \div Word) + o]
    BY <2>1, BlockIs
  <2>4. \A o \in 1 .. n \div Word : BlockOf(v, n, i)[o] = BlockOf(w, n, i)[o]
    BY <1>2, <2>2, <2>3
  <2> QED BY <2>2, <2>3, <2>4, SeqEqual
<1> QED BY <1>4, <1>5

(* A file of whole blocks, and one more.                                   *)
LEMMA BlockAppend ==
  ASSUME NEW n \in Sizes, NEW w \in Seq(WordSet), NEW b \in Seq(WordSet),
         Len(w) = Blocks(w, n) * (n \div Word), Len(b) = n \div Word
  PROVE  /\ w \o b \in Seq(WordSet)
         /\ Blocks(w \o b, n) = Blocks(w, n) + 1
         /\ Len(w \o b) = Blocks(w \o b, n) * (n \div Word)
         /\ Begins(w, w \o b)
         /\ BlockOf(w \o b, n, Blocks(w, n) + 1) = b
<1>1. PICK W \in Nat \ {0} : W = n \div Word
  BY SizeIs
<1>2. PICK N \in Nat : N = Blocks(w, n)
  BY BlocksIs
<1>3. PICK x \in Nat : x = N * W /\ x = Len(w)
  BY <1>1, <1>2
<1>4. PICK v : v = w \o b
  OBVIOUS
<1>5. /\ v \in Seq(WordSet) /\ Len(v) = x + W
      /\ \A k \in 1 .. x : v[k] = w[k]
      /\ \A k \in 1 .. W : v[x + k] = b[k]
  <2>1. w \in Seq(WordSet) /\ b \in Seq(WordSet) /\ Len(b) = W /\ Len(w) = x
    BY <1>1, <1>3
  <2>2. w \o b \in Seq(WordSet) /\ Len(w \o b) = Len(w) + Len(b)
    BY <2>1, ConcatProperties
  <2>3. ASSUME NEW k \in 1 .. x PROVE (w \o b)[k] = w[k]
    BY <2>1, <2>3
  <2>4. ASSUME NEW k \in 1 .. W PROVE (w \o b)[x + k] = b[k]
    BY <2>1, <2>4
  <2> QED BY <1>4, <2>1, <2>2, <2>3, <2>4
<1>6. Len(v) = (N + 1) * W
  BY <1>1, <1>3, <1>5
<1>7. Blocks(v, n) = N + 1
  BY <1>1, <1>5, <1>6, BlocksIs
<1>8. Begins(w, v)
  BY <1>3, <1>5 DEF Begins, SameTo
<1>9. BlockOf(v, n, N + 1) = b
  <2>0. PICK i \in 1 .. Blocks(v, n) : i = N + 1 /\ i - 1 = N
    BY <1>7
  <2>1. /\ BlockOf(v, n, i) \in Seq(WordSet) /\ Len(BlockOf(v, n, i)) = W
        /\ \A o \in 1 .. W : BlockOf(v, n, i)[o] = v[(i - 1) * W + o]
    BY <1>1, <1>5, BlockIs
  <2>2. (i - 1) * W = x
    BY <1>3, <2>0
  <2>3. \A o \in 1 .. W : BlockOf(v, n, i)[o] = b[o]
    BY <1>5, <2>1, <2>2
  <2>4. BlockOf(v, n, i) = b
    BY <1>1, <2>1, <2>3, SeqEqual
  <2> QED BY <2>0, <2>4
<1> QED BY <1>1, <1>2, <1>4, <1>5, <1>6, <1>7, <1>8, <1>9

(* What a block is there for.                                              *)
LEMMA ContentsIs ==
  ASSUME NEW n \in Sizes, NEW b \in Seq(WordSet), Len(b) = n \div Word
  PROVE  /\ b[1] \in WordSet /\ b[2] \in WordSet /\ ToNumber(b[1]) \in Nat
         /\ Contents(b, n) \in Seq(Byte)
         /\ b[2] # DataTag => Contents(b, n) = <<>>
         /\ DataBlock(b, n) =>
              /\ Len(Contents(b, n)) = ToNumber(b[1])
              /\ \A k \in 1 .. ToNumber(b[1]) :
                   Contents(b, n)[k] = FlattenSeq(b)[2 * Word + k]
<1>1. Word \in Nat \ {0} /\ n \in Nat /\ n >= 2 * Word /\ n \div Word >= 2
  BY SizeIs, Constants
<1>2. b[1] \in WordSet /\ b[2] \in WordSet
  BY <1>1
<1>3. PICK l \in Nat : l = ToNumber(b[1])
  BY <1>2, WordFacts
<1>4. PICK c : c = FlattenSeq(b)
  OBVIOUS
<1>5. c \in Seq(Byte) /\ Len(c) = n
  BY <1>4, FlatWords, SizeIs
<1>6. PICK a \in Nat : a = 2 * Word
  BY <1>1
<1>7. PICK m \in Nat : m = AtMost(l, n - a) /\ m <= n - a /\ (l <= n - a => m = l)
  <2>1. n - a \in Nat
    BY <1>1, <1>6
  <2>2. CASE l < n - a
    BY <2>1, <2>2 DEF AtMost
  <2>3. CASE ~(l < n - a)
    BY <2>1, <2>3 DEF AtMost
  <2> QED BY <2>2, <2>3
<1>8. PICK e \in Nat : e = a + m
  OBVIOUS
<1>9. /\ SubSeq(c, a + 1, e) \in Seq(Byte) /\ Len(SubSeq(c, a + 1, e)) = e - a
      /\ \A k \in 1 .. e - a : SubSeq(c, a + 1, e)[k] = c[a + k]
  <2>1. a <= e /\ e <= Len(c)
    BY <1>1, <1>5, <1>7, <1>8
  <2> QED BY <1>5, <2>1, SubIs
<1>10. b[2] = DataTag => Contents(b, n) = SubSeq(c, a + 1, e)
  BY <1>3, <1>4, <1>6, <1>7, <1>8 DEF Contents
<1>11. b[2] # DataTag => Contents(b, n) = <<>>
  BY DEF Contents
<1>12. Contents(b, n) \in Seq(Byte)
  <2>1. <<>> \in Seq(Byte)
    OBVIOUS
  <2> QED BY <1>9, <1>10, <1>11, <2>1, Zenon
<1>13. ASSUME DataBlock(b, n)
       PROVE  /\ Len(Contents(b, n)) = l
              /\ \A k \in 1 .. l : Contents(b, n)[k] = c[a + k]
  <2>1. b[2] = DataTag /\ l <= n - a
    BY <1>3, <1>6, <1>13 DEF DataBlock
  <2>2. e - a = l
    BY <1>7, <1>8, <2>1
  <2> QED BY <1>9, <1>10, <2>1, <2>2
<1> QED BY <1>2, <1>3, <1>4, <1>6, <1>11, <1>12, <1>13

(* What some blocks are there for, one after the other.                    *)
LEMMA PayIs ==
  ASSUME NEW n \in Sizes, NEW w \in Seq(WordSet)
  PROVE  /\ \A k \in 0 .. Blocks(w, n) : Pay(w, n, k) \in Seq(Byte)
         /\ Pay(w, n, 0) = <<>>
         /\ \A k \in 0 .. Blocks(w, n) - 1 :
              /\ Contents(BlockOf(w, n, k + 1), n) \in Seq(Byte)
              /\ Pay(w, n, k + 1) = Pay(w, n, k) \o Contents(BlockOf(w, n, k + 1), n)
<1>1. PICK N \in Nat : N = Blocks(w, n)
  BY BlocksIs
<1>2. PICK s : s = [i \in 1 .. N |-> Contents(BlockOf(w, n, i), n)]
  OBVIOUS
<1>3. \A i \in 1 .. N : Contents(BlockOf(w, n, i), n) \in Seq(Byte)
  BY <1>1, BlockIs, ContentsIs
<1>4. s \in [1 .. N -> Seq(Byte)]
  BY <1>2, <1>3
<1>5. ASSUME NEW k \in 0 .. N PROVE Pay(w, n, k) = FlattenSeq(Begin(s, k))
  <2>1. \A i \in 1 .. k : s[i] = Contents(BlockOf(w, n, i), n)
    BY <1>2
  <2>2. Begin(s, k) = [i \in 1 .. k |-> Contents(BlockOf(w, n, i), n)]
    BY <2>1 DEF Begin
  <2> QED BY <2>2 DEF Pay
<1>6. /\ \A k \in 0 .. N : FlattenSeq(Begin(s, k)) \in Seq(Byte)
      /\ \A k \in 0 .. N - 1 :
           FlattenSeq(Begin(s, k + 1)) = FlattenSeq(Begin(s, k)) \o s[k + 1]
  BY <1>4, FlattenMore
<1>7. Pay(w, n, 0) = <<>>
  <2>1. PICK e : e = Begin(s, 0)
    OBVIOUS
  <2>2. PICK z \in Nat : z = 0
    OBVIOUS
  <2>3. e \in [1 .. z -> Seq(Byte)]
    BY <2>1, <2>2 DEF Begin
  <2>4. FlattenSeq(e) = <<>>
    BY <2>2, <2>3, FlattenMore
  <2>5. 0 \in 0 .. N
    OBVIOUS
  <2> QED BY <1>5, <2>1, <2>4, <2>5
<1>8. ASSUME NEW k \in 0 .. N - 1
      PROVE  /\ Contents(BlockOf(w, n, k + 1), n) \in Seq(Byte)
             /\ Pay(w, n, k + 1) = Pay(w, n, k) \o Contents(BlockOf(w, n, k + 1), n)
  <2>1. k + 1 \in 1 .. N /\ k + 1 \in 0 .. N /\ k \in 0 .. N
    OBVIOUS
  <2>2. s[k + 1] = Contents(BlockOf(w, n, k + 1), n)
    BY <1>2, <2>1
  <2>3. Pay(w, n, k + 1) = FlattenSeq(Begin(s, k + 1))
    BY <1>5, <2>1
  <2>4. Pay(w, n, k) = FlattenSeq(Begin(s, k))
    BY <1>5, <2>1
  <2> QED BY <1>3, <1>6, <2>1, <2>2, <2>3, <2>4
<1> QED BY <1>1, <1>5, <1>6, <1>7, <1>8

(* The beginning of a file is there for the same.                          *)
LEMMA PayBegins ==
  ASSUME NEW n \in Sizes, NEW w \in Seq(WordSet), NEW v \in Seq(WordSet),
         Begins(v, w), NEW k \in 0 .. Blocks(v, n)
  PROVE  Pay(v, n, k) = Pay(w, n, k)
<1>1. Blocks(v, n) \in Nat
  BY BlocksIs
<1>2. \A i \in 1 .. k : BlockOf(v, n, i) = BlockOf(w, n, i)
  BY <1>1, BlockBegins
<1>3. \A i \in 1 .. k : Contents(BlockOf(v, n, i), n) = Contents(BlockOf(w, n, i), n)
  BY <1>2
<1>4. [i \in 1 .. k |-> Contents(BlockOf(v, n, i), n)]
        = [i \in 1 .. k |-> Contents(BlockOf(w, n, i), n)]
  BY <1>3
<1> QED BY <1>4 DEF Pay

(* What a sequence begins with: an order.                                  *)
LEMMA BeginsOrder ==
  ASSUME NEW S, NEW a \in Seq(S), NEW b \in Seq(S)
  PROVE  /\ Begins(a, a) /\ Begins(a, a \o b) /\ Begins(<<>>, a)
         /\ \A c \in Seq(S) : Begins(a, b) /\ Begins(b, c) => Begins(a, c)
         /\ \A k \in 0 .. Len(a) : Begins(SubSeq(a, 1, k), a)
<1>1. Begins(a, a) /\ Begins(<<>>, a)
  BY DEF Begins, SameTo
<1>2. Begins(a, a \o b)
  BY DEF Begins, SameTo
<1>3. ASSUME NEW c \in Seq(S), Begins(a, b), Begins(b, c) PROVE Begins(a, c)
  <2>1. Len(a) <= Len(b) /\ \A k \in 1 .. Len(a) : b[k] = b[k] /\ a[k] = b[k]
    BY <1>3 DEF Begins, SameTo
  <2>2. Len(b) <= Len(c) /\ \A k \in 1 .. Len(b) : b[k] = c[k]
    BY <1>3 DEF Begins, SameTo
  <2>3. Len(a) <= Len(c)
    BY <2>1, <2>2
  <2>4. \A k \in 1 .. Len(a) : k \in 1 .. Len(b)
    BY <2>1
  <2> QED BY <2>1, <2>2, <2>3, <2>4 DEF Begins, SameTo
<1>4. ASSUME NEW k \in 0 .. Len(a) PROVE Begins(SubSeq(a, 1, k), a)
  <2>1. PICK z \in Nat : z = 0
    OBVIOUS
  <2>2. /\ Len(SubSeq(a, z + 1, k)) = k - z
        /\ \A i \in 1 .. k - z : SubSeq(a, z + 1, k)[i] = a[z + i]
    BY <2>1, SubIs
  <2>3. z + 1 = 1 /\ k - z = k /\ \A i \in 1 .. k : z + i = i
    BY <2>1
  <2> QED BY <2>2, <2>3 DEF Begins, SameTo
<1> QED BY <1>1, <1>2, <1>3, <1>4

(* The first blocks are there for the beginning of the whole.              *)
LEMMA PayOrder ==
  ASSUME NEW n \in Sizes, NEW w \in Seq(WordSet),
         NEW k \in 0 .. Blocks(w, n), NEW j \in 0 .. k
  PROVE  Begins(Pay(w, n, j), Pay(w, n, k))
<1>1. PICK N \in Nat : N = Blocks(w, n)
  BY BlocksIs
<1>2. PICK d \in Nat : d = k - j
  BY <1>1
<1> DEFINE P == {i \in 0 .. d : Begins(Pay(w, n, j), Pay(w, n, j + i))}
<1>3. 0 \in P
  <2>1. Pay(w, n, j) \in Seq(Byte) /\ j + 0 = j
    BY <1>1, PayIs
  <2> QED BY <2>1, BeginsOrder
<1>4. ASSUME NEW i \in 0 .. d - 1, i \in P PROVE i + 1 \in P
  <2>1. PICK m \in 0 .. N - 1 : m = j + i /\ m + 1 = j + (i + 1)
    BY <1>1, <1>2
  <2>2. /\ Pay(w, n, j) \in Seq(Byte) /\ Pay(w, n, m) \in Seq(Byte)
        /\ Contents(BlockOf(w, n, m + 1), n) \in Seq(Byte)
        /\ Pay(w, n, m + 1) = Pay(w, n, m) \o Contents(BlockOf(w, n, m + 1), n)
        /\ Pay(w, n, m + 1) \in Seq(Byte)
    <3>1. j \in 0 .. N /\ m \in 0 .. N /\ m + 1 \in 0 .. N
      BY <1>1, <2>1
    <3> QED BY <1>1, <3>1, PayIs
  <2>3. Begins(Pay(w, n, m), Pay(w, n, m + 1))
    <3>1. PICK p \in Seq(Byte) : p = Pay(w, n, m)
      BY <2>2
    <3>2. PICK c \in Seq(Byte) : c = Contents(BlockOf(w, n, m + 1), n)
      BY <2>2
    <3>3. Begins(p, p \o c)
      BY BeginsOrder
    <3> QED BY <2>2, <3>1, <3>2, <3>3
  <2>4. Begins(Pay(w, n, j), Pay(w, n, m))
    BY <1>4, <2>1
  <2>5. Begins(Pay(w, n, j), Pay(w, n, m + 1))
    BY <2>2, <2>3, <2>4, BeginsOrder
  <2> QED BY <2>1, <2>5
<1>5. 0 .. d \subseteq P
  <2> HIDE DEF P
  <2> QED BY <1>2, <1>3, <1>4, UpTo
<1>6. d \in 0 .. d /\ j + d = k
  BY <1>2
<1> QED BY <1>5, <1>6

(* The words of two parts are those of the whole.                          *)
LEMMA FlatConcat ==
  ASSUME NEW w \in Seq(WordSet), NEW v \in Seq(WordSet)
  PROVE  FlattenSeq(w \o v) = FlattenSeq(w) \o FlattenSeq(v)
<1>1. \A s \in Seq(WordSet) : s \in Seq(Seq(Byte))
  <2> SUFFICES ASSUME NEW s \in Seq(WordSet) PROVE s \in Seq(Seq(Byte))
    OBVIOUS
  <2>1. \A i \in 1 .. Len(s) : s[i] \in Seq(Byte)
    BY WordFacts
  <2>2. s \in [1 .. Len(s) -> Seq(Byte)] /\ Len(s) \in Nat
    BY <2>1
  <2> QED BY <2>2
<1> QED BY <1>1, FlattenConcat

(* A block that is made for some data has them in it.                      *)
LEMMA MadeBlock ==
  ASSUME NEW n \in Sizes, NEW d \in Seq(Byte), Len(d) = n - 2 * Word,
         NEW size \in 0 .. n - 2 * Word
  PROVE  LET b == Block(size, d)
         IN /\ b \in Seq(WordSet) /\ Len(b) = n \div Word
            /\ DataBlock(b, n) /\ ToNumber(b[1]) = size
            /\ Contents(b, n) \in Seq(Byte) /\ Len(Contents(b, n)) = size
            /\ \A k \in 1 .. size : Contents(b, n)[k] = d[k]
<1>1. Word \in Nat \ {0} /\ n \in Nat /\ n >= 2 * Word
  BY SizeIs, Constants
<1>2. PICK W \in Nat : W = n \div Word /\ W >= 2 /\ n = W * Word
  BY SizeIs
<1>3. size \in Nat /\ size < Weight[Word]
  <2>1. n < Weight[Word] /\ Weight[Word] \in Nat
    BY Constants DEF Sizes
  <2> QED BY <1>1, <2>1
<1>4. PICK x \in WordSet : x = ToWord(size) /\ ToNumber(x) = size
  BY <1>3, WordFacts
<1>5. PICK y \in WordSet : y = DataTag
  BY WordFacts
<1>6. PICK v : v = WordsOf(d)
  OBVIOUS
<1>7. Len(d) \in Nat /\ Len(d) = (W - 2) * Word /\ W - 2 \in Nat
  BY <1>1, <1>2
<1>8. Len(d) % Word = 0 /\ Len(d) \div Word = W - 2
  BY <1>7, Multiple
<1>9. v \in Seq(WordSet) /\ Len(v) = W - 2 /\ FlattenSeq(v) = d
  BY <1>6, <1>8, AsWords
<1>10. PICK h \in Seq(WordSet) : h = <<x, y>> /\ Len(h) = 2 /\ h[1] = x /\ h[2] = y
  <2>1. <<x, y>> \in Seq(WordSet)
    OBVIOUS
  <2>2. Len(<<x, y>>) = 2 /\ <<x, y>>[1] = x /\ <<x, y>>[2] = y
    OBVIOUS
  <2> QED BY <2>1, <2>2, Zenon
<1>11. PICK b : b = h \o v
  OBVIOUS
<1>12. b \in Seq(WordSet) /\ Len(b) = W /\ b[1] = x /\ b[2] = y
  BY <1>2, <1>9, <1>10, <1>11
<1>13. b = Block(size, d)
  BY <1>4, <1>5, <1>6, <1>10, <1>11 DEF Block
<1>14. DataBlock(b, n)
  BY <1>1, <1>4, <1>5, <1>12 DEF DataBlock
<1>15. FlattenSeq(b) = FlattenSeq(h) \o d
  BY <1>9, <1>11, FlatConcat
<1>16. PICK g \in Seq(Byte) : g = FlattenSeq(h) /\ Len(g) = 2 * Word
  BY <1>10, FlatWords
<1>17. ASSUME NEW k \in 1 .. size PROVE FlattenSeq(b)[2 * Word + k] = d[k]
  <2>1. PICK z \in Nat : z = 2 * Word
    BY <1>1
  <2>2. (g \o d)[z + k] = d[k]
    BY <1>3, <1>16, <2>1
  <2> QED BY <1>15, <1>16, <2>1, <2>2
<1>18. /\ Contents(b, n) \in Seq(Byte) /\ Len(Contents(b, n)) = size
       /\ \A k \in 1 .. size : Contents(b, n)[k] = FlattenSeq(b)[2 * Word + k]
  <2>1. Len(b) = n \div Word /\ ToNumber(b[1]) = size
    BY <1>2, <1>4, <1>12
  <2> QED BY <1>12, <1>14, <2>1, ContentsIs
<1> QED BY <1>2, <1>4, <1>12, <1>13, <1>14, <1>17, <1>18

(* The terminate block is there for nothing.                               *)
LEMMA TerminateIs ==
  ASSUME NEW n \in Sizes, n >= 3 * Word
  PROVE  LET b == TerminateBlock(n)
         IN /\ b \in Seq(WordSet) /\ Len(b) = n \div Word
            /\ b[2] = ServiceTag /\ b[3] = Terminate
            /\ Contents(b, n) = <<>>
<1>1. PICK W \in Nat : W = n \div Word /\ W >= 3
  BY SizeIs
<1>2. PICK x \in WordSet : x = ToWord(Word)
  BY Constants, WordFacts
<1>3. PICK y \in WordSet : y = ServiceTag
  BY WordFacts
<1>4. PICK z \in WordSet : z = Terminate
  BY WordFacts
<1>5. PICK o \in WordSet : o = ToWord(0)
  BY WordFacts
<1>6. PICK m \in Nat : m = W - 3
  BY <1>1
<1>7. PICK t : t = [i \in 1 .. m |-> o]
  OBVIOUS
<1>8. t \in Seq(WordSet) /\ Len(t) = m
  <2>1. t \in [1 .. m -> WordSet]
    BY <1>7
  <2> QED BY <2>1
<1>9. PICK h \in Seq(WordSet) :
        h = <<x, y, z>> /\ Len(h) = 3 /\ h[1] = x /\ h[2] = y /\ h[3] = z
  <2>1. <<x, y, z>> \in Seq(WordSet)
    OBVIOUS
  <2>2. /\ Len(<<x, y, z>>) = 3 /\ <<x, y, z>>[1] = x
        /\ <<x, y, z>>[2] = y /\ <<x, y, z>>[3] = z
    OBVIOUS
  <2> QED BY <2>1, <2>2, Zenon
<1>10. PICK b : b = h \o t
  OBVIOUS
<1>11. b \in Seq(WordSet) /\ Len(b) = W /\ b[2] = y /\ b[3] = z
  BY <1>1, <1>6, <1>8, <1>9, <1>10
<1>12. b = TerminateBlock(n)
  BY <1>1, <1>2, <1>3, <1>4, <1>5, <1>6, <1>7, <1>9, <1>10 DEF TerminateBlock
<1>13. Contents(b, n) = <<>>
  BY <1>3, <1>11, WordFacts DEF Contents
<1> QED BY <1>1, <1>3, <1>4, <1>11, <1>12, <1>13

-----------------------------------------------------------------------------
(* Files of blocks.                                                        *)
LEMMA FilledMore ==
  ASSUME NEW n \in Sizes, NEW w \in Seq(WordSet), Filled(w, n, TRUE),
         NEW b \in Seq(WordSet), Len(b) = n \div Word, DataBlock(b, n),
         NEW more \in BOOLEAN, more => FullBlock(b, n)
  PROVE  /\ w \o b \in Seq(WordSet) /\ Filled(w \o b, n, more)
         /\ Len(w \o b) = Len(w) + (n \div Word)
         /\ Pay(w \o b, n, Blocks(w \o b, n))
              = Pay(w, n, Blocks(w, n)) \o Contents(b, n)
<1>1. PICK N \in Nat : N = Blocks(w, n)
  BY BlocksIs
<1>2. PICK v : v = w \o b
  OBVIOUS
<1>3. Len(w) = Blocks(w, n) * (n \div Word)
  BY DEF Filled
<1>4. /\ v \in Seq(WordSet) /\ Blocks(v, n) = N + 1
      /\ Len(v) = Blocks(v, n) * (n \div Word)
      /\ Begins(w, v) /\ BlockOf(v, n, N + 1) = b
  BY <1>1, <1>2, <1>3, BlockAppend
<1>5. \A i \in 1 .. N : BlockOf(v, n, i) = BlockOf(w, n, i)
  <2>1. \A i \in 1 .. N : BlockOf(w, n, i) = BlockOf(v, n, i)
    BY <1>1, <1>4, BlockBegins
  <2> QED BY <2>1
<1>6. Filled(v, n, more)
  <2> SUFFICES ASSUME NEW i \in 1 .. N + 1
               PROVE  /\ DataBlock(BlockOf(v, n, i), n)
                      /\ i < N + 1 \/ more => FullBlock(BlockOf(v, n, i), n)
    BY <1>4 DEF Filled
  <2>1. CASE i = N + 1
    BY <1>4, <2>1
  <2>2. CASE i # N + 1
    <3>1. i \in 1 .. N
      BY <1>1, <2>2
    <3>2. DataBlock(BlockOf(w, n, i), n) /\ FullBlock(BlockOf(w, n, i), n)
      BY <1>1, <3>1 DEF Filled
    <3> QED BY <1>5, <3>1, <3>2
  <2> QED BY <2>1, <2>2
<1>7. Pay(v, n, N + 1) = Pay(w, n, N) \o Contents(b, n)
  <2>1. N \in 0 .. Blocks(v, n) - 1 /\ N \in 0 .. Blocks(w, n)
    BY <1>1, <1>4
  <2>2. Pay(v, n, N + 1) = Pay(v, n, N) \o Contents(BlockOf(v, n, N + 1), n)
    BY <1>4, <2>1, PayIs
  <2>3. Pay(w, n, N) = Pay(v, n, N)
    BY <1>4, <2>1, PayBegins
  <2> QED BY <1>4, <2>2, <2>3
<1>8. Len(w \o b) = Len(w) + (n \div Word)
  OBVIOUS
<1> QED BY <1>1, <1>2, <1>4, <1>6, <1>7, <1>8

(* Data blocks, and the terminate block behind them.                       *)
LEMMA FilledEnds ==
  ASSUME NEW n \in Sizes, n >= 3 * Word, NEW w \in Seq(WordSet),
         Filled(w, n, FALSE)
  PROVE  LET v == w \o TerminateBlock(n)
         IN /\ v \in Seq(WordSet) /\ Shape(v, n) /\ WellFormed(Ds8(n, v, FALSE))
            /\ Pay(v, n, Blocks(v, n)) = Pay(w, n, Blocks(w, n))
<1>1. PICK N \in Nat : N = Blocks(w, n)
  BY BlocksIs
<1>2. PICK b \in Seq(WordSet) :
        /\ b = TerminateBlock(n) /\ Len(b) = n \div Word /\ Contents(b, n) = <<>>
  BY TerminateIs
<1>3. PICK v : v = w \o b
  OBVIOUS
<1>4. Len(w) = Blocks(w, n) * (n \div Word)
  BY DEF Filled
<1>5. /\ v \in Seq(WordSet) /\ Blocks(v, n) = N + 1
      /\ Len(v) = Blocks(v, n) * (n \div Word)
      /\ Begins(w, v) /\ BlockOf(v, n, N + 1) = b
  BY <1>1, <1>2, <1>3, <1>4, BlockAppend
<1>6. ASSUME NEW i \in 1 .. N
      PROVE  /\ DataBlock(BlockOf(v, n, i), n)
             /\ i < N => FullBlock(BlockOf(v, n, i), n)
  <2>1. BlockOf(w, n, i) = BlockOf(v, n, i)
    BY <1>1, <1>5, BlockBegins
  <2>2. DataBlock(BlockOf(w, n, i), n) /\ (i < N => FullBlock(BlockOf(w, n, i), n))
    BY <1>1 DEF Filled
  <2> QED BY <2>1, <2>2
<1>7. Shape(v, n)
  <2> SUFFICES ASSUME NEW i \in 1 .. N + 1
               PROVE  \/ /\ DataBlock(BlockOf(v, n, i), n)
                         /\ i < N => FullBlock(BlockOf(v, n, i), n)
                      \/ i = N + 1 /\ BlockOf(v, n, i) = TerminateBlock(n)
    BY <1>1, <1>5 DEF Shape
  <2>1. CASE i = N + 1
    BY <1>2, <1>5, <2>1
  <2>2. CASE i # N + 1
    BY <1>1, <1>6, <2>2
  <2> QED BY <2>1, <2>2
<1>8. WellFormed(Ds8(n, v, FALSE))
  <2> DEFINE f == Ds8(n, v, FALSE)
  <2>1. f.cut = FALSE /\ f.data = v /\ f.block = n
    BY DEF Ds8
  <2> HIDE DEF f
  <2>2. N + 1 > 0 /\ Len(v) * Word = (N + 1) * n
    <3>1. PICK W \in Nat : W = n \div Word /\ n = W * Word
      BY SizeIs
    <3>2. Word \in Nat
      BY Constants
    <3>3. ((N + 1) * W) * Word = (N + 1) * (W * Word)
      BY <3>1, <3>2
    <3> QED BY <1>5, <3>1, <3>3
  <2>3. \A k \in 1 .. N :
          /\ BlockOf(v, n, k)[2] = DataTag
          /\ ToNumber(BlockOf(v, n, k)[1]) \in 0 .. n - 2 * Word
          /\ k < N => ToNumber(BlockOf(v, n, k)[1]) = n - 2 * Word
    BY <1>6 DEF DataBlock, FullBlock
  <2>4. Blocks(v, n) - 1 = N
    BY <1>5
  <2>5. WellFormed(f)
    BY <1>2, <1>5, <2>1, <2>2, <2>3, <2>4 DEF WellFormed
  <2> QED BY <2>5 DEF f
<1>9. Pay(v, n, N + 1) = Pay(w, n, N)
  <2>1. N \in 0 .. Blocks(v, n) - 1 /\ N \in 0 .. Blocks(w, n)
    BY <1>1, <1>5
  <2>2. Pay(v, n, N + 1) = Pay(v, n, N) \o Contents(BlockOf(v, n, N + 1), n)
    BY <1>5, <2>1, PayIs
  <2>3. Pay(w, n, N) = Pay(v, n, N) /\ Pay(w, n, N) \in Seq(Byte)
    BY <1>1, <1>5, <2>1, PayBegins, PayIs
  <2>4. PICK p \in Seq(Byte) : p = Pay(w, n, N)
    BY <2>3
  <2>5. p \o <<>> = p
    OBVIOUS
  <2> QED BY <1>2, <1>5, <2>2, <2>3, <2>4, <2>5
<1> QED BY <1>1, <1>2, <1>3, <1>5, <1>7, <1>8, <1>9

(* The shape of data blocks, and of the beginning of a file that has it.   *)
LEMMA Shapes ==
  ASSUME NEW n \in Sizes, NEW w \in Seq(WordSet)
  PROVE  /\ Filled(w, n, FALSE) \/ Filled(w, n, TRUE) => Shape(w, n)
         /\ \A v \in Seq(WordSet) : Begins(v, w) /\ Shape(w, n) => Shape(v, n)
<1>1. PICK N \in Nat : N = Blocks(w, n)
  BY BlocksIs
<1>2. ASSUME Filled(w, n, FALSE) \/ Filled(w, n, TRUE) PROVE Shape(w, n)
  BY <1>1, <1>2 DEF Filled, Shape
<1>3. ASSUME NEW v \in Seq(WordSet), Begins(v, w), Shape(w, n) PROVE Shape(v, n)
  <2>1. PICK M \in Nat : M = Blocks(v, n) /\ M <= N
    BY <1>1, <1>3, BlocksIs, BlockBegins
  <2> SUFFICES ASSUME NEW i \in 1 .. M
               PROVE  \/ DataBlock(BlockOf(v, n, i), n)
                           /\ (i < M - 1 => FullBlock(BlockOf(v, n, i), n))
                      \/ i = M /\ BlockOf(v, n, i) = TerminateBlock(n)
    BY <2>1 DEF Shape
  <2>2. BlockOf(v, n, i) = BlockOf(w, n, i)
    BY <1>3, <2>1, BlockBegins
  <2>3. i \in 1 .. N
    BY <2>1
  <2>4. \/ DataBlock(BlockOf(w, n, i), n)
             /\ (i < N - 1 => FullBlock(BlockOf(w, n, i), n))
        \/ i = N /\ BlockOf(w, n, i) = TerminateBlock(n)
    BY <1>1, <1>3, <2>3 DEF Shape
  <2>5. (i < M - 1 => i < N - 1) /\ (i = N => i = M)
    BY <2>1
  <2> QED BY <2>2, <2>4, <2>5
<1> QED BY <1>2, <1>3

-----------------------------------------------------------------------------
(* The two preorders, with the lengths as numbers.                         *)
LEMMA FromIs ==
  ASSUME NEW a \in Seq(Byte), NEW b \in Seq(Byte)
  PROVE  /\ From(a, b) <=>
              /\ Len(b) <= RoundUp(Len(a))
              /\ \A k \in Nat \ {0} :
                   k <= RoundUp(Len(b)) - Word /\ k <= Len(a) => b[k] = a[k]
         /\ Keeps(a, b) <=>
              /\ Len(b) \in {Down(Len(a)), Len(a), RoundUp(Len(a))}
              /\ \A k \in Nat \ {0} : k <= Len(b) /\ k <= Len(a) => b[k] = a[k]
<1>1. PICK l \in Nat : l = Len(a)
  OBVIOUS
<1>2. PICK m \in Nat : m = Len(b)
  OBVIOUS
<1>3. PICK u \in Nat : u = RoundUp(m)
  BY Rounding
<1>4. PICK x \in Int : x = u - Word
  BY Constants
<1>5. \A y \in Int : \A k : k \in 1 .. AtMost(y, l) <=> k \in Nat \ {0} /\ k <= y /\ k <= l
  BY DEF AtMost
<1>6. SameTo(a, b, AtMost(x, l)) <=>
        \A k \in Nat \ {0} : k <= x /\ k <= l => b[k] = a[k]
  BY <1>5 DEF SameTo
<1>7. SameTo(a, b, AtMost(m, l)) <=>
        \A k \in Nat \ {0} : k <= m /\ k <= l => b[k] = a[k]
  BY <1>5 DEF SameTo
<1>8. From(a, b) <=> m <= RoundUp(l) /\ SameTo(a, b, AtMost(x, l))
  BY <1>1, <1>2, <1>3, <1>4 DEF From
<1>9. Keeps(a, b) <=> m \in {Down(l), l, RoundUp(l)} /\ SameTo(a, b, AtMost(m, l))
  BY <1>1, <1>2 DEF Keeps
<1> QED BY <1>1, <1>2, <1>3, <1>4, <1>6, <1>7, <1>8, <1>9

(* A last word that is not complete does not count.                        *)
LEMMA Preorders ==
  ASSUME NEW a \in Seq(Byte), NEW b \in Seq(Byte), NEW c \in Seq(Byte)
  PROVE  /\ Keeps(a, a) /\ (Keeps(a, b) => From(a, b))
         /\ From(a, b) /\ From(b, c) => From(a, c)
         /\ Keeps(a, b) /\ Keeps(b, c) => Keeps(a, c)
         /\ Begins(b, a) => From(a, b)
<1>1. PICK l \in Nat : l = Len(a)
  OBVIOUS
<1>2. PICK m \in Nat : m = Len(b)
  OBVIOUS
<1>3. PICK n \in Nat : n = Len(c)
  OBVIOUS
<1>4. PICK la \in Nat : la = Down(l) /\ la <= l
  BY Rounding
<1>5. PICK ua \in Nat : ua = RoundUp(l) /\ l <= ua
  BY Rounding
<1>6. PICK lb \in Nat : lb = Down(m) /\ lb <= m
  BY Rounding
<1>7. PICK ub \in Nat : ub = RoundUp(m) /\ m <= ub /\ ub < m + Word
  BY Rounding
<1>8. PICK uc \in Nat : uc = RoundUp(n) /\ n <= uc /\ uc < n + Word
  BY Rounding
<1>9. Word \in Nat \ {0}
  BY Constants
<1>10. (m <= l => ub <= ua) /\ (m <= ua => ub <= ua) /\ (n <= ub => uc <= ub)
  BY <1>5, <1>7, <1>8, RoundingOrder
<1>11. (m = la => lb = la /\ ub = la) /\ (m = ua => lb = ua /\ ub = ua)
       /\ (m = l => lb = la /\ ub = ua)
  <2>1. la % Word = 0 /\ ua % Word = 0
    BY <1>4, <1>5, RoundingOrder
  <2>2. m % Word = 0 => Down(m) = m /\ RoundUp(m) = m
    BY Rounding
  <2> QED BY <1>4, <1>5, <1>6, <1>7, <2>1, <2>2
<1>12. From(a, b) <=>
         m <= ua /\ \A k \in Nat \ {0} : k <= ub - Word /\ k <= l => b[k] = a[k]
  BY <1>1, <1>2, <1>5, <1>7, FromIs
<1>13. From(b, c) <=>
         n <= ub /\ \A k \in Nat \ {0} : k <= uc - Word /\ k <= m => c[k] = b[k]
  BY <1>2, <1>3, <1>7, <1>8, FromIs
<1>14. From(a, c) <=>
         n <= ua /\ \A k \in Nat \ {0} : k <= uc - Word /\ k <= l => c[k] = a[k]
  BY <1>1, <1>3, <1>5, <1>8, FromIs
<1>15. Keeps(a, b) <=>
         m \in {la, l, ua} /\ \A k \in Nat \ {0} : k <= m /\ k <= l => b[k] = a[k]
  BY <1>1, <1>2, <1>4, <1>5, FromIs
<1>16. Keeps(b, c) <=>
         n \in {lb, m, ub} /\ \A k \in Nat \ {0} : k <= n /\ k <= m => c[k] = b[k]
  BY <1>2, <1>3, <1>6, <1>7, FromIs
<1>17. Keeps(a, c) <=>
         n \in {la, l, ua} /\ \A k \in Nat \ {0} : k <= n /\ k <= l => c[k] = a[k]
  BY <1>1, <1>3, <1>4, <1>5, FromIs
<1>18. Keeps(a, a)
  BY FromIs
<1>19. Keeps(a, b) => From(a, b)
  BY <1>4, <1>5, <1>7, <1>9, <1>12, <1>15
<1>20. ASSUME From(a, b), From(b, c) PROVE From(a, c)
  <2>1. n <= ua /\ uc <= ub
    BY <1>8, <1>10, <1>12, <1>13, <1>20
  <2>2. ASSUME NEW k \in Nat \ {0}, k <= uc - Word, k <= l PROVE c[k] = a[k]
    <3>1. k <= ub - Word /\ k <= m
      BY <1>7, <1>9, <2>1, <2>2
    <3> QED BY <1>12, <1>13, <1>20, <2>2, <3>1
  <2> QED BY <1>14, <2>1, <2>2
<1>21. ASSUME Keeps(a, b), Keeps(b, c) PROVE Keeps(a, c)
  <2>1. n \in {la, l, ua}
    BY <1>11, <1>15, <1>16, <1>21
  <2>2. ASSUME NEW k \in Nat \ {0}, k <= n, k <= l PROVE c[k] = a[k]
    <3>1. k <= m
      BY <1>4, <1>5, <1>11, <1>15, <1>16, <1>21, <2>2
    <3> QED BY <1>15, <1>16, <1>21, <2>2, <3>1
  <2> QED BY <1>17, <2>1, <2>2
<1>22. ASSUME Begins(b, a) PROVE From(a, b)
  <2>1. m <= l /\ \A k \in 1 .. m : b[k] = a[k]
    BY <1>1, <1>2, <1>22 DEF Begins, SameTo
  <2>2. \A k \in Nat \ {0} : k <= ub - Word => k \in 1 .. m
    BY <1>7, <1>9
  <2> QED BY <1>5, <1>12, <2>1, <2>2
<1> QED BY <1>18, <1>19, <1>20, <1>21, <1>22

-----------------------------------------------------------------------------
(* What a file is there for, by its type.                                  *)
LEMMA PayloadIs ==
  ASSUME NEW f \in File
  PROVE  /\ Payload(f) \in Seq(Byte)
         /\ f.type = "bin" => f.data \in Seq(Byte) /\ Payload(f) = f.data
         /\ f.type = "hex" =>
              /\ f.data \in Seq(WordSet \cup {Bad})
              /\ Payload(f) = FlattenSeq(SubSeq(f.data, 1, Readable(f.data)))
         /\ f.type = "ds8" =>
              /\ f.block \in Sizes /\ f.data \in Seq(WordSet) /\ f.cut \in BOOLEAN
              /\ f = Ds8(f.block, f.data, f.cut)
              /\ Payload(f) = Pay(f.data, f.block, Blocks(f.data, f.block))
<1>1. CASE f \in BinFile
  <2>1. f.type = "bin" /\ f.data \in Seq(Byte)
    BY <1>1 DEF BinFile
  <2>2. Payload(f) = f.data
    BY <2>1 DEF Payload
  <2> QED BY <2>1, <2>2
<1>2. CASE f \in HexFile
  <2>1. f.type = "hex" /\ f.data \in Seq(WordSet \cup {Bad})
    BY <1>2 DEF HexFile
  <2>2. Payload(f) = FlattenSeq(SubSeq(f.data, 1, Readable(f.data)))
    BY <2>1 DEF Payload
  <2>3. SubSeq(f.data, 1, Readable(f.data)) \in Seq(WordSet)
    <3>1. Readable(f.data) \in 0 .. Readable(f.data)
      BY <2>1, ReadableIs
    <3> QED BY <2>1, <3>1, ReadableIs
  <2>4. FlattenSeq(SubSeq(f.data, 1, Readable(f.data))) \in Seq(Byte)
    BY <2>3, FlatWords
  <2> QED BY <2>1, <2>2, <2>4
<1>3. CASE f \in Ds8File
  <2>1. f.type = "ds8" /\ f.block \in Sizes /\ f.data \in Seq(WordSet) /\ f.cut \in BOOLEAN
    BY <1>3 DEF Ds8File
  <2>2. f = Ds8(f.block, f.data, f.cut)
    BY <1>3 DEF Ds8File, Ds8
  <2>3. Payload(f) = Pay(f.data, f.block, Blocks(f.data, f.block))
    BY <2>1 DEF Payload, Pay
  <2>4. Blocks(f.data, f.block) \in 0 .. Blocks(f.data, f.block)
    BY <2>1, BlocksIs
  <2>5. Pay(f.data, f.block, Blocks(f.data, f.block)) \in Seq(Byte)
    BY <2>1, <2>4, PayIs
  <2> QED BY <2>1, <2>2, <2>3, <2>5
<1> QED BY <1>1, <1>2, <1>3 DEF File

(* A hex file of words only.                                               *)
LEMMA HexPayload ==
  ASSUME NEW w \in Seq(WordSet)
  PROVE  /\ Hex(w) \in HexOut /\ Hex(w) \in File /\ Hex(w).data = w
         /\ Payload(Hex(w)) = FlattenSeq(w)
<1>1. Hex(w).type = "hex" /\ Hex(w).data = w
  BY DEF Hex
<1>2. w \in Seq(WordSet \cup {Bad})
  OBVIOUS
<1>3. Hex(w) \in HexOut /\ Hex(w) \in File
  BY <1>2 DEF Hex, HexOut, HexFile, File
<1>4. Readable(w) = Len(w)
  BY <1>2, ReadableIs
<1>5. SubSeq(w, 1, Len(w)) = w
  OBVIOUS
<1> QED BY <1>1, <1>3, <1>4, <1>5, PayloadIs

(* The first words of a hex file.                                          *)
LEMMA FlatBegins ==
  ASSUME NEW w \in Seq(WordSet), NEW v \in Seq(WordSet), Begins(v, w)
  PROVE  Begins(FlattenSeq(v), FlattenSeq(w))
<1>1. Len(v) <= Len(w) /\ \A i \in 1 .. Len(v) : v[i] = w[i]
  BY DEF Begins, SameTo
<1>2. PICK k \in Nat : k = Len(v)
  OBVIOUS
<1>3. SubSeq(w, 1, k) = v
  <2>1. PICK z \in Nat : z = 0
    OBVIOUS
  <2>2. /\ SubSeq(w, z + 1, k) \in Seq(WordSet) /\ Len(SubSeq(w, z + 1, k)) = k - z
        /\ \A i \in 1 .. k - z : SubSeq(w, z + 1, k)[i] = w[z + i]
    BY <1>1, <1>2, <2>1, SubIs
  <2>3. k - z = k /\ z + 1 = 1 /\ \A i \in 1 .. k : z + i = i
    BY <2>1
  <2>4. \A i \in 1 .. k : SubSeq(w, 1, k)[i] = v[i]
    BY <1>1, <1>2, <2>2, <2>3
  <2> QED BY <1>2, <2>2, <2>3, <2>4, SeqEqual
<1>4. PICK x \in Nat : x = k * Word
  BY Constants
<1>5. PICK y \in Nat : y = Len(w) * Word
  BY Constants
<1>6. FlattenSeq(v) \in Seq(Byte) /\ Len(FlattenSeq(v)) = x
  BY <1>2, <1>4, FlatWords
<1>7. FlattenSeq(w) \in Seq(Byte) /\ Len(FlattenSeq(w)) = y
  BY <1>5, FlatWords
<1>8. x <= y
  <2>1. (Len(w) - k) * Word >= 0 /\ (Len(w) - k) * Word = y - x
    BY <1>1, <1>2, <1>4, <1>5, Constants
  <2> QED BY <2>1
<1>9. ASSUME NEW p \in 1 .. x PROVE FlattenSeq(v)[p] = FlattenSeq(w)[p]
  <2>1. PICK i \in 1 .. k, o \in 1 .. Word : p = (i - 1) * Word + o
    BY <1>4, Position
  <2>2. FlattenSeq(v)[p] = v[i][o]
    BY <1>2, <2>1, FlatWords
  <2>3. FlattenSeq(w)[p] = w[i][o]
    <3>1. i \in 1 .. Len(w)
      BY <1>1, <1>2
    <3> QED BY <2>1, <3>1, FlatWords
  <2> QED BY <1>1, <1>2, <2>1, <2>2, <2>3
<1> QED BY <1>6, <1>7, <1>8, <1>9 DEF Begins, SameTo

(* What is left of a file when the end of it is lost.                      *)
Whole == BinFile \cup HexOut \cup Ds8File
(* A file whose end is lost is the beginning of what it should be.         *)
LEMMA CutsAreBeginnings ==
  ASSUME NEW f \in Whole, NEW g \in Cuts(f)
  PROVE  /\ f \in File /\ g \in Whole /\ g.type = f.type
         /\ f.type = "ds8" => g.block = f.block /\ Begins(g.data, f.data)
         /\ From(Payload(f), Payload(g))
<1>1. CASE f \in BinFile
  <2>1. f.type = "bin" /\ f.data \in Seq(Byte) /\ f \in File
    BY <1>1 DEF BinFile, File
  <2>2. PICK k \in 0 .. Len(f.data) - 1 : g = Bin(SubSeq(f.data, 1, k))
    BY <2>1 DEF Cuts
  <2>3. k \in 0 .. Len(f.data)
    BY <2>1
  <2>4. SubSeq(f.data, 1, k) \in Seq(Byte) /\ Begins(SubSeq(f.data, 1, k), f.data)
    BY <2>1, <2>3, BeginsOrder
  <2>5. g \in BinFile /\ g \in File /\ g.type = "bin" /\ g.data = SubSeq(f.data, 1, k)
    BY <2>2, <2>4 DEF Bin, BinFile, File
  <2>6. Payload(f) = f.data /\ Payload(g) = SubSeq(f.data, 1, k)
    BY <2>1, <2>5, PayloadIs
  <2>7. From(Payload(f), Payload(g))
    BY <2>1, <2>4, <2>6, Preorders
  <2> QED BY <2>1, <2>5, <2>7 DEF Whole
<1>2. CASE f \in HexOut
  <2>1. PICK w \in Seq(WordSet) : w = f.data /\ f = Hex(w) /\ f.type = "hex"
    BY <1>2 DEF HexOut, Hex
  <2>2. PICK k \in 0 .. Len(w) - 1 : \/ g = Hex(SubSeq(w, 1, k))
                                     \/ g = Hex(Append(SubSeq(w, 1, k), Tag))
    BY <2>1 DEF Cuts
  <2>3. PICK v \in Seq(WordSet) : v = SubSeq(w, 1, k) /\ Begins(v, w) /\ Len(v) = k
    <3>1. k \in 0 .. Len(w)
      OBVIOUS
    <3>2. SubSeq(w, 1, k) \in Seq(WordSet) /\ Begins(SubSeq(w, 1, k), w)
      BY <3>1, BeginsOrder
    <3>3. Len(SubSeq(w, 1, k)) = k
      BY <3>1
    <3> QED BY <3>2, <3>3
  <2>4. PICK a \in Seq(Byte) : a = FlattenSeq(w) /\ a = Payload(f)
    BY <2>1, HexPayload, FlatWords
  <2>5. f \in File
    BY <2>1, HexPayload
  <2>6. PICK b \in Seq(Byte) : b = FlattenSeq(v) /\ Begins(b, a)
    BY <2>3, <2>4, FlatBegins, FlatWords
  <2>7. CASE g = Hex(v)
    <3>1. g \in HexOut /\ g.type = "hex" /\ Payload(g) = b
      BY <2>6, <2>7, HexPayload DEF Hex
    <3>2. From(a, b)
      BY <2>6, Preorders
    <3> QED BY <2>1, <2>4, <2>5, <3>1, <3>2 DEF Whole
  <2>8. CASE g = Hex(Append(v, Tag))
    <3>1. PICK t \in WordSet : t = Tag
      BY WordFacts
    <3>2. PICK u \in Seq(WordSet) : u = Append(v, t)
      <4>1. Append(v, t) \in Seq(WordSet)
        BY AppendProperties
      <4> QED BY <4>1
    <3>3. Len(u) = k + 1 /\ Begins(v, u)
      BY <2>3, <3>2 DEF Begins, SameTo
    <3>4. PICK c \in Seq(Byte) : c = FlattenSeq(u) /\ Begins(b, c)
      BY <2>6, <3>3, FlatBegins, FlatWords
    <3>5. g \in HexOut /\ g.type = "hex" /\ Payload(g) = c
      BY <2>8, <3>1, <3>2, <3>4, HexPayload DEF Hex
    <3>6. PICK x \in Nat : x = k * Word /\ Len(b) = x
      <4>1. Word \in Nat /\ k \in Nat
        BY Constants
      <4>2. k * Word \in Nat
        BY <4>1
      <4>3. Len(b) = k * Word
        BY <2>3, <2>6, FlatWords
      <4> QED BY <4>2, <4>3
    <3>7. Len(c) = x + Word
      <4>1. Len(c) = (k + 1) * Word
        BY <3>3, <3>4, FlatWords
      <4> QED BY <3>6, <4>1, Constants
    <3>8. x + Word <= Len(a)
      <4>1. PICK n \in Nat : n = Len(w) /\ k \in 0 .. n - 1
        OBVIOUS
      <4>2. Word \in Nat
        BY Constants
      <4>3. Len(a) = n * Word
        BY <2>4, <4>1, FlatWords
      <4>4. PICK y \in Nat : y = n * Word
        BY <4>2
      <4>5. PICK j \in Nat : j = n - k - 1
        <5>1. k \in Int /\ 0 <= k /\ k <= n - 1
          BY <4>1
        <5>2. n - k - 1 \in Nat
          BY <5>1
        <5> QED BY <5>2
      <4>6. PICK z \in Nat : z = j * Word
        BY <4>2
      <4>7. z = y - x - Word
        BY <3>6, <4>1, <4>2, <4>4, <4>5, <4>6
      <4>8. Len(a) = y
        BY <4>3, <4>4
      <4> QED BY <3>6, <4>2, <4>7, <4>8
    <3>9. RoundUp(Len(c)) = x + Word
      <4>1. x + Word = (k + 1) * Word /\ k + 1 \in Nat /\ x + Word \in Nat
        BY <3>6, Constants
      <4>2. (x + Word) % Word = 0
        BY <4>1, Multiple
      <4> QED BY <3>7, <4>1, <4>2, Rounding
    <3>10. Len(a) <= RoundUp(Len(a)) /\ RoundUp(Len(a)) \in Nat
      BY Rounding
    <3>11. From(a, c)
      <4>1. Len(c) <= RoundUp(Len(a))
        BY <3>6, <3>7, <3>8, <3>10, Constants
      <4>2. ASSUME NEW p \in Nat \ {0}, p <= RoundUp(Len(c)) - Word, p <= Len(a)
            PROVE  c[p] = a[p]
        <5>1. p \in 1 .. Len(b)
          BY <3>6, <3>9, <4>2, Constants
        <5>2. b[p] = c[p] /\ b[p] = a[p]
          BY <2>6, <3>4, <5>1 DEF Begins, SameTo
        <5> QED BY <5>2
      <4> QED BY <4>1, <4>2, FromIs
    <3> QED BY <2>1, <2>4, <2>5, <3>5, <3>11 DEF Whole
  <2> QED BY <2>2, <2>3, <2>7, <2>8
<1>3. CASE f \in Ds8File
  <2>1. f.type = "ds8" /\ f \in File
    BY <1>3 DEF Ds8File, File
  <2>2. /\ f.block \in Sizes /\ f.data \in Seq(WordSet)
        /\ Payload(f) = Pay(f.data, f.block, Blocks(f.data, f.block))
    BY <2>1, PayloadIs
  <2>3. PICK k \in 0 .. Len(f.data) - 1 :
          g = Ds8(f.block, SubSeq(f.data, 1, k), k % (f.block \div Word) # 0)
    BY <2>1 DEF Cuts
  <2>4. PICK v \in Seq(WordSet) : v = SubSeq(f.data, 1, k) /\ Begins(v, f.data)
    <3>1. PICK w \in Seq(WordSet) : w = f.data
      BY <2>2
    <3>2. k \in 0 .. Len(w)
      BY <3>1
    <3>3. SubSeq(w, 1, k) \in Seq(WordSet) /\ Begins(SubSeq(w, 1, k), w)
      BY <3>2, BeginsOrder
    <3> QED BY <3>1, <3>3
  <2>5. g \in Ds8File /\ g.type = "ds8" /\ g.block = f.block /\ g.data = v
    BY <2>2, <2>3, <2>4 DEF Ds8, Ds8File
  <2>6. Payload(g) = Pay(v, f.block, Blocks(v, f.block))
    BY <2>5, PayloadIs DEF File
  <2>7. PICK j \in 0 .. Blocks(f.data, f.block) : j = Blocks(v, f.block)
    <3>1. Blocks(f.data, f.block) \in Nat /\ Blocks(v, f.block) \in Nat
      BY <2>2, BlocksIs
    <3>2. Blocks(v, f.block) <= Blocks(f.data, f.block)
      BY <2>2, <2>4, BlockBegins
    <3> QED BY <3>1, <3>2
  <2>8. Payload(g) = Pay(f.data, f.block, j)
    <3>1. j \in 0 .. Blocks(v, f.block)
      BY <2>2, <2>7, BlocksIs
    <3> QED BY <2>2, <2>4, <2>6, <2>7, <3>1, PayBegins
  <2>9. Begins(Payload(g), Payload(f))
    <3>1. PICK m \in 0 .. Blocks(f.data, f.block) : m = Blocks(f.data, f.block)
      BY <2>2, BlocksIs
    <3>2. j \in 0 .. m
      BY <2>7, <3>1
    <3> QED BY <2>2, <2>8, <3>1, <3>2, PayOrder
  <2>10. From(Payload(f), Payload(g))
    <3>1. Payload(f) \in Seq(Byte) /\ Payload(g) \in Seq(Byte)
      BY <2>1, <2>5, PayloadIs DEF File
    <3> QED BY <2>9, <3>1, Preorders
  <2> QED BY <2>1, <2>4, <2>5, <2>10 DEF Whole
<1> QED BY <1>1, <1>2, <1>3 DEF Whole
-----------------------------------------------------------------------------
(* What a conversion returns.  Straight: along the conversions and         *)
(* transfers by which the user keeps what the first file holds.            *)
Before   == made[call.from]
Carries  ==
  /\ Before.same
  /\ op = "transfer" => call.block = Source.block /\ input = Source.data
Straight == Carries /\ Before.plain /\ ~call.tag /\ call.from # call.to
Partial(f) ==
  /\ f \in Whole
  /\ Carries /\ f.type = "ds8" => Shape(f.data, f.block)
  /\ Straight => From(Payload(Source), Payload(f))
Entire(f) ==
  Before.ok /\ Before.whole =>
    /\ Carries /\ f.type = "ds8" => WellFormed(f)
    /\ Straight => Keeps(Payload(Source), Payload(f))

(* What a conversion under way is about: the last file.                    *)
LEMMA BusyIs ==
  ASSUME IInv, Busy
  PROVE  /\ root \in Seq(Byte) /\ files \in Seq(File) /\ made \in Seq(Entry)
         /\ Len(made) = Len(files) /\ Len(files) \in Nat \ {0}
         /\ call.from = Len(files) /\ call.from \in DOMAIN files
         /\ call.to \in {call.from, call.from + 1}
         /\ Source \in File /\ Before \in Entry /\ FileInv(call.from)
         /\ pos \in Nat
<1>1. /\ root \in Seq(Byte) /\ files \in Seq(File) /\ made \in Seq(Entry)
      /\ Len(made) = Len(files) /\ Len(files) \in Nat \ {0} /\ pos \in Nat
  BY DEF IInv, TypeInv
<1>2. call.from = Len(files) /\ call.to \in {call.from, call.from + 1}
  BY DEF IInv, CallInv
<1>3. call.from \in 1 .. Len(files)
  BY <1>1, <1>2
<1>4. Source \in File /\ Before \in Entry
  BY <1>1, <1>3 DEF Source, Before
<1>5. FileInv(call.from)
  BY <1>1, <1>3 DEF IInv, FilesInv
<1> QED BY <1>1, <1>2, <1>3, <1>4, <1>5

(* A conversion that returns such a file.                                  *)
LEMMA ReturnKeeps ==
  ASSUME IInv, Busy, NEW f, Partial(f), NEW ok \in BOOLEAN, NEW whole \in BOOLEAN,
         ok /\ whole => Entire(f), Return(f, ok, whole)
  PROVE  IInv'
<1>1. PICK n \in Nat \ {0} : n = Len(files) /\ n = Len(made) /\ call.from = n
  BY BusyIs
<1>2. PICK to \in {n, n + 1} : to = call.to
  BY <1>1, BusyIs
<1>3. files \in Seq(File) /\ made \in Seq(Entry) /\ root \in Seq(Byte)
      /\ Source \in File /\ Before \in Entry /\ FileInv(call.from)
  BY BusyIs
<1>4. f \in File
  BY DEF Partial, Whole, File, HexOut, HexFile
<1>5. op \in Ops /\ op # "given" /\ call.tag \in BOOLEAN
  BY DEF IInv, TypeInv, Ops
<1>6. PICK e \in Entry :
        /\ e.ok = (ok /\ Before.ok) /\ e.whole = (whole /\ Before.whole)
        /\ e.same = Carries
        /\ e.plain = (Before.plain /\ ~call.tag /\ call.from # call.to)
        /\ e.op = op
        /\ e = [ok    |-> ok /\ Before.ok, whole |-> whole /\ Before.whole,
                same  |-> /\ Before.same
                          /\ op = "transfer" =>
                               call.block = Source.block /\ input = Source.data,
                plain |-> Before.plain /\ ~call.tag /\ call.from # call.to,
                op    |-> op]
  <2> DEFINE d == [ok    |-> ok /\ Before.ok, whole |-> whole /\ Before.whole,
                   same  |-> /\ Before.same
                             /\ op = "transfer" =>
                                  call.block = Source.block /\ input = Source.data,
                   plain |-> Before.plain /\ ~call.tag /\ call.from # call.to,
                   op    |-> op]
  <2>1. /\ (ok /\ Before.ok) \in BOOLEAN /\ (whole /\ Before.whole) \in BOOLEAN
        /\ Carries \in BOOLEAN /\ op \in Ops \cup {"given"}
        /\ (Before.plain /\ ~call.tag /\ call.from # call.to) \in BOOLEAN
    BY <1>5, Zenon DEF Carries
  <2>2. d \in Entry
    BY <2>1 DEF Entry, Carries
  <2>3. /\ d.ok = (ok /\ Before.ok) /\ d.whole = (whole /\ Before.whole)
        /\ d.same = Carries /\ d.op = op
        /\ d.plain = (Before.plain /\ ~call.tag /\ call.from # call.to)
    BY DEF Carries
  <2> HIDE DEF d
  <2>4. d = [ok    |-> ok /\ Before.ok, whole |-> whole /\ Before.whole,
             same  |-> /\ Before.same
                       /\ op = "transfer" =>
                            call.block = Source.block /\ input = Source.data,
             plain |-> Before.plain /\ ~call.tag /\ call.from # call.to,
             op    |-> op]
    BY DEF d
  <2> QED BY <2>2, <2>3, <2>4
<1>7. /\ files' = IF to \in DOMAIN files THEN [files EXCEPT ![to] = f]
                                         ELSE Append(files, f)
      /\ made' = IF to \in DOMAIN made THEN [made EXCEPT ![to] = e]
                                       ELSE Append(made, e)
      /\ op' = "idle" /\ call' = Idle /\ pos' = 0 /\ exit' = FALSE /\ root' = root
  BY <1>2, <1>6 DEF Return, Before, Source
<1>8. /\ files' \in Seq(File) /\ Len(files') = to
      /\ \A i \in 1 .. to : files'[i] = IF i = to THEN f ELSE files[i]
  <2>0. f \in File /\ files \in Seq(File) /\ Len(files) = n
    BY <1>1, <1>3, <1>4
  <2>1. CASE to = n
    <3>1. files' = [files EXCEPT ![to] = f]
      BY <1>7, <2>0, <2>1
    <3> QED BY <2>0, <2>1, <3>1
  <2>2. CASE to = n + 1
    <3>1. files' = Append(files, f)
      BY <1>7, <2>0, <2>2
    <3> QED BY <2>0, <2>2, <3>1
  <2> QED BY <2>1, <2>2
<1>9. /\ made' \in Seq(Entry) /\ Len(made') = to
      /\ \A i \in 1 .. to : made'[i] = IF i = to THEN e ELSE made[i]
  <2>1. CASE to = n
    BY <1>1, <1>3, <1>7, <2>1
  <2>2. CASE to = n + 1
    BY <1>1, <1>3, <1>7, <2>2
  <2> QED BY <2>1, <2>2
<1>10. TypeInv'
  <2>1. Idle \in [from : Nat, to : Nat, block : Nat, tag : BOOLEAN, sockets : Nat]
    BY DEF Idle
  <2>2. root' \in Seq(Byte) /\ op' \in Ops /\ pos' \in Nat /\ exit' \in BOOLEAN
    BY <1>3, <1>7 DEF Ops
  <2>3. call' \in [from : Nat, to : Nat, block : Nat, tag : BOOLEAN, sockets : Nat]
    BY <1>7, <2>1
  <2>4. Len(files') > 0 /\ Len(made') = Len(files')
    BY <1>8, <1>9
  <2> QED BY <1>8, <1>9, <2>2, <2>3, <2>4 DEF TypeInv
<1>11. ASSUME NEW i \in 1 .. to PROVE FileInv(i)'
  <2>1. CASE i # to
    <3>1. i \in 1 .. n /\ files'[i] = files[i] /\ made'[i] = made[i]
      BY <1>8, <1>9, <2>1
    <3>2. FileInv(i)
      <4>1. DOMAIN files = 1 .. n
        <5>1. files \in Seq(File)
          BY <1>3
        <5>2. DOMAIN files = 1 .. Len(files)
          BY <5>1
        <5> QED BY <1>1, <5>2
      <4> QED BY <3>1, <4>1 DEF IInv, FilesInv
    <3> QED BY <1>7, <3>1, <3>2 DEF FileInv
  <2>2. CASE i = to
    <3>1. files'[i] = f /\ made'[i] = e
      BY <1>8, <1>9, <2>2
    <3>2. Carries /\ f.type = "ds8" =>
            /\ Shape(f.data, f.block)
            /\ e.ok /\ e.whole => WellFormed(f)
      BY <1>6 DEF Partial, Entire
    <3>3. ASSUME Carries, e.plain
          PROVE  /\ From(root, Payload(f))
                 /\ e.ok /\ e.whole => Keeps(root, Payload(f))
      <4>1. Straight /\ Before.plain /\ Before.same
        BY <1>6, <3>3 DEF Straight, Carries
      <4>2. /\ From(root, Payload(Source))
            /\ Before.ok /\ Before.whole => Keeps(root, Payload(Source))
        BY <1>3, <4>1 DEF FileInv, Before, Source
      <4>3. From(Payload(Source), Payload(f))
        BY <4>1 DEF Partial
      <4>4. e.ok /\ e.whole => Before.ok /\ Before.whole /\ Keeps(Payload(Source), Payload(f))
        BY <1>6, <4>1 DEF Entire
      <4>5. Payload(Source) \in Seq(Byte) /\ Payload(f) \in Seq(Byte)
        BY <1>3, <1>4, PayloadIs
      <4> QED BY <1>3, <4>2, <4>3, <4>4, <4>5, Preorders
    <3> QED BY <1>6, <1>7, <3>1, <3>2, <3>3 DEF FileInv
  <2> QED BY <2>1, <2>2
<1>12. FilesInv'
  <2>1. \A i \in DOMAIN files' : FileInv(i)'
    BY <1>8, <1>11
  <2>2. made'[1].op = "given" => root' = Payload(files'[1])
    <3>1. CASE to = 1
      BY <1>5, <1>6, <1>9, <3>1
    <3>2. CASE to # 1
      <4>1. files'[1] = files[1] /\ made'[1] = made[1]
        BY <1>8, <1>9, <3>2
      <4> QED BY <1>7, <4>1 DEF IInv, FilesInv
    <3> QED BY <3>1, <3>2
  <2> QED BY <2>1, <2>2 DEF FilesInv
<1>13. CallInv' /\ ProgressInv' /\ NoOverrun'
  BY <1>7 DEF CallInv, Busy, ProgressInv, NoOverrun
<1> QED BY <1>10, <1>12, <1>13 DEF IInv

(* The beginnings of such a file are such files too.                       *)
LEMMA CutsArePartial ==
  ASSUME IInv, Busy, NEW f, Partial(f), NEW g \in Cuts(f)
  PROVE  Partial(g)
<1>1. f \in Whole
  BY DEF Partial
<1>2. /\ f \in File /\ g \in Whole /\ g.type = f.type
      /\ f.type = "ds8" => g.block = f.block /\ Begins(g.data, f.data)
      /\ From(Payload(f), Payload(g))
  BY <1>1, CutsAreBeginnings
<1>3. g \in File
  BY <1>2 DEF Whole, File, HexOut, HexFile
<1>4. ASSUME Carries, g.type = "ds8" PROVE Shape(g.data, g.block)
  <2>1. Shape(f.data, f.block)
    BY <1>2, <1>4 DEF Partial
  <2>2. f.block \in Sizes /\ f.data \in Seq(WordSet) /\ g.data \in Seq(WordSet)
    BY <1>2, <1>3, <1>4, PayloadIs
  <2> QED BY <1>2, <1>4, <2>1, <2>2, Shapes
<1>5. ASSUME Straight PROVE From(Payload(Source), Payload(g))
  <2>1. From(Payload(Source), Payload(f))
    BY <1>5 DEF Partial
  <2>2. Source \in File
    BY BusyIs
  <2>3. /\ Payload(Source) \in Seq(Byte) /\ Payload(f) \in Seq(Byte)
        /\ Payload(g) \in Seq(Byte)
    BY <1>2, <1>3, <2>2, PayloadIs
  <2> QED BY <1>2, <2>1, <2>3, Preorders
<1> QED BY <1>2, <1>4, <1>5 DEF Partial

-----------------------------------------------------------------------------
(* What has been written is the beginning of a file, and the end of a      *)
(* conversion makes a whole file of it.                                    *)
LEMMA Ds8OutIs ==
  ASSUME IInv, Busy, NEW more \in BOOLEAN, Ds8Out(more),
         NEW p, Pay(out.data, call.block, OutBlocks) = p,
         Straight => Begins(p, Payload(Source))
  PROVE  LET e == [out EXCEPT !.data = @ \o TerminateBlock(call.block)]
         IN /\ Partial(out)
            /\ ~more /\ call.block >= 3 * Word /\ (Straight => p = Payload(Source))
                 => Partial(e) /\ Entire(e)
<1>1. PICK n \in Sizes : n = call.block
  BY DEF Ds8Out
<1>2. PICK w \in Seq(WordSet) : w = out.data
  BY DEF Ds8Out
<1>3. out = Ds8(n, w, FALSE) /\ Filled(w, n, more)
  BY <1>1, <1>2 DEF Ds8Out
<1>4. PICK a \in Seq(Byte) : a = Payload(Source)
  BY BusyIs, PayloadIs
<1>5. /\ out \in Ds8File /\ out.type = "ds8" /\ out.block = n /\ out.data = w
  BY <1>3 DEF Ds8, Ds8File
<1>6. Payload(out) = p /\ p \in Seq(Byte)
  <2>1. out \in File
    BY <1>5 DEF File
  <2> QED BY <1>1, <1>2, <1>5, <2>1, PayloadIs DEF OutBlocks
<1>7. Shape(w, n)
  BY <1>3, Shapes
<1>8. Straight => From(a, p)
  BY <1>4, <1>6, Preorders
<1>9. Partial(out)
  BY <1>4, <1>5, <1>6, <1>7, <1>8 DEF Partial, Whole
<1>10. ASSUME ~more, n >= 3 * Word, Straight => p = a
       PROVE  LET e == [out EXCEPT !.data = @ \o TerminateBlock(n)]
              IN Partial(e) /\ Entire(e)
  <2>1. PICK v : v = w \o TerminateBlock(n)
    OBVIOUS
  <2>2. /\ v \in Seq(WordSet) /\ Shape(v, n) /\ WellFormed(Ds8(n, v, FALSE))
        /\ Pay(v, n, Blocks(v, n)) = Pay(w, n, Blocks(w, n))
    BY <1>3, <1>10, <2>1, FilledEnds
  <2>3. PICK e : e = Ds8(n, v, FALSE)
    OBVIOUS
  <2>4. e = [out EXCEPT !.data = @ \o TerminateBlock(n)]
    <3>1. out = [type |-> "ds8", block |-> n, data |-> w, cut |-> FALSE]
      BY <1>3 DEF Ds8
    <3>2. e = [type |-> "ds8", block |-> n, data |-> v, cut |-> FALSE]
      BY <2>3 DEF Ds8
    <3>3. [out EXCEPT !.data = v] = [type |-> "ds8", block |-> n, data |-> v, cut |-> FALSE]
      <4>1. PICK o : o = [type |-> "ds8", block |-> n, data |-> w, cut |-> FALSE]
        OBVIOUS
      <4>2. PICK r : r = [o EXCEPT !.data = v]
        OBVIOUS
      <4>3. /\ DOMAIN r = {"type", "block", "data", "cut"}
            /\ r.type = "ds8" /\ r.block = n /\ r.data = v /\ r.cut = FALSE
        BY <4>1, <4>2
      <4>4. r = [type |-> "ds8", block |-> n, data |-> v, cut |-> FALSE]
        BY <4>1, <4>2, <4>3
      <4> QED BY <3>1, <4>1, <4>2, <4>4
    <3>4. [out EXCEPT !.data = @ \o TerminateBlock(n)] = [out EXCEPT !.data = v]
      BY <1>2, <2>1
    <3> QED BY <3>2, <3>3, <3>4
  <2>5. e \in Ds8File /\ e.type = "ds8" /\ e.block = n /\ e.data = v
    BY <2>2, <2>3 DEF Ds8, Ds8File
  <2>6. Payload(e) = p
    <3>1. e \in File
      BY <2>5 DEF File
    <3>2. Payload(e) = Pay(v, n, Blocks(v, n))
      BY <2>5, <3>1, PayloadIs
    <3> QED BY <1>1, <1>2, <2>2, <3>2 DEF OutBlocks
  <2>7. Partial(e)
    BY <1>4, <1>8, <2>2, <2>5, <2>6 DEF Partial, Whole
  <2>8. Entire(e)
    <3>1. Straight => Keeps(a, p)
      BY <1>4, <1>6, <1>10, Preorders
    <3> QED BY <1>4, <2>2, <2>3, <2>6, <3>1 DEF Entire
  <2> QED BY <2>4, <2>7, <2>8
<1> QED BY <1>1, <1>4, <1>9, <1>10

(* The output of file_bin_to_ds8.                                          *)
LEMMA BinToDs8Out ==
  ASSUME IInv, op = "bin_ds8"
  PROVE  Partial(out) /\ (Over => Partial(Ended) /\ Entire(Ended))
<1>1. Busy /\ BinToDs8Inv
  BY DEF IInv, ProgressInv, Busy
<1>2. PICK p : p = SubSeq(input, 1, pos)
  OBVIOUS
<1>3. PICK more \in BOOLEAN : pos < Len(input) <=> more
  OBVIOUS
<1>4. Ds8Out(more) /\ Pay(out.data, call.block, OutBlocks) = p
  BY <1>1, <1>2, <1>3 DEF BinToDs8Inv, Ds8Out, Filled
<1>5. Source \in File /\ Source.type = "bin" /\ pos \in Nat
  BY <1>1, BusyIs DEF IInv, CallInv
<1>6. Payload(Source) = Source.data /\ Source.data \in Seq(Byte)
  BY <1>5, PayloadIs
<1>7. Straight => input = Source.data
  BY <1>1 DEF Straight, IInv, CallInv
<1>8. pos <= Len(input) /\ call.block >= 3 * Word
  BY <1>1 DEF BinToDs8Inv
<1>9. Straight => Begins(p, Payload(Source))
  <2> SUFFICES ASSUME Straight PROVE Begins(p, Payload(Source))
    OBVIOUS
  <2>1. PICK s \in Seq(Byte) : s = input /\ s = Payload(Source)
    BY <1>6, <1>7
  <2>2. pos \in 0 .. Len(s)
    <3>1. pos \in Nat /\ pos <= Len(s)
      BY <1>5, <1>8, <2>1
    <3> QED BY <3>1
  <2> QED BY <1>2, <2>1, <2>2, BeginsOrder
<1>10. ASSUME Over PROVE ~more /\ (Straight => p = Payload(Source))
  <2>1. pos = Len(input)
    BY <1>10 DEF Over
  <2>2. ~more
    <3>1. pos \in Nat
      BY <1>5
    <3>2. ~(pos < Len(input))
      BY <2>1, <3>1
    <3> QED BY <1>3, <3>2
  <2> QED BY <1>2, <1>6, <1>7, <2>1, <2>2, SubAll
<1>11. Ended = [out EXCEPT !.data = @ \o TerminateBlock(call.block)]
  BY DEF Ended
<1> QED BY <1>1, <1>4, <1>8, <1>9, <1>10, <1>11, Ds8OutIs

(* What the words that can be read of a hex file are there for.            *)
LEMMA HexRead ==
  ASSUME NEW w \in Seq(WordSet \cup {Bad}), NEW k \in 0 .. Readable(w)
  PROVE  /\ FlattenSeq(SubSeq(w, 1, k)) \in Seq(Byte)
         /\ Len(FlattenSeq(SubSeq(w, 1, k))) = k * Word
         /\ Begins(FlattenSeq(SubSeq(w, 1, k)),
                   FlattenSeq(SubSeq(w, 1, Readable(w))))
<1>1. Readable(w) \in 0 .. Len(w)
  BY ReadableIs
<1>2. PICK v \in Seq(WordSet) : v = SubSeq(w, 1, k) /\ Len(v) = k
  BY ReadableIs
<1>3. PICK u \in Seq(WordSet) : u = SubSeq(w, 1, Readable(w)) /\ Len(u) = Readable(w)
  <2>1. Readable(w) \in 0 .. Readable(w)
    BY <1>1
  <2> QED BY <2>1, ReadableIs
<1>4. \A i \in 1 .. k : v[i] = u[i]
  <2>1. PICK z \in Nat : z = 0
    OBVIOUS
  <2>2. k \in Nat /\ z <= k /\ k <= Len(w)
    BY <1>1, <2>1
  <2>3. \A i \in 1 .. k - z : SubSeq(w, z + 1, k)[i] = w[z + i]
    BY <2>2, SubIs
  <2>4. Readable(w) \in Nat /\ z <= Readable(w) /\ Readable(w) <= Len(w)
    BY <1>1, <2>1
  <2>5. \A i \in 1 .. Readable(w) - z : SubSeq(w, z + 1, Readable(w))[i] = w[z + i]
    BY <2>4, SubIs
  <2>6. z + 1 = 1 /\ k - z = k /\ Readable(w) - z = Readable(w)
    BY <2>1, <2>2, <2>4
  <2>7. \A i \in 1 .. k : i \in 1 .. Readable(w)
    BY <1>1
  <2> QED BY <1>2, <1>3, <2>3, <2>5, <2>6, <2>7
<1>5. Begins(v, u)
  BY <1>1, <1>2, <1>3, <1>4 DEF Begins, SameTo
<1> QED BY <1>2, <1>3, <1>5, FlatBegins, FlatWords

(* The same of the input file of a conversion.                             *)
LEMMA HexInput ==
  ASSUME IInv, op \in {"hex_ds8", "hex_bin"}, pos <= Readable(input)
  PROVE  /\ Busy /\ input \in Seq(WordSet \cup {Bad}) /\ pos \in 0 .. Readable(input)
         /\ FlattenSeq(SubSeq(input, 1, pos)) \in Seq(Byte)
         /\ Straight => Begins(FlattenSeq(SubSeq(input, 1, pos)), Payload(Source))
         /\ Straight /\ pos = Readable(input) =>
              FlattenSeq(SubSeq(input, 1, pos)) = Payload(Source)
<1>1. Busy
  BY DEF Busy
<1>2. Source \in File /\ Source.type = "hex" /\ pos \in Nat
  BY <1>1, BusyIs DEF IInv, CallInv
<1>3. /\ Payload(Source) = FlattenSeq(SubSeq(Source.data, 1, Readable(Source.data)))
      /\ Source.data \in Seq(WordSet \cup {Bad})
  BY <1>2, PayloadIs
<1>4. Straight => input = Source.data
  BY <1>1 DEF Straight, IInv, CallInv
<1>5. input = <<>> \/ input = Source.data
  BY <1>1 DEF IInv, CallInv
<1>6. input \in Seq(WordSet \cup {Bad})
  BY <1>3, <1>5, SubAll
<1>7. pos \in 0 .. Readable(input)
  <2>1. Readable(input) \in 0 .. Len(input) /\ Len(input) \in Nat
    BY <1>6, ReadableIs
  <2>2. pos \in Nat
    BY <1>2
  <2> QED BY <2>1, <2>2
<1> QED BY <1>1, <1>3, <1>4, <1>6, <1>7, HexRead

(* The output of file_hex_to_ds8.                                          *)
LEMMA HexToDs8Out ==
  ASSUME IInv, op = "hex_ds8"
  PROVE  Partial(out) /\ (Over => Partial(Ended) /\ Entire(Ended))
<1>1. HexToDs8Inv
  BY DEF IInv, ProgressInv
<1>2. PICK p : p = FlattenSeq(SubSeq(input, 1, pos))
  OBVIOUS
<1>3. PICK more \in BOOLEAN : more = ~exit
  OBVIOUS
<1>4. Ds8Out(more) /\ Pay(out.data, call.block, OutBlocks) = p
  BY <1>1, <1>2, <1>3 DEF HexToDs8Inv
<1>5. /\ Busy /\ (Straight => Begins(p, Payload(Source)))
      /\ Straight /\ pos = Readable(input) => p = Payload(Source)
  BY <1>1, <1>2, HexInput DEF HexToDs8Inv
<1>6. Over => ~more /\ call.block >= 3 * Word /\ pos = Readable(input)
  BY <1>1, <1>3 DEF Over, HexToDs8Inv
<1>7. Ended = [out EXCEPT !.data = @ \o TerminateBlock(call.block)]
  BY DEF Ended
<1> QED BY <1>4, <1>5, <1>6, <1>7, Ds8OutIs

(* The output of file_hex_to_bin.                                          *)
LEMMA HexToBinOut ==
  ASSUME IInv, op = "hex_bin"
  PROVE  Partial(out) /\ (Over => Partial(Ended) /\ Entire(Ended))
<1>1. HexToBinInv
  BY DEF IInv, ProgressInv
<1>2. PICK p : p = FlattenSeq(SubSeq(input, 1, pos))
  OBVIOUS
<1>3. /\ Busy /\ (Straight => Begins(p, Payload(Source))) /\ p \in Seq(Byte)
      /\ Straight /\ pos = Readable(input) => p = Payload(Source)
  BY <1>1, <1>2, HexInput DEF HexToBinInv
<1>4. out \in BinFile /\ out \in File /\ out.type = "bin" /\ Payload(out) = p
  <2>1. out \in BinFile /\ out.data = p
    BY <1>1, <1>2 DEF HexToBinInv
  <2>2. out \in File /\ out.type = "bin"
    BY <2>1 DEF BinFile, File
  <2> QED BY <2>1, <2>2, PayloadIs
<1>5. PICK a \in Seq(Byte) : a = Payload(Source)
  BY <1>3, BusyIs, PayloadIs
<1>6. Partial(out)
  BY <1>3, <1>4, <1>5, Preorders DEF Partial, Whole
<1>7. Over => pos = Readable(input)
  BY <1>1 DEF Over, HexToBinInv
<1>8. Over => Entire(out)
  BY <1>3, <1>4, <1>5, <1>7, Preorders DEF Entire
<1>9. Ended = out
  BY DEF Ended
<1> QED BY <1>6, <1>8, <1>9

(* The output of file_bin_to_hex.                                          *)
LEMMA BinToHexOut ==
  ASSUME IInv, op = "bin_hex"
  PROVE  Partial(out) /\ (Over => Partial(Ended) /\ Entire(Ended))
<1>1. BinToHexInv /\ Busy
  BY DEF IInv, ProgressInv, Busy
<1>2. Source \in File /\ Source.type = "bin" /\ pos \in Nat
  BY <1>1, BusyIs DEF IInv, CallInv
<1>3. PICK a \in Seq(Byte) : a = Payload(Source) /\ a = Source.data
  BY <1>2, PayloadIs
<1>4. Straight => input = a /\ ~call.tag
  BY <1>1, <1>3 DEF Straight, IInv, CallInv
<1>5. PICK w \in Seq(WordSet) : w = out.data /\ out = Hex(w)
  BY <1>1 DEF BinToHexInv, HexOut, Hex
<1>6. /\ out \in HexOut /\ out.type = "hex" /\ Payload(out) = FlattenSeq(w)
  <2>1. Hex(w).type = "hex"
    BY DEF Hex
  <2> QED BY <1>5, <2>1, HexPayload
<1>7. PICK b \in Seq(Byte) : b = FlattenSeq(w)
  BY FlatWords
<1>8. ASSUME Straight
      PROVE  From(a, b) /\ (pos = Len(input) => Keeps(a, b))
  <2>1. /\ Len(w) * Word = RoundUp(pos) /\ pos <= Len(a)
        /\ SameTo(a, b, pos)
    BY <1>1, <1>4, <1>5, <1>7, <1>8 DEF BinToHexInv
  <2>2. Len(b) = RoundUp(pos)
    BY <1>7, <2>1, FlatWords
  <2>3. PICK u \in Nat : u = RoundUp(pos) /\ pos <= u /\ u < pos + Word
    BY <1>2, Rounding
  <2>4. RoundUp(u) = u
    <3>1. u % Word = 0
      BY <1>2, <2>3, RoundingOrder
    <3> QED BY <3>1, Rounding
  <2>5. u <= RoundUp(Len(a))
    <3>1. PICK l \in Nat : l = Len(a)
      OBVIOUS
    <3>2. pos \in Nat /\ pos <= l
      BY <1>2, <2>1, <3>1
    <3>3. RoundUp(pos) <= RoundUp(l)
      BY <3>2, RoundingOrder
    <3> QED BY <2>3, <3>1, <3>3
  <2>6. From(a, b)
    <3>1. \A k \in Nat \ {0} : k <= u - Word => k \in 1 .. pos
      <4>1. pos \in Nat /\ u < pos + Word /\ Word \in Nat
        BY <1>2, <2>3, Constants
      <4> QED BY <4>1
    <3> QED BY <2>1, <2>2, <2>3, <2>4, <2>5, <3>1, FromIs DEF SameTo
  <2>7. ASSUME pos = Len(input) PROVE Keeps(a, b)
    <3>1. pos = Len(a)
      BY <1>4, <1>8, <2>7
    <3>2. Len(b) = RoundUp(Len(a))
      BY <2>2, <3>1
    <3>3. \A k \in Nat \ {0} : k <= Len(a) => b[k] = a[k]
      <4>1. pos \in Nat
        BY <1>2
      <4>2. \A k \in Nat \ {0} : k <= Len(a) => k \in 1 .. pos
        BY <3>1, <4>1
      <4> QED BY <2>1, <4>2 DEF SameTo
    <3> QED BY <3>2, <3>3, FromIs
  <2> QED BY <2>6, <2>7
<1>9. Partial(out)
  BY <1>3, <1>6, <1>7, <1>8 DEF Partial, Whole
<1>10. Over => Entire(out)
  <2>1. Over => pos = Len(input)
    BY DEF Over
  <2> QED BY <1>3, <1>6, <1>7, <1>8, <2>1 DEF Entire
<1>11. Ended = out
  BY DEF Ended
<1> QED BY <1>9, <1>10, <1>11

(* The block behind the data is none of them.                              *)
LEMMA TerminateTag ==
  ASSUME NEW n \in Sizes
  PROVE  /\ TerminateBlock(n)[2] = ServiceTag
         /\ ~DataBlock(TerminateBlock(n), n)
         /\ Contents(TerminateBlock(n), n) = <<>>
<1>1. PICK W \in Nat : W = n \div Word /\ W >= 2
  BY SizeIs
<1>2. PICK x \in WordSet : x = ToWord(Word)
  BY Constants, WordFacts
<1>3. PICK y \in WordSet : y = ServiceTag
  BY WordFacts
<1>4. PICK z \in WordSet : z = Terminate
  BY WordFacts
<1>5. PICK o \in WordSet : o = ToWord(0)
  BY WordFacts
<1>6. PICK t : t = [i \in 1 .. W - 3 |-> o]
  OBVIOUS
<1>7. t \in Seq(WordSet)
  <2>1. CASE W = 2
    <3>1. 1 .. W - 3 = 1 .. 0
      BY <2>1
    <3>2. t \in [1 .. 0 -> WordSet]
      BY <1>6, <3>1
    <3> QED BY <3>2
  <2>2. CASE W # 2
    <3>1. PICK m \in Nat : m = W - 3
      BY <1>1, <2>2
    <3>2. t \in [1 .. m -> WordSet]
      BY <1>6, <3>1
    <3> QED BY <3>2
  <2> QED BY <2>1, <2>2
<1>8. PICK h \in Seq(WordSet) : h = <<x, y, z>> /\ Len(h) = 3 /\ h[2] = y
  <2>1. <<x, y, z>> \in Seq(WordSet)
    OBVIOUS
  <2>2. Len(<<x, y, z>>) = 3 /\ <<x, y, z>>[2] = y
    OBVIOUS
  <2> QED BY <2>1, <2>2, Zenon
<1>9. (h \o t)[2] = y
  BY <1>7, <1>8
<1>10. h \o t = TerminateBlock(n)
  BY <1>1, <1>2, <1>3, <1>4, <1>5, <1>6, <1>8 DEF TerminateBlock
<1>11. TerminateBlock(n)[2] = ServiceTag /\ ServiceTag # DataTag
  BY <1>3, <1>9, <1>10, WordFacts
<1> QED BY <1>11 DEF DataBlock, Contents

(* A whole file.                                                           *)
LEMMA WellFormedIs ==
  ASSUME NEW f \in File, f.type = "ds8", WellFormed(f)
  PROVE  LET n == f.block
             N == Blocks(f.data, n)
         IN /\ ~f.cut /\ N \in Nat \ {0}
            /\ Len(f.data) = N * (n \div Word)
            /\ Payload(f) = Pay(f.data, n, N - 1)
            /\ Shape(f.data, n)
<1>1. PICK n \in Sizes : n = f.block
  BY PayloadIs
<1>2. PICK w \in Seq(WordSet) : w = f.data
  BY PayloadIs
<1>3. PICK N \in Nat : N = Blocks(w, n)
  BY BlocksIs
<1>4. /\ ~f.cut /\ N > 0 /\ Len(w) * Word = N * n
      /\ BlockOf(w, n, N) = TerminateBlock(n)
      /\ \A k \in 1 .. N - 1 :
           /\ DataBlock(BlockOf(w, n, k), n)
           /\ k < N - 1 => FullBlock(BlockOf(w, n, k), n)
  BY <1>1, <1>2, <1>3 DEF WellFormed, DataBlock, FullBlock
<1>5. PICK W \in Nat : W = n \div Word /\ n = W * Word
  BY SizeIs
<1>6. Len(w) = N * W
  <2>1. PICK l \in Nat : l = Len(w)
    OBVIOUS
  <2>2. PICK m \in Nat : m = N * W
    BY <1>5
  <2>3. PICK x \in Nat : x = l * Word
    BY <2>1, Constants
  <2>4. x = m * Word
    <3>1. N * (W * Word) = (N * W) * Word
      BY <1>5, Constants
    <3> QED BY <1>4, <1>5, <2>1, <2>2, <2>3, <3>1
  <2>5. x \div Word = l /\ x \div Word = m
    BY <2>1, <2>3, <2>4, Multiple
  <2> QED BY <2>1, <2>2, <2>5
<1>7. Payload(f) = Pay(w, n, N - 1)
  <2>1. N - 1 \in 0 .. N - 1 /\ N - 1 \in 0 .. N /\ (N - 1) + 1 = N
    BY <1>4
  <2>2. Pay(w, n, (N - 1) + 1)
          = Pay(w, n, N - 1) \o Contents(BlockOf(w, n, (N - 1) + 1), n)
    BY <1>3, <2>1, PayIs
  <2>3. Contents(BlockOf(w, n, (N - 1) + 1), n) = <<>>
    BY <1>4, <2>1, TerminateTag
  <2>4. PICK p \in Seq(Byte) : p = Pay(w, n, N - 1)
    BY <1>3, <2>1, PayIs
  <2>5. p \o <<>> = p
    OBVIOUS
  <2>6. Payload(f) = Pay(w, n, N)
    BY <1>1, <1>2, <1>3, PayloadIs
  <2> QED BY <2>1, <2>2, <2>3, <2>4, <2>5, <2>6
<1>8. Shape(w, n)
  <2> SUFFICES ASSUME NEW i \in 1 .. N
               PROVE  \/ DataBlock(BlockOf(w, n, i), n)
                           /\ (i < N - 1 => FullBlock(BlockOf(w, n, i), n))
                      \/ i = N /\ BlockOf(w, n, i) = TerminateBlock(n)
    BY <1>3 DEF Shape
  <2>1. CASE i = N
    BY <1>4, <2>1
  <2>2. CASE i # N
    <3>1. i \in 1 .. N - 1
      BY <2>2
    <3> QED BY <1>4, <3>1
  <2> QED BY <2>1, <2>2
<1>9. N \in Nat \ {0} /\ ~f.cut
  BY <1>4
<1> QED BY <1>1, <1>2, <1>3, <1>5, <1>6, <1>7, <1>8, <1>9, Zenon

(* The input file of a conversion from ds8, and of a transfer that can read*)
(* it.                                                                     *)
LEMMA Ds8Input ==
  ASSUME IInv, \/ op \in {"ds8_hex", "ds8_bin"}
               \/ op = "transfer" /\ input = Source.data
  PROVE  /\ Busy /\ pos \in Nat /\ Source \in File /\ Source.type = "ds8"
         /\ input = Source.data /\ input \in Seq(WordSet)
         /\ Source.block \in Sizes
         /\ Source = Ds8(Source.block, input, Source.cut)
         /\ Payload(Source) = Pay(input, Source.block, Blocks(input, Source.block))
         /\ op # "transfer" => call.block = Source.block
         /\ Before.same => Shape(input, Source.block)
         /\ Before.same /\ Before.ok /\ Before.whole => WellFormed(Source)
<1>1. Busy
  BY DEF Busy
<1>2. /\ Source \in File /\ Source.type = "ds8" /\ pos \in Nat
      /\ FileInv(call.from)
  BY <1>1, BusyIs DEF IInv, CallInv
<1>3. input = Source.data /\ (op # "transfer" => call.block = Source.block)
  BY <1>1 DEF IInv, CallInv
<1>4. /\ Source.block \in Sizes /\ input \in Seq(WordSet)
      /\ Source = Ds8(Source.block, input, Source.cut)
      /\ Payload(Source) = Pay(input, Source.block, Blocks(input, Source.block))
  BY <1>2, <1>3, PayloadIs
<1>5. Before.same =>
        /\ Shape(input, Source.block)
        /\ Before.ok /\ Before.whole => WellFormed(Source)
  BY <1>2, <1>3 DEF FileInv, Before, Source
<1> QED BY <1>1, <1>2, <1>3, <1>4, <1>5

(* How far such a conversion is.                                           *)
LEMMA Ds8Read ==
  ASSUME IInv, op \in {"ds8_hex", "ds8_bin"}, pos <= Blocks(input, call.block)
  PROVE  /\ Pay(input, call.block, pos) \in Seq(Byte)
         /\ Begins(Pay(input, call.block, pos), Payload(Source))
         /\ Over /\ Before.same /\ Before.ok /\ Before.whole =>
              Pay(input, call.block, pos) = Payload(Source)
<1>1. PICK n \in Sizes : n = call.block /\ n = Source.block
  BY Ds8Input
<1>2. PICK w \in Seq(WordSet) : w = input /\ w = Source.data
  BY Ds8Input
<1>3. PICK N \in Nat : N = Blocks(w, n)
  BY BlocksIs
<1>4. Payload(Source) = Pay(w, n, N)
  BY <1>1, <1>2, <1>3, Ds8Input
<1>5. pos \in 0 .. N /\ N \in 0 .. N
  <2>1. pos \in Nat /\ pos <= N
    BY <1>1, <1>2, <1>3, Ds8Input
  <2> QED BY <2>1
<1>6. Pay(w, n, pos) \in Seq(Byte) /\ Begins(Pay(w, n, pos), Pay(w, n, N))
  BY <1>3, <1>5, PayIs, PayOrder
<1>7. ASSUME Over, Before.same, Before.ok, Before.whole
      PROVE  Pay(w, n, pos) = Payload(Source)
  <2>1. pos >= N - 1
    BY <1>1, <1>2, <1>3, <1>7 DEF Over
  <2>2. WellFormed(Source) /\ Source \in File /\ Source.type = "ds8"
    BY <1>7, Ds8Input
  <2>3. Payload(Source) = Pay(w, n, N - 1)
    BY <1>1, <1>2, <1>3, <2>2, WellFormedIs
  <2>4. pos = N - 1 \/ pos = N
    BY <1>5, <2>1
  <2> QED BY <1>4, <2>3, <2>4
<1> QED BY <1>1, <1>2, <1>4, <1>6, <1>7

(* The output of file_ds8_to_hex.                                          *)
LEMMA Ds8ToHexOut ==
  ASSUME IInv, op = "ds8_hex"
  PROVE  Partial(out) /\ (Over => Partial(Ended) /\ Entire(Ended))
<1>1. Ds8ToHexInv
  BY DEF IInv, ProgressInv
<1>2. pos <= Blocks(input, call.block)
  BY <1>1 DEF Ds8ToHexInv
<1>3. PICK p \in Seq(Byte) : p = Pay(input, call.block, pos)
  BY <1>2, Ds8Read
<1>4. PICK a \in Seq(Byte) : a = Payload(Source)
  BY Ds8Input, PayloadIs
<1>5. /\ Begins(p, a)
      /\ Over /\ Before.same /\ Before.ok /\ Before.whole => p = a
  BY <1>2, <1>3, <1>4, Ds8Read
<1>6. PICK w \in Seq(WordSet) : w = out.data /\ out = Hex(w)
  BY <1>1 DEF Ds8ToHexInv, HexOut, Hex
<1>7. out \in HexOut /\ out.type = "hex" /\ Payload(out) = FlattenSeq(w)
  <2>1. Hex(w).type = "hex"
    BY DEF Hex
  <2> QED BY <1>6, <2>1, HexPayload
<1>8. PICK b \in Seq(Byte) : b = FlattenSeq(w) /\ Len(b) = Len(w) * Word
  BY FlatWords
<1>9. PICK d \in Nat : d = Down(Len(p)) /\ d <= Len(p)
  <2>1. Len(p) \in Nat
    OBVIOUS
  <2>2. Down(Len(p)) \in Nat /\ Down(Len(p)) <= Len(p)
    BY <2>1, Rounding
  <2> QED BY <2>2
<1>10. Straight => Before.same
  BY DEF Straight, Carries
<1>11. Straight => Len(b) = d /\ \A k \in 1 .. d : b[k] = p[k]
  BY <1>1, <1>3, <1>6, <1>8, <1>9 DEF Straight, Carries, Ds8ToHexInv, Before, SameTo
<1>12. Straight => From(a, b)
  <2>1. Straight => Begins(b, p)
    BY <1>9, <1>11 DEF Begins, SameTo
  <2> QED BY <1>5, <2>1, BeginsOrder, Preorders
<1>13. Partial(out)
  BY <1>4, <1>7, <1>8, <1>12 DEF Partial, Whole
<1>14. ASSUME Over PROVE Entire(out)
  <2> SUFFICES ASSUME Before.ok, Before.whole, Straight PROVE Keeps(a, b)
    BY <1>4, <1>7, <1>8 DEF Entire
  <2>1. p = a
    BY <1>5, <1>10, <1>14
  <2>2. Len(b) = Down(Len(a))
    BY <1>9, <1>11, <2>1
  <2>3. \A k \in Nat \ {0} : k <= Len(b) => b[k] = a[k]
    BY <1>11, <2>1
  <2> QED BY <2>2, <2>3, FromIs
<1>15. Ended = out
  BY DEF Ended
<1> QED BY <1>13, <1>14, <1>15

(* The output of file_ds8_to_bin.                                          *)
LEMMA Ds8ToBinOut ==
  ASSUME IInv, op = "ds8_bin"
  PROVE  Partial(out) /\ (Over => Partial(Ended) /\ Entire(Ended))
<1>1. Ds8ToBinInv
  BY DEF IInv, ProgressInv
<1>2. pos <= Blocks(input, call.block)
  BY <1>1 DEF Ds8ToBinInv
<1>3. PICK p \in Seq(Byte) : p = Pay(input, call.block, pos)
  BY <1>2, Ds8Read
<1>4. PICK a \in Seq(Byte) : a = Payload(Source)
  BY Ds8Input, PayloadIs
<1>5. /\ Begins(p, a)
      /\ Over /\ Before.same /\ Before.ok /\ Before.whole => p = a
  BY <1>2, <1>3, <1>4, Ds8Read
<1>6. out \in BinFile
  BY <1>1 DEF Ds8ToBinInv
<1>7. out.type = "bin" /\ Payload(out) = out.data
  <2>1. out \in File /\ out.type = "bin"
    BY <1>6 DEF File, BinFile
  <2> QED BY <2>1, PayloadIs
<1>8. Straight => Before.same /\ out.data = p
  BY <1>1, <1>3 DEF Straight, Carries, Ds8ToBinInv, Before
<1>9. Partial(out)
  BY <1>4, <1>5, <1>6, <1>7, <1>8, Preorders DEF Partial, Whole
<1>10. ASSUME Over PROVE Entire(out)
  BY <1>4, <1>5, <1>7, <1>8, <1>10, Preorders DEF Entire
<1>11. Ended = out
  BY DEF Ended
<1> QED BY <1>9, <1>10, <1>11

(* The output of a transfer: blocks of the file that was sent.             *)
LEMMA TransferOut ==
  ASSUME IInv, op = "transfer"
  PROVE  Partial(out) /\ (Over => Partial(Ended) /\ Entire(Ended))
<1>1. TransferInv
  BY DEF IInv, ProgressInv
<1>2. PICK n \in Sizes : n = call.block
  BY <1>1, Constants DEF TransferInv
<1>3. PICK v \in Seq(WordSet) : v = out.data /\ out = Ds8(n, v, FALSE)
  BY <1>1, <1>2 DEF TransferInv
<1>4. PICK w \in Seq(WordSet) : w = Source.data
  <2>1. Source \in File /\ Source.type = "ds8"
    BY BusyIs DEF Busy, IInv, CallInv
  <2> QED BY <2>1, PayloadIs
<1>5. PICK M \in Nat : M = Blocks(v, n) /\ M = OutBlocks
  BY <1>2, <1>3, BlocksIs DEF OutBlocks
<1>6. PICK N \in Nat : N = Blocks(w, n)
  BY BlocksIs
<1>7. PICK x \in Nat : x = M * (n \div Word) /\ Len(v) = x
  <2>1. Len(v) = M * (n \div Word)
    BY <1>1, <1>2, <1>3, <1>5 DEF TransferInv
  <2>2. n \div Word \in Nat
    BY SizeIs
  <2>3. M * (n \div Word) \in Nat
    BY <2>2
  <2> QED BY <2>1, <2>3
<1>8. ASSUME Carries
      PROVE  /\ Source.block = n /\ Before.same /\ input = Source.data
             /\ v = SubSeq(w, 1, x) /\ Begins(v, w)
             /\ exit => M = N
  <2>1. Source.block = n /\ Before.same /\ input = Source.data
    BY <1>2, <1>8 DEF Carries
  <2>2. /\ v = SubSeq(w, 1, x) /\ (exit => M = N)
        /\ pos <= N /\ M <= pos
    BY <1>1, <1>2, <1>3, <1>4, <1>5, <1>6, <1>7, <2>1
       DEF TransferInv, InOrder, Before, ToSend, Source
  <2>3. x <= Len(w)
    <3>1. pos \in Nat
      BY BusyIs DEF Busy
    <3>2. M <= N
      BY <2>2, <3>1
    <3> QED BY <1>6, <1>7, <3>2, BlocksIs
  <2>4. x \in 0 .. Len(w)
    BY <2>3
  <2> QED BY <2>1, <2>2, <2>4, BeginsOrder
<1>9. out \in Ds8File /\ out.type = "ds8" /\ out.block = n /\ out.data = v
  BY <1>3 DEF Ds8, Ds8File
<1>10. Carries => Shape(v, n)
  BY <1>4, <1>8, Ds8Input, Shapes
<1>11. ASSUME Carries PROVE From(Payload(Source), Payload(out))
  <2>1. M \in 0 .. N /\ N \in 0 .. N /\ M \in 0 .. M
    <3>1. M <= N
      BY <1>5, <1>6, <1>8, <1>11, BlockBegins
    <3> QED BY <3>1
  <2>2. Payload(out) = Pay(v, n, M) /\ Payload(out) \in Seq(Byte)
    BY <1>5, <1>9, PayloadIs DEF File
  <2>3. Pay(v, n, M) = Pay(w, n, M)
    BY <1>5, <1>8, <1>11, <2>1, PayBegins, ZenonT(60)
  <2>4. Payload(Source) = Pay(w, n, N) /\ Payload(Source) \in Seq(Byte)
    BY <1>4, <1>6, <1>8, <1>11, Ds8Input, PayloadIs
  <2>5. Begins(Pay(w, n, M), Pay(w, n, N))
    BY <1>6, <2>1, PayOrder
  <2> QED BY <2>2, <2>3, <2>4, <2>5, Preorders
<1>12. Partial(out)
  BY <1>9, <1>10, <1>11 DEF Partial, Whole, Straight
<1>13. ASSUME Over PROVE Entire(out)
  <2> SUFFICES ASSUME Before.ok, Before.whole, Carries
               PROVE  WellFormed(out) /\ Keeps(Payload(Source), Payload(out))
    BY <1>9 DEF Entire, Straight
  <2>1. WellFormed(Source) /\ Source \in File /\ Source.type = "ds8"
    BY <1>8, Ds8Input
  <2>2. exit
    BY <1>13 DEF Over
  <2>3. Source.cut = FALSE /\ Len(w) = x
    <3>1. ~Source.cut /\ Len(w) = N * (n \div Word) /\ Source.cut \in BOOLEAN
      BY <1>4, <1>6, <1>8, <2>1, WellFormedIs, PayloadIs
    <3> QED BY <1>7, <1>8, <2>2, <3>1
  <2>4. v = w
    BY <1>8, <2>3, SubAll
  <2>5. out = Source
    BY <1>3, <1>4, <1>8, <2>3, <2>4, Ds8Input
  <2> QED BY <2>1, <2>5, PayloadIs, Preorders
<1>14. Ended = out
  BY DEF Ended
<1> QED BY <1>12, <1>13, <1>14

(* The same of any conversion under way.                                   *)
LEMMA OutIs ==
  ASSUME IInv, Busy
  PROVE  Partial(out) /\ (Over => Partial(Ended) /\ Entire(Ended))
<1>1. \/ op = "bin_ds8" \/ op = "hex_ds8" \/ op = "hex_bin" \/ op = "bin_hex"
      \/ op = "ds8_hex" \/ op = "ds8_bin" \/ op = "transfer"
  BY DEF IInv, TypeInv, Ops, Busy
<1> QED BY <1>1, BinToDs8Out, HexToDs8Out, HexToBinOut, BinToHexOut, Ds8ToHexOut,
           Ds8ToBinOut, TransferOut

-----------------------------------------------------------------------------
(* A round of a conversion leaves the files and its parameters alone.      *)
LEMMA Continues ==
  ASSUME IInv, UNCHANGED <<root, files, made, op, call, input>>,
         pos' \in Nat, exit' \in BOOLEAN, ProgressInv'
  PROVE  IInv'
<1>1. TypeInv'
  BY DEF IInv, TypeInv
<1>2. \A i : FileInv(i) => FileInv(i)'
  BY DEF FileInv
<1>3. FilesInv'
  BY <1>2 DEF IInv, FilesInv
<1>4. CallInv'
  BY DEF IInv, CallInv, Busy, Source
<1>5. NoOverrun'
  BY DEF IInv, NoOverrun
<1> QED BY <1>1, <1>3, <1>4, <1>5 DEF IInv

(* Two parts of a file that follow each other.                             *)
LEMMA NextPart ==
  ASSUME NEW S, NEW s \in Seq(S), NEW a \in Nat, NEW c \in Seq(S),
         a + Len(c) <= Len(s), \A k \in 1 .. Len(c) : c[k] = s[a + k]
  PROVE  SubSeq(s, 1, a + Len(c)) = SubSeq(s, 1, a) \o c
<1>1. PICK l \in Nat : l = Len(c)
  OBVIOUS
<1>3. PICK m \in Nat : m = a + l
  OBVIOUS
<1>6. PICK x \in Seq(S) : x = SubSeq(s, 1, a) /\ Len(x) = a /\ \A i \in 1 .. a : x[i] = s[i]
  <2>1. a \in 0 .. Len(s)
    BY <1>1
  <2>2. PICK x : x = SubSeq(s, 1, a)
    OBVIOUS
  <2>3. /\ SubSeq(s, 1, a) \in Seq(S) /\ Len(SubSeq(s, 1, a)) = a
        /\ \A i \in 1 .. a : SubSeq(s, 1, a)[i] = s[i]
    BY <2>1, FirstIs, Zenon
  <2>4. x \in Seq(S) /\ Len(x) = a /\ \A i \in 1 .. a : x[i] = s[i]
    BY <2>2, <2>3, Zenon
  <2> QED BY <2>2, <2>4
<1>7. PICK y \in Seq(S) : y = SubSeq(s, 1, m) /\ Len(y) = m /\ \A i \in 1 .. m : y[i] = s[i]
  <2>1. m \in 0 .. Len(s)
    BY <1>1, <1>3
  <2>2. PICK y : y = SubSeq(s, 1, m)
    OBVIOUS
  <2>3. /\ SubSeq(s, 1, m) \in Seq(S) /\ Len(SubSeq(s, 1, m)) = m
        /\ \A i \in 1 .. m : SubSeq(s, 1, m)[i] = s[i]
    BY <2>1, FirstIs, Zenon
  <2>4. y \in Seq(S) /\ Len(y) = m /\ \A i \in 1 .. m : y[i] = s[i]
    BY <2>2, <2>3, Zenon
  <2> QED BY <2>2, <2>4
<1>8. x \o c \in Seq(S) /\ Len(x \o c) = m
  BY <1>1, <1>3, <1>6
<1>9. ASSUME NEW i \in 1 .. m PROVE y[i] = (x \o c)[i]
  <2>1. CASE i <= a
    BY <1>1, <1>3, <1>6, <1>7, <2>1
  <2>2. CASE ~(i <= a)
    <3>1. PICK k \in 1 .. l : i = a + k
      <4>1. i - a \in 1 .. l /\ i = a + (i - a)
        BY <1>3, <2>2
      <4> QED BY <4>1
    <3>2. (x \o c)[i] = c[k]
      BY <1>1, <1>6, <3>1
    <3> QED BY <1>1, <1>7, <3>1, <3>2
  <2> QED BY <2>1, <2>2
<1>10. y = x \o c
  BY <1>7, <1>8, <1>9, SeqEqual
<1> QED BY <1>1, <1>3, <1>6, <1>7, <1>10

(* A conversion to ds8 writes a block.                                     *)
LEMMA Ds8More ==
  ASSUME Ds8Out(TRUE), NEW b \in Seq(WordSet), Len(b) = call.block \div Word,
         DataBlock(b, call.block), NEW more \in BOOLEAN,
         more => FullBlock(b, call.block), Write(b), call' = call
  PROVE  /\ call'.block \in Sizes
         /\ out' = Ds8(call'.block, out'.data, FALSE)
         /\ out'.data \in Seq(WordSet)
         /\ Filled(out'.data, call'.block, more)
         /\ Pay(out'.data, call'.block, OutBlocks')
              = Pay(out.data, call.block, OutBlocks) \o Contents(b, call.block)
<1>1. PICK n \in Sizes : n = call.block
  BY DEF Ds8Out
<1>2. PICK w \in Seq(WordSet) : w = out.data
  BY DEF Ds8Out
<1>3. out = Ds8(n, w, FALSE) /\ Filled(w, n, TRUE)
  BY <1>1, <1>2 DEF Ds8Out
<1>4. PICK v : v = w \o b
  OBVIOUS
<1>5. out' = Ds8(n, v, FALSE)
  <2>1. PICK o : o = [type |-> "ds8", block |-> n, data |-> w, cut |-> FALSE]
    OBVIOUS
  <2>2. PICK r : r = [o EXCEPT !.data = v]
    OBVIOUS
  <2>3. /\ DOMAIN r = {"type", "block", "data", "cut"}
        /\ r.type = "ds8" /\ r.block = n /\ r.data = v /\ r.cut = FALSE
    BY <2>1, <2>2
  <2>4. r = [type |-> "ds8", block |-> n, data |-> v, cut |-> FALSE]
    BY <2>1, <2>2, <2>3
  <2>5. out = o
    BY <1>3, <2>1 DEF Ds8
  <2>6. out' = [out EXCEPT !.data = v]
    BY <1>2, <1>4 DEF Write
  <2> QED BY <2>2, <2>4, <2>5, <2>6 DEF Ds8
<1>6. out'.data = v
  BY <1>5 DEF Ds8
<1>7. /\ v \in Seq(WordSet) /\ Filled(v, n, more)
      /\ Pay(v, n, Blocks(v, n)) = Pay(w, n, Blocks(w, n)) \o Contents(b, n)
  <2>1. Len(b) = n \div Word /\ DataBlock(b, n) /\ (more => FullBlock(b, n))
    BY <1>1
  <2> QED BY <1>3, <1>4, <2>1, FilledMore, ZenonT(60)
<1>8. OutBlocks' = Blocks(v, n) /\ OutBlocks = Blocks(w, n)
  BY <1>1, <1>2, <1>6 DEF OutBlocks
<1> QED BY <1>1, <1>2, <1>5, <1>6, <1>7, <1>8

(* What there is to be read of a bin file.                                 *)
LEMMA BinInput ==
  ASSUME IInv, op \in {"bin_ds8", "bin_hex"}
  PROVE  input \in Seq(Byte) /\ Len(input) \in Nat /\ pos \in Nat
<1>1. Busy
  BY DEF Busy
<1>2. Source \in File /\ Source.type = "bin" /\ pos \in Nat
  BY <1>1, BusyIs DEF IInv, CallInv
<1>3. Source.data \in Seq(Byte)
  BY <1>2, PayloadIs
<1>4. input = <<>> \/ input = Source.data
  BY <1>1 DEF IInv, CallInv
<1>5. input \in Seq(Byte)
  BY <1>3, <1>4, SubAll
<1> QED BY <1>2, <1>5

(* A round of file_bin_to_ds8.                                             *)
LEMMA BinToDs8Keeps ==
  ASSUME IInv, BinToDs8Round
  PROVE  IInv'
<1>1. op = "bin_ds8" /\ pos < Len(input) /\ Same /\ exit' = exit
  BY DEF BinToDs8Round
<1>2. BinToDs8Inv
  BY <1>1 DEF IInv, ProgressInv
<1>3. PICK s \in Seq(Byte) : s = input /\ pos \in Nat
  BY <1>1, BinInput
<1>4. PICK l \in Nat : l = Len(s)
  OBVIOUS
<1>5. call.block \in Sizes /\ call.block >= 3 * Word
  BY <1>2 DEF BinToDs8Inv, Ds8Out
<1>6. PICK room \in Nat : room = Room /\ room = call.block - 2 * Word
  <2>1. call.block \in Nat /\ call.block >= 2 * Word /\ Word \in Nat
    BY <1>5, Constants, SizeIs
  <2> QED BY <2>1 DEF Room
<1>7. PICK need \in 0 .. room :
        /\ need = AtMost(Len(input) - pos, Room)
        /\ pos + need <= l /\ (pos + need = l \/ need = room)
  <2>1. PICK x \in Nat : x = Len(input) - pos /\ x = l - pos
    <3>1. l - pos \in Nat
      BY <1>1, <1>3, <1>4
    <3> QED BY <1>3, <1>4, <3>1
  <2>2. AtMost(x, room) \in 0 .. room /\ AtMost(x, room) <= x
        /\ (AtMost(x, room) = x \/ AtMost(x, room) = room)
    BY DEF AtMost
  <2> QED BY <1>3, <1>6, <2>1, <2>2
<1>8. /\ pos' = pos + need
      /\ data' = [k \in 1 .. Room |->
                   IF k <= need THEN input[pos + k]
                   ELSE IF k > RoundUp(need) THEN Space ELSE data[k]]
      /\ Write(Block(IF pos' = Len(input) THEN need ELSE Room, data'))
  BY <1>7 DEF BinToDs8Round
<1>9. PICK d \in Seq(Byte) : d = data' /\ Len(d) = room /\ \A k \in 1 .. need : d[k] = s[pos + k]
  <2>1. data \in Seq(Byte) /\ Len(data) = room
    BY <1>2, <1>6 DEF BinToDs8Inv
  <2>2. Space \in Byte
    BY Constants DEF Space, Byte
  <2>3. ASSUME NEW k \in 1 .. room
        PROVE  (IF k <= need THEN s[pos + k]
                ELSE IF k > RoundUp(need) THEN Space ELSE data[k]) \in Byte
    <3>1. CASE k <= need
      <4>1. pos + k \in 1 .. Len(s)
        BY <1>3, <1>4, <1>7, <3>1
      <4> QED BY <3>1, <4>1
    <3>2. CASE ~(k <= need)
      <4>1. data[k] \in Byte
        BY <2>1
      <4> QED BY <2>2, <3>2, <4>1
    <3> QED BY <3>1, <3>2
  <2>4. PICK f : f = [k \in 1 .. room |->
                        IF k <= need THEN s[pos + k]
                        ELSE IF k > RoundUp(need) THEN Space ELSE data[k]]
    OBVIOUS
  <2>5. f \in [1 .. room -> Byte]
    BY <2>3, <2>4
  <2>6. f \in Seq(Byte) /\ Len(f) = room
    BY <2>5
  <2>7. \A k \in 1 .. need : f[k] = s[pos + k]
    BY <2>4
  <2>8. f = data'
    BY <1>3, <1>6, <1>8, <2>4
  <2> QED BY <2>6, <2>7, <2>8
<1>10. PICK more \in BOOLEAN : pos + need < l <=> more
  OBVIOUS
<1>11. /\ (IF pos' = Len(input) THEN need ELSE Room) = need
       /\ more => need = room
  BY <1>3, <1>4, <1>6, <1>7, <1>8, <1>10
<1>12. PICK b : b = Block(need, d)
  OBVIOUS
<1>13. /\ b \in Seq(WordSet) /\ Len(b) = call.block \div Word
       /\ DataBlock(b, call.block) /\ ToNumber(b[1]) = need
       /\ Contents(b, call.block) \in Seq(Byte) /\ Len(Contents(b, call.block)) = need
       /\ \A k \in 1 .. need : Contents(b, call.block)[k] = d[k]
  <2>1. Len(d) = call.block - 2 * Word /\ need \in 0 .. call.block - 2 * Word
    BY <1>6, <1>9
  <2> QED BY <1>5, <1>12, <2>1, MadeBlock
<1>14. more => FullBlock(b, call.block)
  BY <1>6, <1>11, <1>13 DEF FullBlock, DataBlock
<1>15. Ds8Out(TRUE)
  BY <1>1, <1>2 DEF BinToDs8Inv, Ds8Out, Filled
<1>16. call' = call /\ Write(b)
  BY <1>1, <1>8, <1>9, <1>11, <1>12 DEF Same
<1>17. /\ call'.block \in Sizes
       /\ out' = Ds8(call'.block, out'.data, FALSE)
       /\ out'.data \in Seq(WordSet)
       /\ Filled(out'.data, call'.block, more)
       /\ Pay(out'.data, call'.block, OutBlocks')
            = Pay(out.data, call.block, OutBlocks) \o Contents(b, call.block)
  BY <1>13, <1>14, <1>15, <1>16, Ds8More
<1>18. Pay(out'.data, call'.block, OutBlocks') = SubSeq(input', 1, pos')
  <2>1. PICK c \in Seq(Byte) :
          c = Contents(b, call.block) /\ Len(c) = need /\ \A k \in 1 .. need : c[k] = s[pos + k]
    BY <1>9, <1>13
  <2>2. SubSeq(s, 1, pos + Len(c)) = SubSeq(s, 1, pos) \o c
    <3>1. pos \in Nat /\ pos + Len(c) <= Len(s) /\ \A k \in 1 .. Len(c) : c[k] = s[pos + k]
      BY <1>3, <1>4, <1>7, <2>1
    <3> QED BY <3>1, NextPart
  <2>3. Pay(out.data, call.block, OutBlocks) = SubSeq(s, 1, pos)
    BY <1>2, <1>3 DEF BinToDs8Inv
  <2>4. input' = s /\ pos' = pos + Len(c)
    BY <1>1, <1>3, <1>8, <2>1 DEF Same
  <2> QED BY <1>17, <2>1, <2>2, <2>3, <2>4
<1>19. BinToDs8Inv'
  <2>1. input' = s /\ pos' = pos + need /\ Len(input') = l
    BY <1>1, <1>3, <1>4, <1>8 DEF Same
  <2>2. Ds8Out(pos < Len(input))'
    BY <1>10, <1>17, <2>1 DEF Ds8Out, Filled
  <2>3. call'.block >= 3 * Word /\ Room' = room
    BY <1>5, <1>6, <1>16 DEF Room
  <2>4. pos' <= Len(input')
    BY <1>7, <2>1
  <2> QED BY <1>9, <1>18, <2>2, <2>3, <2>4 DEF BinToDs8Inv
<1>20. op' = op /\ pos' \in Nat /\ exit' \in BOOLEAN
  <2>1. op' = op /\ exit' = exit /\ pos' = pos + need
    BY <1>1, <1>8 DEF Same
  <2>2. pos \in Nat /\ need \in Nat /\ exit \in BOOLEAN
    BY <1>1, <1>3, <1>7 DEF IInv, TypeInv
  <2> QED BY <2>1, <2>2
<1>21. ProgressInv'
  BY <1>1, <1>19, <1>20 DEF ProgressInv
<1> QED BY <1>1, <1>20, <1>21, Continues DEF Same

(* A round reads some of the words, and all of them if it is the last one. *)
LEMMA WordsRead ==
  ASSUME IInv, op \in {"hex_ds8", "hex_bin"}, pos <= Readable(input),
         NEW n \in Nat, ReadWords(n), input' = input
  PROVE  \E m \in 0 .. n :
           /\ pos' = pos + m /\ pos' <= Readable(input) /\ pos' \in Nat
           /\ (exit' <=> m < n) /\ (exit' => pos' = Readable(input))
           /\ exit' \in BOOLEAN
           /\ data' \in Seq(Byte) /\ Len(data') = m * Word
           /\ FlattenSeq(SubSeq(input', 1, pos'))
                = FlattenSeq(SubSeq(input, 1, pos)) \o data'
<1>1. PICK s \in Seq(WordSet \cup {Bad}) : s = input /\ pos \in 0 .. Readable(s)
  BY HexInput
<1>2. PICK r \in Nat : r = Readable(s) /\ r <= Len(s)
  BY ReadableIs
<1>3. PICK m \in 0 .. n :
        m = AtMost(n, Readable(input) - pos) /\ pos + m <= r /\ (m < n => pos + m = r)
  <2>1. PICK x \in Nat : x = Readable(input) - pos /\ x = r - pos
    <3>1. r - pos \in Nat
      BY <1>1, <1>2
    <3> QED BY <1>1, <1>2, <3>1
  <2>2. AtMost(n, x) \in 0 .. n /\ AtMost(n, x) <= x
        /\ (AtMost(n, x) < n => AtMost(n, x) = x)
    BY DEF AtMost
  <2>3. pos \in Nat
    BY <1>1
  <2> QED BY <2>1, <2>2, <2>3
<1>4. /\ pos' = pos + m /\ exit' = (m < n)
      /\ data' = FlattenSeq(SubSeq(input, pos + 1, pos + m))
  BY <1>3 DEF ReadWords
<1>5. PICK p \in Nat : p = pos /\ p <= r
  BY <1>1, <1>2
<1>6. PICK q \in Nat : q = p + m /\ q <= r
  BY <1>3, <1>5
<1>7. PICK v : v = SubSeq(s, p + 1, q)
  OBVIOUS
<1>8. /\ v \in Seq(WordSet) /\ Len(v) = m /\ \A i \in 1 .. m : v[i] = s[p + i]
  <2>1. v \in Seq(WordSet \cup {Bad}) /\ Len(v) = q - p /\ \A i \in 1 .. q - p : v[i] = s[p + i]
    BY <1>2, <1>5, <1>6, <1>7, SubIs
  <2>2. q - p = m
    BY <1>6
  <2>3. \A i \in 1 .. m : v[i] \in WordSet
    <3> SUFFICES ASSUME NEW i \in 1 .. m PROVE v[i] \in WordSet
      OBVIOUS
    <3>1. p + i \in 1 .. Readable(s)
      BY <1>2, <1>6
    <3>2. s[p + i] \in WordSet
      BY <3>1, ReadableIs
    <3> QED BY <2>1, <2>2, <3>2
  <2>4. v \in [1 .. m -> WordSet] /\ m \in Nat
    BY <2>1, <2>2, <2>3
  <2> QED BY <2>1, <2>2, <2>4
<1>9. PICK d \in Seq(Byte) : d = FlattenSeq(v) /\ Len(d) = m * Word
  BY <1>8, FlatWords
<1>10. PICK a \in Seq(WordSet) : a = SubSeq(s, 1, p)
  <2>1. p \in 0 .. Readable(s)
    BY <1>2, <1>5
  <2>2. SubSeq(s, 1, p) \in Seq(WordSet)
    BY <2>1, ReadableIs
  <2> QED BY <2>2
<1>11. SubSeq(s, 1, q) = a \o v
  <2>1. v \in Seq(WordSet \cup {Bad}) /\ q = p + Len(v) /\ p + Len(v) <= Len(s)
        /\ \A i \in 1 .. Len(v) : v[i] = s[p + i]
    <3>1. v \in Seq(WordSet \cup {Bad})
      BY <1>8
    <3> QED BY <1>2, <1>6, <1>8, <3>1
  <2>2. SubSeq(s, 1, p + Len(v)) = SubSeq(s, 1, p) \o v
    BY <2>1, NextPart, ZenonT(60)
  <2> QED BY <1>10, <2>1, <2>2
<1>12. FlattenSeq(SubSeq(s, 1, q)) = FlattenSeq(SubSeq(s, 1, p)) \o d
  BY <1>8, <1>9, <1>10, <1>11, FlatConcat
<1>13. data' = d /\ pos' = q
  BY <1>1, <1>4, <1>5, <1>6, <1>7, <1>9
<1>14. exit' \in BOOLEAN /\ (exit' <=> m < n) /\ (exit' => pos' = r)
  <2>1. exit' = (m < n)
    BY <1>4
  <2>2. m < n => pos' = r
    BY <1>3, <1>4
  <2>3. CASE m < n
    <3>1. exit' = TRUE
      BY <2>1, <2>3
    <3> QED BY <2>2, <2>3, <3>1
  <2>4. CASE ~(m < n)
    <3>1. (m < n) = FALSE
      BY <2>4
    <3>2. exit' = FALSE
      BY <2>1, <3>1, Zenon
    <3> QED BY <2>4, <3>2
  <2> QED BY <2>3, <2>4
<1> QED BY <1>1, <1>2, <1>4, <1>5, <1>6, <1>9, <1>12, <1>13, <1>14

(* Bytes as data of a block, with zeros behind them.                       *)
LEMMA Padded ==
  ASSUME NEW d \in Seq(Byte), NEW room \in Nat, Len(d) <= room
  PROVE  LET p == d \o [k \in 1 .. room - Len(d) |-> 0]
         IN p \in Seq(Byte) /\ Len(p) = room /\ \A k \in 1 .. Len(d) : p[k] = d[k]
<1>1. PICK m \in Nat : m = room - Len(d)
  <2>1. room - Len(d) \in Nat
    OBVIOUS
  <2> QED BY <2>1
<1>2. PICK z : z = [k \in 1 .. m |-> 0]
  OBVIOUS
<1>3. 0 \in Byte
  BY Constants DEF Byte
<1>4. z \in [1 .. m -> Byte]
  BY <1>2, <1>3
<1>5. z \in Seq(Byte) /\ Len(z) = m
  BY <1>4
<1>6. d \o z \in Seq(Byte) /\ Len(d \o z) = room /\ \A k \in 1 .. Len(d) : (d \o z)[k] = d[k]
  BY <1>1, <1>5
<1> QED BY <1>1, <1>2, <1>6

(* A round of file_hex_to_ds8.                                             *)
LEMMA HexToDs8Keeps ==
  ASSUME IInv, HexToDs8Round
  PROVE  IInv'
<1>1. op = "hex_ds8" /\ exit = FALSE /\ Same
  BY DEF HexToDs8Round, IInv, TypeInv
<1>2. HexToDs8Inv
  BY <1>1 DEF IInv, ProgressInv
<1>3. PICK n \in Sizes : n = call.block
  BY <1>2 DEF HexToDs8Inv, Ds8Out
<1>4. PICK W \in Nat : W = n \div Word /\ W >= 2 /\ n = W * Word
  BY SizeIs
<1>5. Word \in Nat \ {0}
  BY Constants
<1>6. PICK slots \in Nat : slots = Slots /\ slots = W - 2
  BY <1>3, <1>4 DEF Slots
<1>7. PICK room \in Nat : room = Room /\ room = n - 2 * Word /\ room = slots * Word
  <2>1. n - 2 * Word = slots * Word
    BY <1>4, <1>5, <1>6
  <2>2. slots * Word \in Nat
    BY <1>5
  <2> QED BY <1>3, <2>1, <2>2 DEF Room
<1>8. pos <= Readable(input) /\ ReadWords(slots) /\ input' = input
  BY <1>1, <1>2, <1>6 DEF HexToDs8Inv, HexToDs8Round, Same
<1>9. PICK m \in 0 .. slots :
        /\ pos' = pos + m /\ pos' <= Readable(input) /\ pos' \in Nat
        /\ (exit' <=> m < slots) /\ (exit' => pos' = Readable(input))
        /\ exit' \in BOOLEAN
        /\ data' \in Seq(Byte) /\ Len(data') = m * Word
        /\ FlattenSeq(SubSeq(input', 1, pos'))
             = FlattenSeq(SubSeq(input, 1, pos)) \o data'
  BY <1>1, <1>8, WordsRead
<1>10. PICK d \in Seq(Byte) : d = data'
  BY <1>9
<1>11. PICK size \in 0 .. room : size = Len(d) /\ size = m * Word
  <2>1. PICK x \in Nat : x = m * Word
    BY <1>5
  <2>2. PICK y \in Nat : y = (slots - m) * Word
    <3>1. slots - m \in Nat
      OBVIOUS
    <3> QED BY <1>5, <3>1
  <2>3. x + y = slots * Word
    BY <1>5, <2>1, <2>2
  <2>4. x \in 0 .. room
    BY <1>7, <2>3
  <2> QED BY <1>9, <1>10, <2>1, <2>4
<1>12. PICK p \in Seq(Byte) :
         /\ p = d \o [k \in 1 .. room - Len(d) |-> 0]
         /\ Len(p) = room /\ \A k \in 1 .. size : p[k] = d[k]
  <2>1. PICK p : p = d \o [k \in 1 .. room - Len(d) |-> 0]
    OBVIOUS
  <2>2. Len(d) <= room
    BY <1>11
  <2>3. p \in Seq(Byte) /\ Len(p) = room /\ \A k \in 1 .. Len(d) : p[k] = d[k]
    BY <2>1, <2>2, Padded
  <2> QED BY <1>11, <2>1, <2>3
<1>13. PICK b : b = Block(size, p)
  OBVIOUS
<1>14. Write(b)
  BY <1>7, <1>10, <1>11, <1>12, <1>13 DEF HexToDs8Round
<1>15. /\ b \in Seq(WordSet) /\ Len(b) = n \div Word
       /\ DataBlock(b, n) /\ ToNumber(b[1]) = size
       /\ Contents(b, n) \in Seq(Byte) /\ Len(Contents(b, n)) = size
       /\ \A k \in 1 .. size : Contents(b, n)[k] = p[k]
  <2>1. Len(p) = n - 2 * Word /\ size \in 0 .. n - 2 * Word
    BY <1>7, <1>12
  <2> QED BY <1>13, <2>1, MadeBlock
<1>16. Contents(b, n) = d
  <2>1. PICK c \in Seq(Byte) : c = Contents(b, n)
    BY <1>15
  <2>2. Len(c) = size /\ Len(d) = size /\ \A k \in 1 .. size : c[k] = d[k]
    BY <1>11, <1>12, <1>15, <2>1
  <2>3. c = d
    BY <2>2, SeqEqual
  <2> QED BY <2>1, <2>3
<1>17. PICK more \in BOOLEAN : exit' <=> ~more
  BY <1>9
<1>18. more => FullBlock(b, n)
  <2>1. more => m = slots
    BY <1>9, <1>17
  <2>2. more => size = room
    BY <1>7, <1>11, <2>1
  <2> QED BY <1>7, <1>15, <2>2 DEF DataBlock, FullBlock
<1>19. Ds8Out(TRUE)
  BY <1>1, <1>2 DEF HexToDs8Inv, Ds8Out, Filled
<1>20. /\ call'.block \in Sizes
       /\ out' = Ds8(call'.block, out'.data, FALSE)
       /\ out'.data \in Seq(WordSet)
       /\ Filled(out'.data, call'.block, more)
       /\ Pay(out'.data, call'.block, OutBlocks')
            = Pay(out.data, call.block, OutBlocks) \o Contents(b, call.block)
  <2>1. call' = call
    BY <1>1 DEF Same
  <2>2. /\ Len(b) = call.block \div Word /\ DataBlock(b, call.block)
        /\ more => FullBlock(b, call.block)
    BY <1>3, <1>15, <1>18
  <2> QED BY <1>14, <1>15, <1>19, <2>1, <2>2, Ds8More
<1>21. Pay(out'.data, call'.block, OutBlocks') = FlattenSeq(SubSeq(input', 1, pos'))
  BY <1>2, <1>3, <1>9, <1>10, <1>16, <1>20 DEF HexToDs8Inv
<1>22. exit' => call'.block >= 3 * Word
  <2> SUFFICES ASSUME exit' PROVE n >= 3 * Word
    BY <1>1, <1>3 DEF Same
  <2>1. W >= 3
    BY <1>4, <1>6, <1>9
  <2>2. PICK j \in Nat : j = W - 3
    <3>1. W - 3 \in Nat
      BY <2>1
    <3> QED BY <3>1
  <2>3. j * Word \in Nat /\ n = 3 * Word + j * Word
    BY <1>4, <1>5, <2>2
  <2> QED BY <1>5, <2>3
<1>23. HexToDs8Inv'
  <2>1. Ds8Out(~exit)'
    BY <1>17, <1>20 DEF Ds8Out, Filled
  <2> QED BY <1>8, <1>9, <1>21, <1>22, <2>1 DEF HexToDs8Inv
<1>24. ProgressInv'
  BY <1>1, <1>23 DEF ProgressInv, Same
<1> QED BY <1>1, <1>9, <1>24, Continues DEF Same

(* A round of file_hex_to_bin.                                             *)
LEMMA HexToBinKeeps ==
  ASSUME IInv, HexToBinRound
  PROVE  IInv'
<1>1. op = "hex_bin" /\ Same /\ ReadWords(HexBuf) /\ Write(data')
  BY DEF HexToBinRound
<1>2. HexToBinInv
  BY <1>1 DEF IInv, ProgressInv
<1>3. pos <= Readable(input) /\ HexBuf \in Nat /\ input' = input
  BY <1>1, <1>2, Constants DEF HexToBinInv, Same
<1>4. PICK m \in 0 .. HexBuf :
        /\ pos' = pos + m /\ pos' <= Readable(input) /\ pos' \in Nat
        /\ (exit' <=> m < HexBuf) /\ (exit' => pos' = Readable(input))
        /\ exit' \in BOOLEAN
        /\ data' \in Seq(Byte) /\ Len(data') = m * Word
        /\ FlattenSeq(SubSeq(input', 1, pos'))
             = FlattenSeq(SubSeq(input, 1, pos)) \o data'
  BY <1>1, <1>3, WordsRead
<1>5. PICK d \in Seq(Byte) : d = data'
  BY <1>4
<1>6. PICK w \in Seq(Byte) : w = out.data /\ out.type = "bin"
  BY <1>2 DEF HexToBinInv, BinFile
<1>7. out' = [out EXCEPT !.data = w \o d]
  BY <1>1, <1>5, <1>6 DEF Write
<1>8. w \o d \in Seq(Byte)
  OBVIOUS
<1>9. out' \in BinFile /\ out'.data = w \o d
  BY <1>2, <1>7, <1>8 DEF HexToBinInv, BinFile
<1>10. HexToBinInv'
  BY <1>2, <1>3, <1>4, <1>5, <1>6, <1>9 DEF HexToBinInv
<1>11. ProgressInv'
  BY <1>1, <1>10 DEF ProgressInv, Same
<1> QED BY <1>1, <1>4, <1>11, Continues DEF Same

(* Rounding behind whole words.                                            *)
LEMMA RoundAfter ==
  ASSUME NEW a \in Nat, a % Word = 0, NEW m \in Nat
  PROVE  /\ RoundUp(a + m) = a + RoundUp(m) /\ Down(a + m) = a + Down(m)
         /\ m % Word = 0 => (a + m) % Word = 0
<1>1. Word \in Nat \ {0}
  BY Constants
<1>2. PICK q \in Nat : a = q * Word
  BY Multiple
<1>3. PICK u \in Nat : u = RoundUp(m) /\ m <= u /\ u < m + Word
  BY Rounding
<1>4. PICK d \in Nat : d = Down(m) /\ d <= m /\ m < d + Word
  BY Rounding
<1>5. PICK i \in Nat : u = i * Word
  BY <1>3, Rounding
<1>6. PICK j \in Nat : d = j * Word
  BY <1>4, Rounding
<1>7. PICK n \in Nat : n = a + m
  OBVIOUS
<1>8. PICK x \in Nat : x = RoundUp(n) /\ n <= x /\ x < n + Word
  BY Rounding
<1>9. PICK y \in Nat : y = Down(n) /\ y <= n /\ n < y + Word
  BY Rounding
<1>10. PICK k \in Nat : x = k * Word
  BY <1>8, Rounding
<1>11. PICK l \in Nat : y = l * Word
  BY <1>9, Rounding
<1>12. a + u = (q + i) * Word /\ a + d = (q + j) * Word
  BY <1>1, <1>2, <1>5, <1>6
<1>13. x = a + u
  <2>1. x < a + u => x + Word <= a + u
    BY <1>10, <1>12, WordBetween
  <2>2. a + u < x => a + u + Word <= x
    BY <1>10, <1>12, WordBetween
  <2> QED BY <1>1, <1>3, <1>7, <1>8, <2>1, <2>2
<1>14. y = a + d
  <2>1. y < a + d => y + Word <= a + d
    BY <1>11, <1>12, WordBetween
  <2>2. a + d < y => a + d + Word <= y
    BY <1>11, <1>12, WordBetween
  <2> QED BY <1>1, <1>4, <1>7, <1>9, <2>1, <2>2
<1>15. ASSUME m % Word = 0 PROVE n % Word = 0
  <2>1. PICK p \in Nat : m = p * Word
    BY <1>15, Multiple
  <2>2. n = (q + p) * Word
    BY <1>1, <1>2, <1>7, <2>1
  <2> QED BY <2>2, Multiple
<1> QED BY <1>3, <1>4, <1>7, <1>8, <1>9, <1>13, <1>14, <1>15

(* The lines of a hex file.                                                *)
LEMMA LinesIs ==
  ASSUME NEW b \in Seq(WordSet)
  PROVE  Lines(b) \in Seq(WordSet) /\ (~call.tag => Lines(b) = b)
<1>1. ~call.tag => Lines(b) = b
  BY DEF Lines
<1>2. ASSUME call.tag PROVE Lines(b) \in Seq(WordSet)
  <2>1. PICK n \in Nat : n = Len(b) /\ DOMAIN b = 1 .. n
    OBVIOUS
  <2>2. PICK s : s = [i \in DOMAIN b |-> <<b[i], Tag>>]
    OBVIOUS
  <2>3. ASSUME NEW i \in 1 .. n PROVE <<b[i], Tag>> \in Seq(WordSet)
    <3>1. PICK x \in WordSet : x = b[i]
      BY <2>1
    <3>2. PICK t \in WordSet : t = Tag
      BY WordFacts
    <3>3. <<x, t>> \in Seq(WordSet)
      OBVIOUS
    <3> QED BY <3>1, <3>2, <3>3
  <2>4. s \in [1 .. n -> Seq(WordSet)]
    BY <2>1, <2>2, <2>3
  <2>5. FlattenSeq(s) \in Seq(WordSet)
    BY <2>4, FlattenMore
  <2> QED BY <1>2, <2>2, <2>5 DEF Lines
<1> QED BY <1>1, <1>2

(* A conversion to hex writes lines.                                       *)
LEMMA HexMore ==
  ASSUME out \in HexOut, NEW b \in Seq(WordSet), Write(Lines(b))
  PROVE  /\ out' \in HexOut
         /\ ~call.tag =>
              /\ Len(out'.data) = Len(out.data) + Len(b)
              /\ FlattenSeq(out'.data) = FlattenSeq(out.data) \o FlattenSeq(b)
<1>1. PICK w \in Seq(WordSet) : w = out.data /\ out = [type |-> "hex", data |-> w]
  BY DEF HexOut
<1>2. PICK v \in Seq(WordSet) : v = Lines(b) /\ (~call.tag => v = b)
  BY LinesIs
<1>3. PICK u \in Seq(WordSet) : u = w \o v /\ Len(u) = Len(w) + Len(v)
  <2>1. w \o v \in Seq(WordSet) /\ Len(w \o v) = Len(w) + Len(v)
    OBVIOUS
  <2> QED BY <2>1
<1>4. out' = [out EXCEPT !.data = u]
  BY <1>1, <1>2, <1>3 DEF Write
<1>5. out' \in HexOut /\ out'.data = u
  BY <1>1, <1>4 DEF HexOut
<1>6. FlattenSeq(u) = FlattenSeq(w) \o FlattenSeq(v)
  BY <1>3, FlatConcat
<1> QED BY <1>1, <1>2, <1>3, <1>5, <1>6

(* A round of file_bin_to_hex.                                             *)
LEMMA BinToHexKeeps ==
  ASSUME IInv, BinToHexRound
  PROVE  IInv'
<1>1. op = "bin_hex" /\ pos < Len(input) /\ Same /\ exit' = exit
  BY DEF BinToHexRound
<1>2. BinToHexInv
  BY <1>1 DEF IInv, ProgressInv
<1>3. PICK s \in Seq(Byte) : s = input /\ pos \in Nat
  BY <1>1, BinInput
<1>4. PICK l \in Nat : l = Len(s)
  OBVIOUS
<1>5. Word \in Nat \ {0} /\ HexBuf \in Nat \ {0}
  BY Constants
<1>6. PICK room \in Nat : room = HexBuf * Word /\ room % Word = 0
  <2>1. HexBuf * Word \in Nat
    BY <1>5
  <2> QED BY <1>5, <2>1, Multiple
<1>7. PICK need \in 0 .. room :
        /\ need = AtMost(Len(input) - pos, HexBuf * Word)
        /\ pos + need <= l /\ (pos + need = l \/ need = room)
  <2>1. PICK x \in Nat : x = Len(input) - pos /\ x = l - pos
    <3>1. l - pos \in Nat
      BY <1>1, <1>3, <1>4
    <3> QED BY <1>3, <1>4, <3>1
  <2>2. AtMost(x, room) \in 0 .. room /\ AtMost(x, room) <= x
        /\ (AtMost(x, room) = x \/ AtMost(x, room) = room)
    BY DEF AtMost
  <2> QED BY <1>3, <1>6, <2>1, <2>2
<1>8. /\ pos' = pos + need
      /\ data' = [k \in DOMAIN data |-> IF k <= need THEN input[pos + k] ELSE data[k]]
      /\ Write(Lines(WordsOf(SubSeq(data', 1, RoundUp(need)))))
  BY <1>7 DEF BinToHexRound
<1>9. PICK d \in Seq(Byte) : d = data' /\ Len(d) = room /\ \A k \in 1 .. need : d[k] = s[pos + k]
  <2>1. data \in Seq(Byte) /\ Len(data) = room /\ DOMAIN data = 1 .. room
    BY <1>2, <1>6 DEF BinToHexInv
  <2>2. ASSUME NEW k \in 1 .. room
        PROVE  (IF k <= need THEN s[pos + k] ELSE data[k]) \in Byte
    <3>1. CASE k <= need
      <4>1. pos + k \in 1 .. Len(s)
        BY <1>3, <1>4, <1>7, <3>1
      <4> QED BY <3>1, <4>1
    <3>2. CASE ~(k <= need)
      BY <2>1, <3>2
    <3> QED BY <3>1, <3>2
  <2>3. PICK f : f = [k \in 1 .. room |-> IF k <= need THEN s[pos + k] ELSE data[k]]
    OBVIOUS
  <2>4. f \in [1 .. room -> Byte]
    BY <2>2, <2>3
  <2>5. f \in Seq(Byte) /\ Len(f) = room
    BY <2>4
  <2>6. \A k \in 1 .. need : f[k] = s[pos + k]
    BY <2>3
  <2>7. f = data'
    BY <1>3, <1>8, <2>1, <2>3
  <2> QED BY <2>5, <2>6, <2>7
<1>10. PICK u \in 0 .. room : u = RoundUp(need) /\ need <= u /\ u % Word = 0
  <2>1. need \in Nat /\ need <= room
    OBVIOUS
  <2>2. RoundUp(need) \in Nat /\ need <= RoundUp(need) /\ RoundUp(need) % Word = 0
    BY <2>1, Rounding, RoundingOrder
  <2>3. RoundUp(need) <= RoundUp(room) /\ RoundUp(room) = room
    BY <1>6, <2>1, Rounding, RoundingOrder
  <2> QED BY <2>2, <2>3
<1>11. PICK c \in Seq(Byte) :
         c = SubSeq(data', 1, RoundUp(need)) /\ Len(c) = u /\ \A k \in 1 .. u : c[k] = d[k]
  <2>1. u \in 0 .. Len(d)
    BY <1>9
  <2>2. PICK c : c = SubSeq(d, 1, u)
    OBVIOUS
  <2>3. /\ SubSeq(d, 1, u) \in Seq(Byte) /\ Len(SubSeq(d, 1, u)) = u
        /\ \A i \in 1 .. u : SubSeq(d, 1, u)[i] = d[i]
    BY <2>1, FirstIs, Zenon
  <2>4. c \in Seq(Byte) /\ Len(c) = u /\ \A k \in 1 .. u : c[k] = d[k]
    BY <2>2, <2>3, Zenon
  <2> QED BY <1>9, <1>10, <2>2, <2>4
<1>12. PICK b \in Seq(WordSet) : b = WordsOf(c) /\ FlattenSeq(b) = c /\ Len(b) = u \div Word
  BY <1>10, <1>11, AsWords
<1>13. out \in HexOut /\ Write(Lines(b))
  BY <1>2, <1>8, <1>11, <1>12 DEF BinToHexInv
<1>14. /\ out' \in HexOut
       /\ ~call.tag =>
            /\ Len(out'.data) = Len(out.data) + Len(b)
            /\ FlattenSeq(out'.data) = FlattenSeq(out.data) \o FlattenSeq(b)
  BY <1>13, HexMore
<1>15. pos' = pos + need /\ pos' \in Nat /\ pos' <= l /\ input' = s
  BY <1>1, <1>3, <1>7, <1>8 DEF Same
<1>16. ASSUME ~call.tag
       PROVE  /\ Len(out'.data) * Word = RoundUp(pos')
              /\ pos' < l => pos' % Word = 0
              /\ SameTo(s, FlattenSeq(out'.data), pos')
  <2>1. PICK w \in Seq(WordSet) : w = out.data
    BY <1>2 DEF BinToHexInv, HexOut
  <2>2. pos % Word = 0 /\ Len(w) * Word = RoundUp(pos) /\ SameTo(s, FlattenSeq(w), pos)
    BY <1>1, <1>2, <1>3, <1>4, <1>16, <2>1 DEF BinToHexInv
  <2>3. Len(w) * Word = pos
    BY <1>3, <2>2, Rounding
  <2>4. PICK a \in Seq(Byte) : a = FlattenSeq(w) /\ Len(a) = pos
    BY <2>3, FlatWords
  <2>5. FlattenSeq(out'.data) = a \o c
    BY <1>12, <1>14, <1>16, <2>1, <2>4
  <2>6. Len(out'.data) * Word = pos + u
    <3>1. PICK m \in Nat : m = Len(b)
      OBVIOUS
    <3>2. m * Word = u
      BY <1>10, <1>12, <3>1, Multiple
    <3>3. PICK h \in Nat : h = Len(w)
      OBVIOUS
    <3>4. (h + m) * Word = h * Word + m * Word
      BY <1>5
    <3> QED BY <1>14, <1>16, <2>1, <2>3, <3>1, <3>2, <3>3, <3>4
  <2>7. RoundUp(pos') = pos + u
    BY <1>3, <1>10, <1>15, <2>2, RoundAfter
  <2>8. pos' < l => pos' % Word = 0
    <3>1. (pos + room) % Word = 0
      BY <1>3, <1>6, <2>2, RoundAfter
    <3>2. pos' < l => pos' = pos + room
      <4>1. pos + need = l \/ need = room
        BY <1>7
      <4>2. pos' = pos + need
        BY <1>15
      <4> QED BY <4>1, <4>2
    <3> QED BY <3>1, <3>2
  <2>9. ASSUME NEW k \in 1 .. pos' PROVE (a \o c)[k] = s[k]
    <3>1. CASE k <= pos
      <4>1. k \in 1 .. pos
        BY <1>3, <3>1
      <4>2. a[k] = s[k]
        BY <2>2, <2>4, <4>1 DEF SameTo
      <4> QED BY <2>4, <4>1, <4>2
    <3>2. CASE ~(k <= pos)
      <4>1. k - pos \in 1 .. need /\ k = pos + (k - pos)
        BY <1>3, <1>15, <3>2
      <4>2. PICK j \in 1 .. need : k = pos + j
        BY <4>1
      <4>4. j \in 1 .. u
        BY <1>10
      <4>5. PICK p \in Nat : p = pos /\ Len(a) = p /\ k = p + j
        BY <1>3, <2>4, <4>2
      <4>3. (a \o c)[p + j] = c[j]
          <5>1. j \in 1 .. Len(c)
            BY <1>11, <4>4
          <5>2. (a \o c)[Len(a) + j] = c[j]
            BY <5>1, ConcatIs
          <5> QED BY <4>5, <5>2
      <4> QED BY <1>9, <1>11, <4>2, <4>3, <4>4, <4>5
    <3> QED BY <3>1, <3>2
  <2> QED BY <2>5, <2>6, <2>7, <2>8, <2>9 DEF SameTo
<1>17. BinToHexInv'
  <2>1. call' = call /\ Len(input') = l
    BY <1>1, <1>4, <1>15 DEF Same
  <2>2. data' \in Seq(Byte) /\ Len(data') = HexBuf * Word
    BY <1>6, <1>9
  <2> QED BY <1>14, <1>15, <1>16, <2>1, <2>2 DEF BinToHexInv
<1>18. ProgressInv'
  BY <1>1, <1>17 DEF ProgressInv, Same
<1>19. exit' \in BOOLEAN
  BY <1>1 DEF IInv, TypeInv
<1> QED BY <1>1, <1>15, <1>18, <1>19, Continues DEF Same

(* The next block of a ds8 file.                                           *)
LEMMA BlockRead ==
  ASSUME IInv, op \in {"ds8_hex", "ds8_bin"}, pos < Blocks(input, call.block) - 1
  PROVE  LET n == call.block
             b == BlockOf(input, n, pos + 1)
         IN /\ n \in Sizes /\ pos \in Nat /\ pos + 1 <= Blocks(input, n)
            /\ b \in Seq(WordSet) /\ Len(b) = n \div Word /\ ToNumber(b[1]) \in Nat
            /\ Pay(input, n, pos) \in Seq(Byte) /\ Contents(b, n) \in Seq(Byte)
            /\ Pay(input, n, pos + 1) = Pay(input, n, pos) \o Contents(b, n)
            /\ Before.same =>
                 /\ DataBlock(b, n)
                 /\ pos + 1 < Blocks(input, n) - 1 => FullBlock(b, n)
<1>1. PICK n \in Sizes : n = call.block /\ n = Source.block
  BY Ds8Input
<1>2. PICK w \in Seq(WordSet) : w = input
  BY Ds8Input
<1>3. PICK N \in Nat : N = Blocks(w, n)
  BY BlocksIs
<1>4. PICK p \in Nat : p = pos
  BY Ds8Input
<1>5. p \in 0 .. N - 1 /\ p \in 0 .. N /\ p + 1 \in 1 .. N /\ p + 1 < N
  BY <1>1, <1>2, <1>3, <1>4
<1>6. PICK b : b = BlockOf(w, n, p + 1)
  OBVIOUS
<1>7. b \in Seq(WordSet) /\ Len(b) = n \div Word
  BY <1>3, <1>5, <1>6, BlockIs
<1>8. ToNumber(b[1]) \in Nat
  BY <1>7, ContentsIs
<1>9. /\ Pay(w, n, p) \in Seq(Byte) /\ Contents(b, n) \in Seq(Byte)
      /\ Pay(w, n, p + 1) = Pay(w, n, p) \o Contents(b, n)
  BY <1>3, <1>5, <1>6, PayIs
<1>10. ASSUME Before.same
       PROVE  DataBlock(b, n) /\ (p + 1 < N - 1 => FullBlock(b, n))
  <2>1. Shape(w, n)
    BY <1>1, <1>2, <1>10, Ds8Input
  <2>2. \/ DataBlock(BlockOf(w, n, p + 1), n)
             /\ (p + 1 < N - 1 => FullBlock(BlockOf(w, n, p + 1), n))
        \/ p + 1 = N /\ BlockOf(w, n, p + 1) = TerminateBlock(n)
    BY <1>3, <1>5, <2>1 DEF Shape
  <2> QED BY <1>5, <1>6, <2>2
<1>11. p + 1 <= N
  BY <1>5
<1> QED BY <1>1, <1>2, <1>3, <1>4, <1>6, <1>7, <1>8, <1>9, <1>10, <1>11

(* The words behind the header of a block.                                 *)
LEMMA BlockBytes ==
  ASSUME NEW n \in Sizes, NEW b \in Seq(WordSet), Len(b) = n \div Word,
         NEW q \in 0 .. (n \div Word) - 2
  PROVE  LET v == SubSeq(b, 3, q + 2)
         IN /\ v \in Seq(WordSet) /\ Len(v) = q
            /\ FlattenSeq(v) \in Seq(Byte) /\ Len(FlattenSeq(v)) = q * Word
            /\ \A k \in 1 .. q * Word : FlattenSeq(v)[k] = FlattenSeq(b)[2 * Word + k]
<1>1. PICK W \in Nat : W = n \div Word /\ W >= 2
  BY SizeIs
<1>2. PICK a \in Nat : a = 2 /\ a + 1 = 3
  OBVIOUS
<1>3. PICK c \in Nat : c = q + 2 /\ c - a = q /\ a <= c /\ c <= Len(b)
  <2>1. q + 2 \in Nat /\ (q + 2) - a = q /\ a <= q + 2 /\ q + 2 <= Len(b)
    BY <1>1, <1>2
  <2> QED BY <2>1
<1>4. PICK v : v = SubSeq(b, a + 1, c)
  OBVIOUS
<1>5. /\ v \in Seq(WordSet) /\ Len(v) = c - a
      /\ FlattenSeq(v) \in Seq(Byte) /\ Len(FlattenSeq(v)) = (c - a) * Word
      /\ \A k \in 1 .. (c - a) * Word : FlattenSeq(v)[k] = FlattenSeq(b)[a * Word + k]
  BY <1>3, <1>4, FlatSome, ZenonT(60)
<1>6. v = SubSeq(b, 3, q + 2) /\ a * Word = 2 * Word
  BY <1>2, <1>3, <1>4
<1> QED BY <1>3, <1>5, <1>6, Zenon

(* A round of file_ds8_to_hex.                                             *)
LEMMA Ds8ToHexKeeps ==
  ASSUME IInv, Ds8ToHexRound
  PROVE  IInv'
<1>1. op = "ds8_hex" /\ pos < Blocks(input, call.block) - 1 /\ Same
      /\ exit' = exit /\ pos' = pos + 1
  BY DEF Ds8ToHexRound
<1>2. Ds8ToHexInv
  BY <1>1 DEF IInv, ProgressInv
<1>3. PICK n \in Sizes : n = call.block
  BY <1>1, BlockRead
<1>4. PICK b \in Seq(WordSet) : b = BlockOf(input, n, pos + 1) /\ Len(b) = n \div Word
  BY <1>1, <1>3, BlockRead
<1>5. PICK size \in Nat : size = ToNumber(b[1])
  BY <1>1, <1>3, <1>4, BlockRead
<1>6. Word \in Nat \ {0}
  BY Constants
<1>7. PICK q \in Nat : q = size \div Word /\ q * Word = Down(size)
  <2>1. PICK q \in Nat : q = size \div Word
    BY <1>6, DivMod
  <2>2. PICK r \in 0 .. Word - 1 : r = size % Word /\ size = q * Word + r
    BY <1>6, <2>1, DivMod
  <2>3. PICK x \in Nat : x = q * Word
    BY <1>6
  <2>4. Down(size) = x
    BY <2>2, <2>3 DEF Down
  <2> QED BY <2>1, <2>3, <2>4
<1>8. PICK W \in Nat : W = n \div Word /\ W >= 2 /\ n = W * Word
  BY SizeIs
<1>9. q \in 0 .. W - 2
  <2>1. size \div Word <= Slots
    BY <1>1, <1>3, <1>4, <1>5 DEF Ds8ToHexRound
  <2>2. Slots = W - 2
    BY <1>3, <1>8 DEF Slots
  <2> QED BY <1>7, <2>1, <2>2
<1>10. PICK v \in Seq(WordSet) :
         /\ v = SubSeq(b, 3, q + 2) /\ Len(v) = q
         /\ FlattenSeq(v) \in Seq(Byte) /\ Len(FlattenSeq(v)) = q * Word
         /\ \A k \in 1 .. q * Word : FlattenSeq(v)[k] = FlattenSeq(b)[2 * Word + k]
  BY <1>4, <1>8, <1>9, BlockBytes
<1>11. out \in HexOut /\ Write(Lines(v))
  BY <1>1, <1>2, <1>3, <1>4, <1>5, <1>7, <1>10 DEF Ds8ToHexInv, Ds8ToHexRound
<1>12. /\ out' \in HexOut
       /\ ~call.tag =>
            /\ Len(out'.data) = Len(out.data) + Len(v)
            /\ FlattenSeq(out'.data) = FlattenSeq(out.data) \o FlattenSeq(v)
  BY <1>11, HexMore
<1>13. pos \in Nat /\ pos + 1 <= Blocks(input, n)
  BY <1>1, <1>3, BlockRead
<1>14. ASSUME Before.same, ~call.tag
       PROVE  LET p == Pay(input, n, pos + 1)
              IN /\ Len(out'.data) * Word = Down(Len(p))
                 /\ SameTo(p, FlattenSeq(out'.data), Down(Len(p)))
                 /\ pos + 1 < Blocks(input, n) - 1 => Len(p) % Word = 0
  <2>1. PICK p \in Seq(Byte) : p = Pay(input, n, pos)
    BY <1>1, <1>3, BlockRead
  <2>2. PICK c \in Seq(Byte) : c = Contents(b, n)
    BY <1>1, <1>3, <1>4, BlockRead
  <2>3. Pay(input, n, pos + 1) = p \o c
    BY <1>1, <1>3, <1>4, <2>1, <2>2, BlockRead
  <2>4. DataBlock(b, n) /\ (pos + 1 < Blocks(input, n) - 1 => FullBlock(b, n))
    BY <1>1, <1>3, <1>4, <1>14, BlockRead
  <2>5. Len(c) = size /\ \A k \in 1 .. size : c[k] = FlattenSeq(b)[2 * Word + k]
    BY <1>4, <1>5, <2>2, <2>4, ContentsIs
  <2>6. PICK w \in Seq(WordSet) : w = out.data
    BY <1>11 DEF HexOut
  <2>7. PICK a \in Seq(Byte) : a = FlattenSeq(w)
    BY FlatWords
  <2>8. PICK d \in Seq(Byte) : d = FlattenSeq(v)
    BY <1>10
  <2>9. PICK l \in Nat : l = Len(p)
    OBVIOUS
  <2>10. /\ l % Word = 0 /\ Len(w) * Word = Down(l) /\ SameTo(p, a, Down(l))
    BY <1>1, <1>2, <1>3, <1>14, <2>1, <2>6, <2>7, <2>9 DEF Ds8ToHexInv, Before
  <2>11. Down(l) = l /\ Len(w) * Word = l
    BY <2>10, Rounding
  <2>12. Len(a) = l
    BY <2>7, <2>11, FlatWords
  <2>13. PICK e \in Nat : e = q * Word /\ e = Down(size) /\ e <= size
    BY <1>7, Rounding
  <2>14. Down(Len(p \o c)) = l + e
    <3>1. Len(p \o c) = l + size
      BY <2>5, <2>9, ConcatIs
    <3>2. Down(l + size) = l + Down(size)
      BY <2>10, RoundAfter
    <3> QED BY <2>13, <3>1, <3>2
  <2>15. Len(out'.data) * Word = l + e
    <3>1. PICK h \in Nat : h = Len(w)
      OBVIOUS
    <3>2. Len(out'.data) = h + q
      BY <1>10, <1>12, <1>14, <2>6, <3>1
    <3>3. (h + q) * Word = h * Word + q * Word
      BY <1>6
    <3> QED BY <2>11, <2>13, <3>1, <3>2, <3>3
  <2>16. FlattenSeq(out'.data) = a \o d
    BY <1>12, <1>14, <2>6, <2>7, <2>8
  <2>17. ASSUME NEW k \in 1 .. l + e PROVE (a \o d)[k] = (p \o c)[k]
    <3>0. Len(d) = e
      BY <1>10, <2>8, <2>13
    <3>1. CASE k <= l
      <4>1. k \in 1 .. l
        BY <3>1
      <4>2. a[k] = p[k]
        BY <2>10, <2>11, <4>1 DEF SameTo
      <4>3. (a \o d)[k] = a[k] /\ (p \o c)[k] = p[k]
        BY <2>9, <2>12, <4>1
      <4> QED BY <4>2, <4>3
    <3>2. CASE ~(k <= l)
      <4>1. PICK j \in 1 .. e : k = l + j
        <5>1. k - l \in 1 .. e /\ k = l + (k - l)
          BY <3>2
        <5> QED BY <5>1
      <4>2. (a \o d)[l + j] = d[j]
        BY <2>12, <3>0, ConcatIs
      <4>3. j \in 1 .. size
        BY <2>13
      <4>4. (p \o c)[l + j] = c[j]
        BY <2>5, <2>9, <4>3
      <4>5. d[j] = FlattenSeq(b)[2 * Word + j]
        BY <1>10, <2>8, <2>13
      <4>6. c[j] = FlattenSeq(b)[2 * Word + j]
        BY <2>5, <4>3
      <4> QED BY <4>1, <4>2, <4>4, <4>5, <4>6
    <3> QED BY <3>1, <3>2
  <2>18. pos + 1 < Blocks(input, n) - 1 => Len(p \o c) % Word = 0
    <3> SUFFICES ASSUME pos + 1 < Blocks(input, n) - 1 PROVE Len(p \o c) % Word = 0
      OBVIOUS
    <3>1. size = n - 2 * Word
      BY <1>5, <2>4 DEF FullBlock
    <3>2. PICK i \in Nat : i = W - 2
      BY <1>8
    <3>3. size = i * Word
      BY <1>6, <1>8, <3>1, <3>2
    <3>4. size % Word = 0
      BY <3>3, Multiple
    <3>5. (l + size) % Word = 0
      BY <2>10, <3>4, RoundAfter
    <3>6. Len(p \o c) = l + size
      BY <2>5, <2>9, ConcatIs
    <3> QED BY <3>5, <3>6
  <2> QED BY <2>3, <2>14, <2>15, <2>16, <2>17, <2>18 DEF SameTo
<1>15. Ds8ToHexInv'
  <2>1. call' = call /\ input' = input /\ made' = made
    BY <1>1 DEF Same
  <2> QED BY <1>1, <1>3, <1>12, <1>13, <1>14, <2>1 DEF Ds8ToHexInv, Before
<1>16. ProgressInv'
  BY <1>1, <1>15 DEF ProgressInv, Same
<1>17. exit' \in BOOLEAN /\ pos' \in Nat
  BY <1>1, <1>13 DEF IInv, TypeInv
<1> QED BY <1>1, <1>16, <1>17, Continues DEF Same

(* A round of file_ds8_to_bin.                                             *)
LEMMA Ds8ToBinKeeps ==
  ASSUME IInv, Ds8ToBinRound
  PROVE  IInv'
<1>1. op = "ds8_bin" /\ pos < Blocks(input, call.block) - 1 /\ Same
      /\ exit' = exit /\ pos' = pos + 1
  BY DEF Ds8ToBinRound
<1>2. Ds8ToBinInv
  BY <1>1 DEF IInv, ProgressInv
<1>3. PICK n \in Sizes : n = call.block
  BY <1>1, BlockRead
<1>4. PICK b \in Seq(WordSet) : b = BlockOf(input, n, pos + 1) /\ Len(b) = n \div Word
  BY <1>1, <1>3, BlockRead
<1>5. PICK size \in Nat : size = ToNumber(b[1])
  BY <1>1, <1>3, <1>4, BlockRead
<1>6. Word \in Nat \ {0}
  BY Constants
<1>7. PICK W \in Nat : W = n \div Word /\ W >= 2 /\ n = W * Word
  BY SizeIs
<1>8. PICK q \in 0 .. (n \div Word) - 2 : q = W - 2 /\ q + 2 = Len(b)
  BY <1>4, <1>7
<1>9. PICK bytes \in Seq(Byte) :
        /\ bytes = FlattenSeq(SubSeq(b, 3, Len(b))) /\ Len(bytes) = q * Word
        /\ \A k \in 1 .. q * Word : bytes[k] = FlattenSeq(b)[2 * Word + k]
  <2>1. PICK v : v = SubSeq(b, 3, q + 2)
    OBVIOUS
  <2>2. /\ FlattenSeq(v) \in Seq(Byte) /\ Len(FlattenSeq(v)) = q * Word
        /\ \A k \in 1 .. q * Word : FlattenSeq(v)[k] = FlattenSeq(b)[2 * Word + k]
    BY <1>4, <2>1, BlockBytes
  <2>3. v = SubSeq(b, 3, Len(b))
    BY <1>8, <2>1
  <2> QED BY <2>2, <2>3
<1>10. PICK x : x = [k \in 1 .. size |-> IF k <= Len(bytes) THEN bytes[k] ELSE 0]
  OBVIOUS
<1>11. x \in Seq(Byte) /\ Len(x) = size
  <2>1. ASSUME NEW k \in 1 .. size
        PROVE  (IF k <= Len(bytes) THEN bytes[k] ELSE 0) \in Byte
    <3>1. 0 \in Byte
      BY Constants DEF Byte
    <3> QED BY <3>1
  <2>2. x \in [1 .. size -> Byte]
    BY <1>10, <2>1
  <2> QED BY <2>2
<1>12. Write(x)
  BY <1>1, <1>3, <1>4, <1>5, <1>9, <1>10 DEF Ds8ToBinRound
<1>13. PICK w \in Seq(Byte) : w = out.data
  BY <1>2 DEF Ds8ToBinInv, BinFile
<1>14. out' \in BinFile /\ out'.data = w \o x
  <2>1. out' = [out EXCEPT !.data = w \o x]
    BY <1>12, <1>13 DEF Write
  <2>2. w \o x \in Seq(Byte)
    BY <1>11
  <2> QED BY <1>2, <2>1, <2>2 DEF Ds8ToBinInv, BinFile
<1>15. pos \in Nat /\ pos + 1 <= Blocks(input, n)
  BY <1>1, <1>3, BlockRead
<1>16. ASSUME Before.same PROVE w \o x = Pay(input, n, pos + 1)
  <2>1. PICK c \in Seq(Byte) : c = Contents(b, n)
    BY <1>1, <1>3, <1>4, BlockRead
  <2>2. Pay(input, n, pos + 1) = Pay(input, n, pos) \o c
    BY <1>1, <1>3, <1>4, <2>1, BlockRead
  <2>3. w = Pay(input, n, pos)
    BY <1>2, <1>3, <1>13, <1>16 DEF Ds8ToBinInv, Before
  <2>4. DataBlock(b, n)
    BY <1>1, <1>3, <1>4, <1>16, BlockRead
  <2>5. Len(c) = size /\ \A k \in 1 .. size : c[k] = FlattenSeq(b)[2 * Word + k]
    BY <1>4, <1>5, <2>1, <2>4, ContentsIs
  <2>6. size <= q * Word
    <3>1. q * Word = n - 2 * Word
      BY <1>6, <1>7, <1>8
    <3>2. size \in 0 .. n - 2 * Word
      BY <1>5, <2>4 DEF DataBlock
    <3> QED BY <3>1, <3>2
  <2>7. PICK e \in Nat : e = q * Word
    <3>1. q \in Nat /\ Word \in Nat
      BY <1>6, <1>7, <1>8
    <3>2. q * Word \in Nat
      BY <3>1
    <3> QED BY <3>2
  <2>8. ASSUME NEW k \in 1 .. size PROVE x[k] = c[k]
    <3>1. k \in 1 .. e /\ k <= Len(bytes)
      BY <1>9, <2>6, <2>7
    <3>2. x[k] = bytes[k]
      BY <1>10, <3>1
    <3>3. bytes[k] = FlattenSeq(b)[2 * Word + k]
      BY <1>9, <2>7, <3>1
    <3>4. c[k] = FlattenSeq(b)[2 * Word + k]
      BY <2>5
    <3> QED BY <3>2, <3>3, <3>4
  <2>9. x = c
    BY <1>11, <2>5, <2>8, SeqEqual
  <2> QED BY <2>2, <2>3, <2>9
<1>17. Ds8ToBinInv'
  <2>1. call' = call /\ input' = input /\ made' = made
    BY <1>1 DEF Same
  <2> QED BY <1>1, <1>3, <1>14, <1>15, <1>16, <2>1 DEF Ds8ToBinInv, Before
<1>18. ProgressInv'
  BY <1>1, <1>17 DEF ProgressInv, Same
<1>19. exit' \in BOOLEAN /\ pos' \in Nat
  BY <1>1, <1>15 DEF IInv, TypeInv
<1> QED BY <1>1, <1>18, <1>19, Continues DEF Same

(* No block of a file that comes from such conversions names a size that   *)
(* is larger than the buffer.                                              *)
LEMMA OverrunKeeps ==
  ASSUME IInv, Ds8Overrun
  PROVE  IInv'
<1>1. /\ op \in {"ds8_hex", "ds8_bin"} /\ pos < Blocks(input, call.block) - 1
      /\ op' = "undefined"
      /\ UNCHANGED <<root, files, made, call, input, pos, exit, data, out, wire>>
  BY DEF Ds8Overrun
<1>2. PICK n \in Sizes : n = call.block
  BY <1>1, BlockRead
<1>3. PICK b \in Seq(WordSet) : b = BlockOf(input, n, pos + 1)
  BY <1>1, <1>2, BlockRead
<1>4. PICK size \in Nat : size = ToNumber(b[1])
  BY <1>1, <1>2, <1>3, BlockRead
<1>5. Word \in Nat \ {0}
  BY Constants
<1>6. PICK W \in Nat : W = n \div Word /\ W >= 2 /\ n = W * Word
  BY SizeIs
<1>7. ~Before.same
  <2> SUFFICES ASSUME Before.same PROVE FALSE
    OBVIOUS
  <2>1. DataBlock(b, n)
    BY <1>1, <1>2, <1>3, BlockRead
  <2>2. size <= n - 2 * Word
    BY <1>4, <2>1 DEF DataBlock
  <2>3. PICK q \in Nat : q = size \div Word
    BY <1>5, DivMod
  <2>4. q <= W - 2
    <3>1. PICK r \in 0 .. Word - 1 : size = q * Word + r
      BY <1>5, <2>3, DivMod
    <3>2. PICK x \in Nat : x = q * Word
      BY <1>5
    <3>3. PICK i \in Nat : i = W - 2
      BY <1>6
    <3>4. PICK y \in Nat : y = i * Word
      BY <1>5
    <3>5. y = n - 2 * Word
      BY <1>5, <1>6, <3>3, <3>4
    <3>6. x <= y
      BY <2>2, <3>1, <3>2, <3>5
    <3>7. y < x => y + Word <= x
      BY <3>2, <3>4, WordBetween
    <3>8. ~(i < q)
      <4> SUFFICES ASSUME i < q PROVE FALSE
        OBVIOUS
      <4>1. PICK j \in Nat : j = q - i - 1
        <5>1. q - i - 1 \in Nat
          OBVIOUS
        <5> QED BY <5>1
      <4>2. j * Word \in Nat /\ j * Word = x - y - Word
        BY <1>5, <3>2, <3>4, <4>1
      <4> QED BY <1>5, <3>6, <4>2
    <3> QED BY <3>3, <3>8
  <2>5. Slots = W - 2
    BY <1>2, <1>6 DEF Slots
  <2>6. op = "ds8_hex" => FALSE
    <3>1. op = "ds8_hex" => size \div Word > Slots
      BY <1>2, <1>3, <1>4 DEF Ds8Overrun
    <3>2. ~(q > W - 2)
      BY <1>6, <2>4
    <3> QED BY <2>3, <2>5, <3>1, <3>2
  <2>7. op = "ds8_bin" => FALSE
    <3>1. op = "ds8_bin" => size + 2 * Word > n * Word
      BY <1>2, <1>3, <1>4 DEF Ds8Overrun
    <3>2. n \in Nat /\ n <= n * Word
      <4>1. PICK j \in Nat : j = Word - 1
        <5>1. Word - 1 \in Nat
          BY <1>5
        <5> QED BY <5>1
      <4>2. n \in Nat
        BY SizeIs
      <4>3. n * j \in Nat
        BY <4>2
      <4>4. n * (j + 1) = n * j + n
        BY <4>2
      <4>5. Word = j + 1
        BY <1>5, <4>1
      <4> QED BY <4>2, <4>3, <4>4, <4>5
    <3>3. PICK z \in Nat : z = n * Word
      BY <1>5, <3>2
    <3> QED BY <1>5, <2>2, <3>1, <3>2, <3>3
  <2> QED BY <1>1, <2>6, <2>7
<1>8. TypeInv'
  BY <1>1 DEF IInv, TypeInv, Ops
<1>9. FilesInv'
  <2>1. \A i : FileInv(i) => FileInv(i)'
    BY <1>1 DEF FileInv
  <2> QED BY <1>1, <2>1 DEF IInv, FilesInv
<1>10. CallInv' /\ ProgressInv'
  BY <1>1 DEF CallInv, ProgressInv, Busy
<1>11. NoOverrun'
  BY <1>1, <1>7 DEF NoOverrun, Before
<1> QED BY <1>8, <1>9, <1>10, <1>11 DEF IInv

-----------------------------------------------------------------------------
(* The end of a conversion, and the ways in which it fails.                *)
LEMMA OverIsBusy ==
  ASSUME Over
  PROVE  Busy
BY DEF Over, Busy

(* A conversion that gets to its end returns all of the output.            *)
LEMMA FinishKeeps ==
  ASSUME IInv, Finish
  PROVE  IInv'
<1>1. Over /\ Return(Ended, TRUE, TRUE)
  BY DEF Finish
<1>2. Busy
  BY <1>1, OverIsBusy
<1>3. Partial(Ended) /\ Entire(Ended)
  BY <1>1, <1>2, OutIs
<1> QED BY <1>1, <1>2, <1>3, ReturnKeeps

(* The last of it is lost, and the code says that all is well.             *)
LEMMA FinishLosesEndKeeps ==
  ASSUME IInv, FinishLosesEnd
  PROVE  IInv'
<1>1. PICK f \in Cuts(Ended) : Over /\ Return(f, TRUE, FALSE)
  BY DEF FinishLosesEnd
<1>2. Busy
  BY <1>1, OverIsBusy
<1>3. Partial(Ended)
  BY <1>1, <1>2, OutIs
<1>4. Partial(f)
  BY <1>2, <1>3, CutsArePartial
<1> QED BY <1>1, <1>2, <1>4, ReturnKeeps

(* A read or a write fails.                                                *)
LEMMA FailsKeeps ==
  ASSUME IInv, Fails
  PROVE  IInv'
<1>1. PICK f \in {out} \cup Cuts(out) : Busy /\ Return(f, FALSE, FALSE)
  BY DEF Fails, Busy
<1>2. Partial(out)
  BY <1>1, OutIs
<1>3. Partial(f)
  BY <1>1, <1>2, CutsArePartial
<1> QED BY <1>1, <1>3, ReturnKeeps

-----------------------------------------------------------------------------
(* What a conversion begins with.                                          *)
LEMMA Nothing ==
  /\ FlattenSeq(<<>>) = <<>> /\ <<>> \in Seq(WordSet) /\ <<>> \in Seq(Byte)
  /\ RoundUp(0) = 0 /\ Down(0) = 0 /\ 0 % Word = 0
<1>1. <<>> \in Seq(WordSet) /\ <<>> \in Seq(Byte) /\ Len(<<>>) = 0
  OBVIOUS
<1>2. Word \in Nat \ {0}
  BY Constants
<1>3. FlattenSeq(<<>>) = <<>>
  <2>1. FlattenSeq(<<>>) \in Seq(Byte) /\ Len(FlattenSeq(<<>>)) = Len(<<>>) * Word
    BY <1>1, FlatWords
  <2>2. PICK s \in Seq(Byte) : s = FlattenSeq(<<>>) /\ Len(s) = Len(<<>>) * Word
    BY <2>1
  <2>3. Len(s) = 0
    BY <1>1, <1>2, <2>2
  <2> QED BY <2>2, <2>3
<1>4. 0 % Word = 0
  <2>1. 0 = 0 * Word
    BY <1>2
  <2> QED BY <2>1, Multiple
<1>5. RoundUp(0) = 0 /\ Down(0) = 0
  BY <1>4, Rounding
<1> QED BY <1>1, <1>3, <1>4, <1>5

(* An output without a block.                                              *)
LEMMA EmptyDs8 ==
  ASSUME NEW n \in Sizes
  PROVE  /\ Blocks(<<>>, n) = 0
         /\ \A more \in BOOLEAN : Filled(<<>>, n, more)
         /\ Pay(<<>>, n, 0) = <<>>
         /\ Ds8(n, <<>>, FALSE).data = <<>>
<1>1. <<>> \in Seq(WordSet) /\ Len(<<>>) = 0
  OBVIOUS
<1>2. n \div Word \in Nat
  BY SizeIs
<1>3. 0 * (n \div Word) = 0
  BY <1>2
<1>4. Blocks(<<>>, n) = 0
  BY <1>1, <1>3, BlocksIs
<1>5. \A more \in BOOLEAN : Filled(<<>>, n, more)
  BY <1>1, <1>3, <1>4 DEF Filled
<1>6. Pay(<<>>, n, 0) = <<>>
  BY <1>1, PayIs
<1>7. Ds8(n, <<>>, FALSE).data = <<>>
  BY DEF Ds8
<1> QED BY <1>4, <1>5, <1>6, <1>7

(* normalizeBufSize lets only sizes of whole words through, from three on. *)
LEMMA NormalIs ==
  ASSUME NEW n \in Nat, Normal(n)
  PROVE  n >= 3 * Word /\ n % Word = 0
<1>1. Word \in Nat \ {0}
  BY Constants
<1>2. PICK M \in Nat \ {0} : M = Multiplier /\ M >= 3 * Word /\ M % Word = 0
  BY <1>1, ConvertersAssumption
<1>3. PICK c \in Nat : M = c * Word
  BY <1>2, Multiple
<1>4. PICK top \in Nat \ {0} : top = MaxBlockSize /\ top % M = 0
  BY <1>2, ConvertersAssumption
<1>5. top >= M
  <2>1. PICK q \in Nat : top = q * M
    <3>1. top \div M \in Nat /\ top = (top \div M) * M + (top % M)
      BY DivMod
    <3>2. PICK p \in Nat : p = top \div M
      BY <3>1
    <3>3. PICK pm \in Nat : pm = p * M
      OBVIOUS
    <3>4. top = pm + (top % M)
      BY <3>1, <3>2, <3>3
    <3>5. top = pm
      BY <1>4, <3>4
    <3> QED BY <3>3, <3>5
  <2>2. q # 0
    BY <1>2, <1>4, <2>1
  <2>3. PICK p \in Nat : q = p + 1
    BY <2>2
  <2>4. p * M >= 0 /\ q * M = p * M + M
    BY <1>2, <2>3
  <2> QED BY <2>1, <2>4
<1>6. PICK most \in Nat : most >= M /\ n = most + ((M - (most % M)) % M)
  <2> DEFINE least == IF n < M THEN M ELSE n
             m     == IF least < top THEN least ELSE top
  <2>1. m \in Nat /\ m >= M
    BY <1>2, <1>4, <1>5
  <2>2. n = m + ((M - (m % M)) % M)
    BY <1>2, <1>4 DEF Normal, NormalizeBufSize, AtMost
  <2> QED BY <2>1, <2>2
<1>7. PICK q \in Nat : n = q * M
  <2>1. PICK p \in Nat : p = most \div M
    BY <1>2, DivMod
  <2>2. PICK r \in 0 .. M - 1 : r = most % M
    BY <1>2, DivMod
  <2>3. PICK pm \in Nat : pm = p * M
    BY <1>2
  <2>4. most = pm + r
    <3>1. most = (most \div M) * M + (most % M)
      BY DivMod
    <3> QED BY <2>1, <2>2, <2>3, <3>1
  <2>5. CASE r = 0
    <3>1. M = 1 * M + 0 /\ 0 \in 0 .. M - 1
      BY <1>2
    <3>2. M % M = 0
      BY <1>2, <3>1, DivModUnique
    <3>3. n = pm
      BY <1>2, <1>6, <2>2, <2>4, <2>5, <3>2
    <3> QED BY <2>3, <3>3
  <2>6. CASE r # 0
    <3>1. M - r = 0 * M + (M - r) /\ M - r \in 0 .. M - 1
      BY <1>2, <2>6
    <3>2. (M - r) % M = M - r
      BY <1>2, <3>1, DivModUnique
    <3>3. n = pm + M
      BY <1>2, <1>6, <2>2, <2>4, <3>2
    <3>4. (p + 1) * M = pm + M /\ p + 1 \in Nat
      BY <1>2, <2>3
    <3> QED BY <3>3, <3>4
  <2> QED BY <2>5, <2>6
<1>8. n % Word = 0
  <2>1. n = (q * c) * Word /\ q * c \in Nat
    BY <1>1, <1>3, <1>7
  <2> QED BY <2>1, Multiple
<1>9. n >= M
  <2>1. (M - (most % M)) % M \in Nat
    <3>1. M - (most % M) \in Nat
      <4>1. most % M \in 0 .. M - 1
        BY <1>2, DivMod
      <4> QED BY <1>2, <4>1
    <3> QED BY <1>2, <3>1, DivMod
  <2> QED BY <1>2, <1>6, <2>1
<1> QED BY <1>1, <1>2, <1>8, <1>9

(* A conversion that begins, or that is undefined from its beginning.      *)
LEMMA Opened ==
  ASSUME IInv, NEW i, i = Len(files), NEW j \in Target(i), NEW n \in Nat,
         NEW t \in BOOLEAN, NEW sockets \in Nat, NEW o \in Ops,
         op' = o, pos' = 0, exit' = FALSE, UNCHANGED <<root, files, made>>,
         call' = [from |-> i, to |-> j, block |-> n, tag |-> t, sockets |-> sockets],
         input' = (IF i = j THEN <<>> ELSE files[i].data),
         o \in {"bin_ds8", "bin_hex"} => files[i].type = "bin",
         o \in {"hex_ds8", "hex_bin"} => files[i].type = "hex",
         o \in {"ds8_hex", "ds8_bin", "transfer"} =>
           files[i].type = "ds8" /\ j # i,
         o \in {"ds8_hex", "ds8_bin"} => n = files[i].block,
         o = "undefined" => ~Normal(n),
         ProgressInv'
  PROVE  IInv'
<1>1. i \in Nat \ {0} /\ j \in {i, i + 1}
  <2>1. i \in Nat \ {0}
    BY DEF IInv, TypeInv
  <2> QED BY <2>1 DEF Target
<1>2. /\ call'.from = i /\ call'.to = j /\ call'.block = n
      /\ call' \in [from : Nat, to : Nat, block : Nat, tag : BOOLEAN, sockets : Nat]
  BY <1>1
<1>3. TypeInv'
  BY <1>2 DEF IInv, TypeInv
<1>4. FilesInv'
  <2>1. \A k : FileInv(k) => FileInv(k)'
    BY DEF FileInv
  <2> QED BY <2>1 DEF IInv, FilesInv
<1>5. CallInv'
  BY <1>1, <1>2 DEF CallInv, Source
<1>6. NoOverrun'
  BY <1>2 DEF NoOverrun
<1> QED BY <1>3, <1>4, <1>5, <1>6 DEF IInv

(* The file that is converted.                                             *)
LEMMA LastFile ==
  ASSUME IInv
  PROVE  /\ Len(files) \in Nat \ {0} /\ files[Len(files)] \in File
         /\ \A j \in Target(Len(files)) : j \in Nat
<1>1. files \in Seq(File) /\ Len(files) \in Nat \ {0}
  BY DEF IInv, TypeInv
<1>2. files[Len(files)] \in File
  BY <1>1
<1> QED BY <1>1, <1>2 DEF Target

(* The size of a block that a buffer of whole words can hold.              *)
LEMMA FitsIs ==
  ASSUME NEW n \in BlockArgs, NEW least \in {2, 3}
  PROVE  /\ n \in Nat
         /\ Fits(least, n) => n \in Sizes /\ n >= least * Word
         /\ ~Fits(least, n) => ~Normal(n)
<1>1. Word \in Nat \ {0}
  BY Constants
<1>2. n \in Nat /\ n < Weight[Word]
  BY ConvertersAssumption
<1>3. least * Word >= 2 * Word /\ 3 * Word >= least * Word
  <2>1. CASE least = 2
    BY <1>1, <2>1
  <2>2. CASE least = 3
    BY <1>1, <2>2
  <2> QED BY <2>1, <2>2
<1>4. least * Word \in Nat
  BY <1>1
<1>5. ASSUME Fits(least, n) PROVE n \in Sizes /\ n >= least * Word
  BY <1>1, <1>2, <1>3, <1>4, <1>5 DEF Fits, Sizes
<1>6. ASSUME Normal(n) PROVE Fits(least, n)
  <2>1. n >= 3 * Word /\ n % Word = 0
    BY <1>2, <1>6, NormalIs
  <2> QED BY <1>1, <1>2, <1>3, <1>4, <2>1 DEF Fits
<1> QED BY <1>2, <1>5, <1>6

(* file_bin_to_ds8 begins; without three words in a block it is undefined. *)
LEMMA OpenBinToDs8Keeps ==
  ASSUME IInv, OpenBinToDs8
  PROVE  IInv'
<1>1. PICK i \in {Len(files)} : \E j \in Target(i), n \in BlockArgs :
        /\ files[i].type = "bin"
        /\ Open(IF Fits(3, n) THEN "bin_ds8" ELSE "undefined", i, j, n, FALSE)
        /\ data' = [k \in 1 .. n - 2 * Word |-> 0] /\ out' = Ds8(n, <<>>, FALSE)
  BY DEF OpenBinToDs8
<1>2. PICK j \in Target(i), n \in BlockArgs :
        /\ files[i].type = "bin"
        /\ Open(IF Fits(3, n) THEN "bin_ds8" ELSE "undefined", i, j, n, FALSE)
        /\ data' = [k \in 1 .. n - 2 * Word |-> 0] /\ out' = Ds8(n, <<>>, FALSE)
  BY <1>1
<1>3. PICK o \in {"bin_ds8", "undefined"} :
        /\ o = (IF Fits(3, n) THEN "bin_ds8" ELSE "undefined")
        /\ Fits(3, n) <=> o = "bin_ds8"
  OBVIOUS
<1>4. Open(o, i, j, n, FALSE)
  BY <1>2, <1>3
<1>5. /\ op' = o /\ pos' = 0 /\ exit' = FALSE /\ UNCHANGED <<root, files, made>>
      /\ call' = [from |-> i, to |-> j, block |-> n, tag |-> FALSE, sockets |-> 1]
      /\ input' = IF i = j THEN <<>> ELSE files[i].data
  BY <1>4 DEF Open
<1>6. /\ n \in Nat
      /\ o = "bin_ds8" => n \in Sizes /\ n >= 3 * Word
      /\ o = "undefined" => ~Normal(n)
  BY <1>3, FitsIs
<1>7. input' \in Seq(Byte)
  <2>1. files[i].data \in Seq(Byte)
    BY <1>2, LastFile, PayloadIs
  <2> QED BY <1>5, <2>1, Nothing
<1>8. ASSUME o = "bin_ds8" PROVE BinToDs8Inv'
  <2>1. call'.block = n /\ n \in Sizes /\ n >= 3 * Word /\ n \in Nat
    BY <1>5, <1>6, <1>8
  <2>2. out'.data = <<>> /\ out' = Ds8(n, <<>>, FALSE) /\ OutBlocks' = 0
    BY <1>2, <2>1, EmptyDs8 DEF OutBlocks
  <2>3. Ds8Out(pos < Len(input))'
    <3>1. (pos < Len(input))' \in BOOLEAN
      OBVIOUS
    <3>2. Filled(<<>>, n, (pos < Len(input))')
      BY <2>1, <3>1, EmptyDs8
    <3> QED BY <2>1, <2>2, <3>2, Nothing DEF Ds8Out
  <2>4. data' \in Seq(Byte) /\ Len(data') = Room'
    <3>1. PICK room \in Nat : room = n - 2 * Word
      <4>1. n - 2 * Word \in Nat
        BY <2>1, Constants
      <4> QED BY <4>1
    <3>2. data' \in [1 .. room -> Byte]
      BY <1>2, <3>1, Constants DEF Byte
    <3>3. data' \in Seq(Byte) /\ Len(data') = room
      BY <3>2
    <3> QED BY <2>1, <3>1, <3>3 DEF Room
  <2>5. Pay(out'.data, call'.block, OutBlocks') = <<>>
    BY <2>1, <2>2, EmptyDs8
  <2>6. SubSeq(input', 1, 0) = <<>>
    BY <1>7
  <2>7. pos' <= Len(input')
    BY <1>5, <1>7
  <2> QED BY <1>5, <2>1, <2>3, <2>4, <2>5, <2>6, <2>7 DEF BinToDs8Inv
<1>9. ProgressInv'
  BY <1>5, <1>8 DEF ProgressInv
<1> QED BY <1>2, <1>5, <1>6, <1>9, Opened DEF Ops

(* file_hex_to_ds8 begins; without two words in a block it is undefined.   *)
LEMMA OpenHexToDs8Keeps ==
  ASSUME IInv, OpenHexToDs8
  PROVE  IInv'
<1>1. PICK i \in {Len(files)} : \E j \in Target(i), n \in BlockArgs :
        /\ files[i].type = "hex"
        /\ Open(IF Fits(2, n) THEN "hex_ds8" ELSE "undefined", i, j, n, FALSE)
        /\ data' = <<>> /\ out' = Ds8(n, <<>>, FALSE)
  BY DEF OpenHexToDs8
<1>2. PICK j \in Target(i), n \in BlockArgs :
        /\ files[i].type = "hex"
        /\ Open(IF Fits(2, n) THEN "hex_ds8" ELSE "undefined", i, j, n, FALSE)
        /\ data' = <<>> /\ out' = Ds8(n, <<>>, FALSE)
  BY <1>1
<1>3. PICK o \in {"hex_ds8", "undefined"} :
        /\ o = (IF Fits(2, n) THEN "hex_ds8" ELSE "undefined")
        /\ Fits(2, n) <=> o = "hex_ds8"
  OBVIOUS
<1>4. Open(o, i, j, n, FALSE)
  BY <1>2, <1>3
<1>5. /\ op' = o /\ pos' = 0 /\ exit' = FALSE /\ UNCHANGED <<root, files, made>>
      /\ call' = [from |-> i, to |-> j, block |-> n, tag |-> FALSE, sockets |-> 1]
      /\ input' = IF i = j THEN <<>> ELSE files[i].data
  BY <1>4 DEF Open
<1>6. /\ n \in Nat
      /\ o = "hex_ds8" => n \in Sizes
      /\ o = "undefined" => ~Normal(n)
  BY <1>3, FitsIs
<1>7. 0 <= Readable(input') /\ FlattenSeq(SubSeq(input', 1, 0)) = <<>>
  <2>1. files[i].data \in Seq(WordSet \cup {Bad})
    BY <1>2, LastFile, PayloadIs
  <2>2. input' \in Seq(WordSet \cup {Bad})
    BY <1>5, <2>1
  <2>3. SubSeq(input', 1, 0) = <<>>
    BY <2>2
  <2>4. Readable(input') \in 0 .. Len(input')
    BY <2>2, ReadableIs
  <2>5. Readable(input') \in Nat
    BY <2>4
  <2>6. PICK v : v = SubSeq(input', 1, 0)
    OBVIOUS
  <2>7. v = <<>>
    BY <2>3, <2>6
  <2>8. FlattenSeq(v) = <<>>
    BY <2>7, Nothing, Zenon
  <2>9. FlattenSeq(SubSeq(input', 1, 0)) = <<>>
    BY <2>6, <2>8, Zenon
  <2>10. 0 <= Readable(input')
    BY <2>5
  <2> QED BY <2>9, <2>10
<1>8. ASSUME o = "hex_ds8" PROVE HexToDs8Inv'
  <2>1. call'.block = n /\ n \in Sizes
    BY <1>5, <1>6, <1>8
  <2>2. out'.data = <<>> /\ out' = Ds8(n, <<>>, FALSE) /\ OutBlocks' = 0
    BY <1>2, <2>1, EmptyDs8 DEF OutBlocks
  <2>3. Ds8Out(~exit)'
    <3>1. (~exit)' \in BOOLEAN
      BY <1>5
    <3>2. Filled(<<>>, n, (~exit)')
      BY <2>1, <3>1, EmptyDs8
    <3> QED BY <2>1, <2>2, <3>2, Nothing DEF Ds8Out
  <2>4. Pay(out'.data, call'.block, OutBlocks') = <<>>
    BY <2>1, <2>2, EmptyDs8
  <2> QED BY <1>5, <1>7, <2>3, <2>4 DEF HexToDs8Inv
<1>9. ProgressInv'
  BY <1>5, <1>8 DEF ProgressInv
<1> QED BY <1>2, <1>5, <1>6, <1>9, Opened DEF Ops

(* file_hex_to_bin begins.                                                 *)
LEMMA OpenHexToBinKeeps ==
  ASSUME IInv, OpenHexToBin
  PROVE  IInv'
<1>1. PICK i \in {Len(files)} : \E j \in Target(i) :
        /\ files[i].type = "hex"
        /\ Open("hex_bin", i, j, 0, FALSE)
        /\ data' = <<>> /\ out' = Bin(<<>>)
  BY DEF OpenHexToBin
<1>2. PICK j \in Target(i) :
        /\ files[i].type = "hex"
        /\ Open("hex_bin", i, j, 0, FALSE)
        /\ data' = <<>> /\ out' = Bin(<<>>)
  BY <1>1
<1>3. /\ op' = "hex_bin" /\ pos' = 0 /\ exit' = FALSE
      /\ UNCHANGED <<root, files, made>>
      /\ call' = [from |-> i, to |-> j, block |-> 0, tag |-> FALSE, sockets |-> 1]
      /\ input' = IF i = j THEN <<>> ELSE files[i].data
  BY <1>2 DEF Open
<1>4. 0 <= Readable(input') /\ FlattenSeq(SubSeq(input', 1, 0)) = <<>>
  <2>1. files[i].data \in Seq(WordSet \cup {Bad})
    BY <1>2, LastFile, PayloadIs
  <2>2. input' \in Seq(WordSet \cup {Bad})
    BY <1>3, <2>1
  <2>3. SubSeq(input', 1, 0) = <<>>
    BY <2>2
  <2>4. Readable(input') \in 0 .. Len(input')
    BY <2>2, ReadableIs
  <2>5. Readable(input') \in Nat
    BY <2>4
  <2>6. PICK v : v = SubSeq(input', 1, 0)
    OBVIOUS
  <2>7. v = <<>>
    BY <2>3, <2>6
  <2>8. FlattenSeq(v) = <<>>
    BY <2>7, Nothing, Zenon
  <2>9. FlattenSeq(SubSeq(input', 1, 0)) = <<>>
    BY <2>6, <2>8, Zenon
  <2>10. 0 <= Readable(input')
    BY <2>5
  <2> QED BY <2>9, <2>10
<1>5. out' \in BinFile /\ out'.data = <<>>
  BY <1>2, Nothing DEF Bin, BinFile
<1>6. ProgressInv'
  BY <1>3, <1>4, <1>5 DEF ProgressInv, HexToBinInv
<1> QED BY <1>2, <1>3, <1>6, Opened DEF Ops

(* file_bin_to_hex begins.                                                 *)
LEMMA OpenBinToHexKeeps ==
  ASSUME IInv, OpenBinToHex
  PROVE  IInv'
<1>1. PICK i \in {Len(files)} : \E j \in Target(i), t \in BOOLEAN :
        /\ files[i].type = "bin"
        /\ Open("bin_hex", i, j, 0, t)
        /\ data' = [k \in 1 .. HexBuf * Word |-> 0] /\ out' = Hex(<<>>)
  BY DEF OpenBinToHex
<1>2. PICK j \in Target(i), t \in BOOLEAN :
        /\ files[i].type = "bin"
        /\ Open("bin_hex", i, j, 0, t)
        /\ data' = [k \in 1 .. HexBuf * Word |-> 0] /\ out' = Hex(<<>>)
  BY <1>1
<1>3. /\ op' = "bin_hex" /\ pos' = 0 /\ exit' = FALSE
      /\ UNCHANGED <<root, files, made>>
      /\ call' = [from |-> i, to |-> j, block |-> 0, tag |-> t, sockets |-> 1]
      /\ input' = IF i = j THEN <<>> ELSE files[i].data
  BY <1>2 DEF Open
<1>4. input' \in Seq(Byte)
  <2>1. files[i].data \in Seq(Byte)
    BY <1>2, LastFile, PayloadIs
  <2> QED BY <1>3, <2>1, Nothing
<1>5. out' \in HexOut /\ out'.data = <<>>
  BY <1>2, Nothing DEF Hex, HexOut
<1>6. data' \in Seq(Byte) /\ Len(data') = HexBuf * Word
  <2>1. HexBuf * Word \in Nat
    BY Constants
  <2>2. PICK m \in Nat : m = HexBuf * Word
    BY <2>1
  <2>3. data' \in [1 .. m -> Byte]
    BY <1>2, <2>2, Constants DEF Byte
  <2>4. data' \in Seq(Byte) /\ Len(data') = m
    BY <2>3
  <2> QED BY <2>2, <2>4
<1>7. Len(out'.data) * Word = RoundUp(pos')
  <2>1. Len(out'.data) = 0
    BY <1>5
  <2>2. 0 * Word = 0
    BY Constants
  <2> QED BY <1>3, <2>1, <2>2, Nothing
<1>8. pos' <= Len(input') /\ pos' % Word = 0
  BY <1>3, <1>4, Nothing
<1>9. SameTo(input', FlattenSeq(out'.data), pos')
  BY <1>3 DEF SameTo
<1>10. BinToHexInv'
  BY <1>5, <1>6, <1>7, <1>8, <1>9 DEF BinToHexInv
<1>11. ProgressInv'
  BY <1>3, <1>10 DEF ProgressInv
<1> QED BY <1>2, <1>3, <1>11, Opened DEF Ops

(* file_ds8_to_hex begins.                                                 *)
LEMMA OpenDs8ToHexKeeps ==
  ASSUME IInv, OpenDs8ToHex
  PROVE  IInv'
<1>1. PICK i \in {Len(files)} : \E j \in Target(i) \ {i}, t \in BOOLEAN :
        /\ files[i].type = "ds8" /\ ~files[i].cut
        /\ Open("ds8_hex", i, j, files[i].block, t)
        /\ data' = <<>> /\ out' = Hex(<<>>)
  BY DEF OpenDs8ToHex
<1>2. PICK j \in Target(i) \ {i}, t \in BOOLEAN :
        /\ files[i].type = "ds8"
        /\ Open("ds8_hex", i, j, files[i].block, t)
        /\ out' = Hex(<<>>)
  BY <1>1
<1>3. PICK n \in Sizes : n = files[i].block /\ n \in Nat
  <2>1. files[i].block \in Sizes
    BY <1>2, LastFile, PayloadIs
  <2> QED BY <2>1, SizeIs
<1>4. /\ op' = "ds8_hex" /\ pos' = 0 /\ exit' = FALSE
      /\ UNCHANGED <<root, files, made>>
      /\ call' = [from |-> i, to |-> j, block |-> n, tag |-> t, sockets |-> 1]
      /\ input' = IF i = j THEN <<>> ELSE files[i].data
  BY <1>2, <1>3 DEF Open
<1>5. PICK w \in Seq(WordSet) : w = input'
  BY <1>2, <1>4, LastFile, PayloadIs
<1>6. /\ pos' <= Blocks(input', call'.block)
      /\ Pay(input', call'.block, pos') = <<>>
  <2>1. 0 <= Blocks(w, n)
    BY BlocksIs
  <2>2. Pay(w, n, 0) = <<>>
    BY PayIs
  <2> QED BY <1>4, <1>5, <2>1, <2>2
<1>7. out' \in HexOut /\ out'.data = <<>>
  BY <1>2, Nothing DEF Hex, HexOut
<1>8. /\ Len(<<>>) = 0 /\ 0 * Word = Down(0) /\ 0 % Word = 0
      /\ SameTo(<<>>, FlattenSeq(<<>>), Down(0))
  <2>1. 0 * Word = 0
    BY Constants
  <2> QED BY <2>1, Nothing DEF SameTo
<1>9. Ds8ToHexInv'
  BY <1>6, <1>7, <1>8 DEF Ds8ToHexInv
<1>10. ProgressInv'
  BY <1>4, <1>9 DEF ProgressInv
<1> QED BY <1>2, <1>3, <1>4, <1>10, Opened DEF Ops

(* file_ds8_to_bin begins.                                                 *)
LEMMA OpenDs8ToBinKeeps ==
  ASSUME IInv, OpenDs8ToBin
  PROVE  IInv'
<1>1. PICK i \in {Len(files)} : \E j \in Target(i) \ {i} :
        /\ files[i].type = "ds8" /\ ~files[i].cut
        /\ Open("ds8_bin", i, j, files[i].block, FALSE)
        /\ data' = <<>> /\ out' = Bin(<<>>)
  BY DEF OpenDs8ToBin
<1>2. PICK j \in Target(i) \ {i} :
        /\ files[i].type = "ds8"
        /\ Open("ds8_bin", i, j, files[i].block, FALSE)
        /\ out' = Bin(<<>>)
  BY <1>1
<1>3. PICK n \in Sizes : n = files[i].block /\ n \in Nat
  <2>1. files[i].block \in Sizes
    BY <1>2, LastFile, PayloadIs
  <2> QED BY <2>1, SizeIs
<1>4. /\ op' = "ds8_bin" /\ pos' = 0 /\ exit' = FALSE
      /\ UNCHANGED <<root, files, made>>
      /\ call' = [from |-> i, to |-> j, block |-> n, tag |-> FALSE, sockets |-> 1]
      /\ input' = IF i = j THEN <<>> ELSE files[i].data
  BY <1>2, <1>3 DEF Open
<1>5. PICK w \in Seq(WordSet) : w = input'
  BY <1>2, <1>4, LastFile, PayloadIs
<1>6. /\ pos' <= Blocks(input', call'.block)
      /\ Pay(input', call'.block, pos') = <<>>
  <2>1. 0 <= Blocks(w, n)
    BY BlocksIs
  <2>2. Pay(w, n, 0) = <<>>
    BY PayIs
  <2> QED BY <1>4, <1>5, <2>1, <2>2
<1>7. out' \in BinFile /\ out'.data = <<>>
  BY <1>2, Nothing DEF Bin, BinFile
<1>8. Ds8ToBinInv'
  BY <1>6, <1>7 DEF Ds8ToBinInv
<1>9. ProgressInv'
  BY <1>4, <1>8 DEF ProgressInv
<1> QED BY <1>2, <1>3, <1>4, <1>9, Opened DEF Ops

-----------------------------------------------------------------------------
(* The turns of the sockets: of q * sockets + r blocks, each has had q, and*)
(* the first r of them one more.                                           *)
LEMMA ShareAt ==
  ASSUME call.sockets \in Nat \ {0}, NEW q \in Nat,
         NEW r \in 0 .. call.sockets - 1, NEW s \in 1 .. call.sockets
  PROVE  ShareOf(q * call.sockets + r, s) = IF s <= r THEN q + 1 ELSE q
<1>1. PICK c \in Nat \ {0} : c = call.sockets
  OBVIOUS
<1>2. PICK qc \in Nat : qc = q * c
  BY <1>1
<1>3. CASE s <= r
  <2>1. PICK h \in Nat, o \in 0 .. c - 1 : h = q + 1 /\ o = r - s
    <3>1. r - s \in 0 .. c - 1 /\ q + 1 \in Nat
      BY <1>1, <1>3
    <3> QED BY <3>1
  <2>2. qc + r + c - s = h * c + o
    BY <1>1, <1>2, <2>1
  <2>3. (qc + r + c - s) \div c = q + 1
    <3>1. (h * c + o) \div c = h
      BY DivModUnique
    <3> QED BY <2>1, <2>2, <3>1
  <2> QED BY <1>1, <1>2, <1>3, <2>3 DEF ShareOf
<1>4. CASE r < s
  <2>1. PICK o \in 0 .. c - 1 : o = r + c - s
    <3>1. r + c - s \in 0 .. c - 1
      BY <1>1, <1>4
    <3> QED BY <3>1
  <2>2. qc + r + c - s = q * c + o
    BY <1>1, <1>2, <2>1
  <2>3. (qc + r + c - s) \div c = q
    <3>1. (q * c + o) \div c = q
      BY DivModUnique
    <3> QED BY <2>2, <3>1
  <2> QED BY <1>1, <1>2, <1>4, <2>3 DEF ShareOf
<1> QED BY <1>3, <1>4

(* The next block goes to the socket whose turn it is, and to no other.    *)
LEMMA Shares ==
  ASSUME call.sockets \in Nat \ {0}, NEW m \in Nat
  PROVE  LET t == (m % call.sockets) + 1
         IN /\ t \in 1 .. call.sockets
            /\ Turn(ShareOf(m, t) + 1, t) = m + 1
            /\ \A s \in 1 .. call.sockets :
                 /\ ShareOf(m, s) \in Nat /\ ShareOf(0, s) = 0
                 /\ ShareOf(m + 1, s)
                      = IF s = t THEN ShareOf(m, s) + 1 ELSE ShareOf(m, s)
<1>1. PICK c \in Nat \ {0} : c = call.sockets
  OBVIOUS
<1>2. PICK q \in Nat : q = m \div c
  BY DivMod
<1>3. PICK r \in 0 .. c - 1 : r = m % c
  BY DivMod
<1>4. m = q * c + r
  BY <1>2, <1>3, DivMod
<1>5. r + 1 \in 1 .. c
  BY <1>3
<1>6. \A s \in 1 .. c : ShareOf(m, s) = IF s <= r THEN q + 1 ELSE q
  BY <1>1, <1>4, ShareAt
<1>7. Turn(ShareOf(m, r + 1) + 1, r + 1) = m + 1
  <2>1. ShareOf(m, r + 1) = q
    BY <1>3, <1>5, <1>6
  <2>2. (q + 1 - 1) * c + (r + 1) = m + 1
    BY <1>4
  <2> QED BY <1>1, <2>1, <2>2 DEF Turn
<1>8. ASSUME NEW s \in 1 .. c PROVE ShareOf(0, s) = 0
  <2>1. 0 = 0 * c + 0 /\ 0 \in 0 .. c - 1
    OBVIOUS
  <2>2. ShareOf(0 * c + 0, s) = IF s <= 0 THEN 0 + 1 ELSE 0
    BY <1>1, <2>1, ShareAt
  <2> QED BY <2>1, <2>2
<1>9. ASSUME NEW s \in 1 .. c
      PROVE  ShareOf(m + 1, s)
               = IF s = r + 1 THEN ShareOf(m, s) + 1 ELSE ShareOf(m, s)
  <2>1. CASE r + 1 < c
    <3>1. r + 1 \in 0 .. c - 1 /\ m + 1 = q * c + (r + 1)
      BY <1>3, <1>4, <2>1
    <3>2. ShareOf(q * c + (r + 1), s) = IF s <= r + 1 THEN q + 1 ELSE q
      BY <1>1, <3>1, ShareAt
    <3>3. ShareOf(m + 1, s) = IF s <= r + 1 THEN q + 1 ELSE q
      BY <3>1, <3>2
    <3>4. ShareOf(m, s) = IF s <= r THEN q + 1 ELSE q
      BY <1>6
    <3> QED BY <1>3, <3>3, <3>4
  <2>2. CASE r + 1 = c
    <3>1. m + 1 = (q + 1) * c + 0 /\ 0 \in 0 .. c - 1 /\ q + 1 \in Nat
      BY <1>4, <2>2
    <3>2. ShareOf((q + 1) * c + 0, s) = IF s <= 0 THEN (q + 1) + 1 ELSE q + 1
      BY <1>1, <3>1, ShareAt
    <3>3. ShareOf(m + 1, s) = q + 1
      BY <3>1, <3>2
    <3>4. ShareOf(m, s) = IF s <= r THEN q + 1 ELSE q
      BY <1>6
    <3> QED BY <1>3, <2>2, <3>3, <3>4
  <2> QED BY <1>3, <2>1, <2>2
<1>10. ASSUME NEW s \in 1 .. c PROVE ShareOf(m, s) \in Nat
  BY <1>6
<1> QED BY <1>1, <1>3, <1>5, <1>7, <1>8, <1>9, <1>10

(* What is under way on a socket is blocks, in their order.                *)
LEMMA QueueMore ==
  ASSUME NEW n \in Sizes, NEW d \in Nat, NEW w \in Seq(WordSet),
         Len(w) = d * (n \div Word), NEW b \in Seq(WordSet), Len(b) = n \div Word
  PROVE  /\ Len(w \o b) = (d + 1) * (n \div Word)
         /\ BlockOf(w \o b, n, d + 1) = b
         /\ \A i \in 1 .. d : BlockOf(w \o b, n, i) = BlockOf(w, n, i)
<1>1. Blocks(w, n) = d
  BY BlocksIs
<1>2. /\ w \o b \in Seq(WordSet) /\ Blocks(w \o b, n) = d + 1
      /\ Len(w \o b) = (d + 1) * (n \div Word) /\ Begins(w, w \o b)
      /\ BlockOf(w \o b, n, d + 1) = b
  BY <1>1, BlockAppend
<1>3. \A i \in 1 .. d : BlockOf(w \o b, n, i) = BlockOf(w, n, i)
  BY <1>1, <1>2, BlockBegins
<1> QED BY <1>2, <1>3

(* What is left when the first block is taken.                             *)
LEMMA QueueLess ==
  ASSUME NEW n \in Sizes, NEW d \in Nat \ {0}, NEW w \in Seq(WordSet),
         Len(w) = d * (n \div Word)
  PROVE  LET v == SubSeq(w, (n \div Word) + 1, Len(w))
         IN /\ SubSeq(w, 1, n \div Word) = BlockOf(w, n, 1)
            /\ Len(v) = (d - 1) * (n \div Word)
            /\ \A i \in 1 .. d - 1 : BlockOf(v, n, i) = BlockOf(w, n, i + 1)
<1>1. PICK N \in Nat : N = n \div Word /\ N >= 2
  BY SizeIs
<1>2. PICK e \in Nat : e = d - 1 /\ d = e + 1
  <2>1. d - 1 \in Nat
    OBVIOUS
  <2> QED BY <2>1
<1>3. PICK eN \in Nat : eN = e * N
  BY <1>1
<1>4. Len(w) = eN + N
  BY <1>1, <1>2, <1>3
<1>5. PICK v \in Seq(WordSet) :
        /\ v = SubSeq(w, N + 1, Len(w)) /\ Len(v) = eN
        /\ \A k \in 1 .. eN : v[k] = w[N + k]
  <2>1. N <= Len(w) /\ Len(w) - N = eN /\ Len(w) \in Nat
    BY <1>1, <1>4
  <2>2. /\ SubSeq(w, N + 1, Len(w)) \in Seq(WordSet)
        /\ Len(SubSeq(w, N + 1, Len(w))) = Len(w) - N
        /\ \A k \in 1 .. Len(w) - N : SubSeq(w, N + 1, Len(w))[k] = w[N + k]
    BY <2>1, SubIs
  <2> QED BY <2>1, <2>2
<1>6. Blocks(w, n) = d /\ Blocks(v, n) = e
  <2>1. Len(v) = e * (n \div Word)
    BY <1>1, <1>3, <1>5
  <2> QED BY <2>1, BlocksIs
<1>7. SubSeq(w, 1, N) = BlockOf(w, n, 1)
  <2>1. (1 - 1) * N + 1 = 1 /\ 1 * N = N
    OBVIOUS
  <2>2. BlockOf(w, n, 1) = SubSeq(w, (1 - 1) * N + 1, 1 * N)
    BY <1>1 DEF BlockOf
  <2> QED BY <2>1, <2>2
<1>8. ASSUME NEW i \in 1 .. e PROVE BlockOf(v, n, i) = BlockOf(w, n, i + 1)
  <2>1. PICK a \in Seq(WordSet) : a = BlockOf(v, n, i) /\ Len(a) = N
    BY <1>1, <1>6, BlockIs
  <2>2. i + 1 \in 1 .. d
    BY <1>2
  <2>3. PICK b \in Seq(WordSet) : b = BlockOf(w, n, i + 1) /\ Len(b) = N
    BY <1>1, <1>6, <2>2, BlockIs
  <2>4. PICK x \in Nat : x = (i - 1) * N
    <3>1. i - 1 \in Nat
      OBVIOUS
    <3>2. (i - 1) * N \in Nat
      BY <3>1
    <3> QED BY <3>2
  <2>5. (i + 1 - 1) * N = x + N
    BY <2>4
  <2>6. ASSUME NEW o \in 1 .. N PROVE a[o] = b[o]
    <3>1. x + o \in 1 .. eN /\ a[o] = v[x + o]
      <4>1. i \in 1 .. Blocks(v, n) /\ o \in 1 .. n \div Word
        BY <1>1, <1>6
      <4>2. /\ (i - 1) * (n \div Word) + o \in 1 .. Len(v)
            /\ BlockOf(v, n, i)[o] = v[(i - 1) * (n \div Word) + o]
        BY <4>1, BlockIs
      <4>3. (i - 1) * (n \div Word) = x
        BY <1>1, <2>4
      <4> QED BY <1>5, <2>1, <4>2, <4>3
    <3>2. b[o] = w[x + N + o]
      <4>1. PICK j \in 1 .. Blocks(w, n) : j = i + 1
        BY <1>6, <2>2
      <4>2. o \in 1 .. n \div Word
        BY <1>1
      <4>3. BlockOf(w, n, j)[o] = w[(j - 1) * (n \div Word) + o]
        BY <4>2, BlockIs
      <4>4. (j - 1) * N = x + N
        <5>1. (i + 1 - 1) * N = (j - 1) * N
          BY <4>1
        <5> QED BY <2>5, <5>1
      <4> QED BY <1>1, <2>3, <4>1, <4>3, <4>4
    <3>3. v[x + o] = w[N + (x + o)]
      BY <1>5, <3>1
    <3>4. x + N + o = N + (x + o)
      OBVIOUS
    <3> QED BY <3>1, <3>2, <3>3, <3>4
  <2>7. a = b
    BY <2>1, <2>3, <2>6, SeqEqual
  <2> QED BY <2>1, <2>3, <2>7
<1> QED BY <1>1, <1>2, <1>3, <1>5, <1>7, <1>8

-----------------------------------------------------------------------------
(* The transfer.                                                           *)
LEMMA TransferIs ==
  ASSUME IInv, op = "transfer"
  PROVE  /\ TransferInv /\ Busy
         /\ call.block \in Sizes /\ Source.block \in Sizes
         /\ call.sockets \in Nat \ {0} /\ pos \in Nat /\ OutBlocks \in Nat
         /\ input \in Seq(WordSet) /\ exit \in BOOLEAN
         /\ Source.data \in Seq(WordSet)
<1>1. TransferInv /\ Busy
  BY DEF IInv, ProgressInv, Busy
<1>2. call.block \in Sizes
  BY <1>1, Constants DEF TransferInv
<1>3. call.sockets \in Nat \ {0}
  BY <1>1, ConvertersAssumption DEF TransferInv
<1>4. out.data \in Seq(WordSet)
  BY <1>1 DEF TransferInv
<1>5. OutBlocks \in Nat
  BY <1>2, <1>4, BlocksIs DEF OutBlocks
<1>6. exit \in BOOLEAN /\ pos \in Nat /\ input \in Seq(WordSet)
  BY <1>1 DEF IInv, TypeInv, TransferInv
<1>7. Source \in File /\ Source.type = "ds8"
  BY <1>1, BusyIs DEF IInv, CallInv
<1>8. Source.block \in Sizes /\ Source.data \in Seq(WordSet)
  BY <1>7, PayloadIs
<1> QED BY <1>1, <1>2, <1>3, <1>5, <1>6, <1>8

(* What the buffer holds after a read: the block, if it could be read.     *)
LEMMA ReadIs ==
  ASSUME IInv, op = "transfer", pos < ToSend,
         ReadBlock(Source.block \div Word)
  PROVE  /\ data' \in Seq(WordSet) /\ Len(data') = Source.block \div Word
         /\ input = Source.data => data' = BlockOf(input, Source.block, pos + 1)
<1>1. PICK n \in Sizes : n = Source.block
  BY TransferIs
<1>2. PICK N \in Nat : N = n \div Word
  BY SizeIs
<1>3. PICK p \in Nat, w \in Seq(WordSet), d \in Seq(WordSet) :
        p = pos /\ w = input /\ d = data /\ Len(d) = N
  BY <1>1, <1>2, TransferIs DEF TransferInv
<1>4. PICK x \in Nat : x = p * N
  BY <1>2
<1>5. data' = [o \in 1 .. N |-> IF x + o <= Len(w) THEN w[x + o] ELSE d[o]]
  BY <1>1, <1>2, <1>3, <1>4 DEF ReadBlock
<1>6. ASSUME NEW o \in 1 .. N
      PROVE  (IF x + o <= Len(w) THEN w[x + o] ELSE d[o]) \in WordSet
  BY <1>3, <1>6
<1>7. data' \in Seq(WordSet) /\ Len(data') = N
  <2>1. data' \in [1 .. N -> WordSet]
    BY <1>5, <1>6
  <2> QED BY <1>2, <2>1
<1>8. ASSUME input = Source.data
      PROVE  data' = BlockOf(input, Source.block, pos + 1)
  <2>1. PICK i \in 1 .. Blocks(w, n) : i = p + 1
    <3>1. p < Blocks(w, n) /\ Blocks(w, n) \in Nat
      BY <1>1, <1>3, <1>8, BlocksIs DEF ToSend, Source
    <3> QED BY <3>1
  <2>2. PICK b \in Seq(WordSet) : b = BlockOf(w, n, i) /\ Len(b) = N
    BY <1>2, BlockIs
  <2>3. ASSUME NEW o \in 1 .. N PROVE b[o] = data'[o]
    <3>1. /\ (i - 1) * N + o \in 1 .. Len(w)
          /\ b[o] = w[(i - 1) * N + o]
      BY <1>2, <2>2, BlockIs
    <3>2. (i - 1) * N = x
      <4>1. i - 1 = p
        BY <2>1
      <4> QED BY <1>4, <4>1
    <3>3. x + o <= Len(w) /\ b[o] = w[x + o]
      BY <3>1, <3>2
    <3> QED BY <1>5, <3>3
  <2>4. PICK e \in Seq(WordSet) : e = data' /\ Len(e) = N
    BY <1>7
  <2>5. b = e
    BY <2>2, <2>3, <2>4, SeqEqual
  <2> QED BY <1>1, <1>3, <2>1, <2>2, <2>4, <2>5
<1> QED BY <1>1, <1>2, <1>7, <1>8

(* A read that fails leaves less than the file to be read.                 *)
LEMMA ReadsFailKeeps ==
  ASSUME IInv, ReadsFail
  PROVE  IInv'
<1>1. /\ op = "transfer" /\ pos < ToSend /\ input = Source.data
      /\ UNCHANGED <<root, files, made, op, call, pos, exit, data, out, wire>>
  BY DEF ReadsFail, Source
<1>2. PICK n \in Sizes, w \in Seq(WordSet), p \in Nat :
        n = Source.block /\ w = input /\ p = pos
  BY <1>1, TransferIs
<1>3. PICK N \in Nat : N = n \div Word
  BY <1>2, SizeIs
<1>4. PICK k \in 0 .. N - 1 : input' = SubSeq(w, 1, p * N + k)
  BY <1>2, <1>3 DEF ReadsFail, Source
<1>5. PICK l \in Nat : l = p * N + k /\ l < Len(w)
  <2>1. p + 1 <= Blocks(w, n)
    BY <1>1, <1>2, BlocksIs DEF ToSend, Source
  <2>2. (p + 1) * N <= Len(w)
    BY <1>3, <2>1, BlocksIs
  <2>3. PICK x \in Nat : x = p * N
    BY <1>3
  <2>4. (p + 1) * N = x + N
    BY <1>3, <2>3
  <2> QED BY <2>2, <2>3, <2>4
<1>6. input' \in Seq(WordSet) /\ Len(input') = l
  <2>1. l \in 0 .. Len(w)
    BY <1>5
  <2>2. SubSeq(w, 1, l) \in Seq(WordSet) /\ Len(SubSeq(w, 1, l)) = l
    BY <2>1, FirstIs, ZenonT(60)
  <2> QED BY <1>4, <1>5, <2>2
<1>7. Source' = Source /\ ToSend' = ToSend /\ OutBlocks' = OutBlocks
      /\ input' # Source'.data
  BY <1>1, <1>2, <1>5, <1>6 DEF Source, ToSend, OutBlocks
<1>8. TransferInv'
  <2>1. TransferInv
    BY <1>1, TransferIs
  <2> QED BY <1>1, <1>6, <1>7, <2>1 DEF TransferInv
<1>9. ProgressInv'
  BY <1>1, <1>8 DEF ProgressInv
<1>10. TypeInv'
  BY <1>1 DEF IInv, TypeInv
<1>11. FilesInv'
  <2>1. \A i : FileInv(i) => FileInv(i)'
    BY <1>1 DEF FileInv
  <2> QED BY <1>1, <2>1 DEF IInv, FilesInv
<1>12. CallInv'
  BY <1>1 DEF IInv, CallInv, Busy, Source
<1>13. NoOverrun'
  BY <1>1 DEF IInv, NoOverrun
<1> QED BY <1>9, <1>10, <1>11, <1>12, <1>13 DEF IInv

(* sendDS8File hands a block to the socket whose turn it is.               *)
LEMMA SendDs8BlockKeeps ==
  ASSUME IInv, SendDs8Block
  PROVE  IInv'
<1>1. /\ op = "transfer" /\ pos < ToSend /\ pos' = pos + 1
      /\ ReadBlock(Source.block \div Word)
      /\ wire' = [wire EXCEPT ![(pos % call.sockets) + 1] = @ \o data']
      /\ UNCHANGED <<root, files, made, op, call, input, exit, out>>
  BY DEF SendDs8Block, Source
<1>2. TransferInv
  BY <1>1, TransferIs
<1>3. PICK n \in Sizes, from \in Sizes : n = call.block /\ from = Source.block
  BY <1>1, TransferIs
<1>4. PICK c \in Nat \ {0} : c = call.sockets
  BY <1>1, TransferIs
<1>5. pos \in Nat /\ input \in Seq(WordSet) /\ OutBlocks \in Nat
  BY <1>1, TransferIs
<1>6. PICK t \in 1 .. c : t = (pos % c) + 1
  BY <1>4, <1>5, Shares
<1>7. PICK b \in Seq(WordSet) :
        /\ b = data' /\ Len(b) = from \div Word
        /\ input = Source.data => b = BlockOf(input, from, pos + 1)
  BY <1>1, <1>3, ReadIs
<1>8. wire \in [1 .. c -> Seq(WordSet)]
  BY <1>2, <1>4 DEF TransferInv
<1>9. PICK w \in Seq(WordSet) : w = wire[t]
  BY <1>8
<1>10. wire' = [wire EXCEPT ![t] = w \o b] /\ w \o b \in Seq(WordSet)
  BY <1>1, <1>3, <1>4, <1>6, <1>7, <1>9, ConcatIs
<1>11. wire' \in [1 .. c -> Seq(WordSet)]
  BY <1>8, <1>10
<1>12. /\ call' = call /\ input' = input /\ out' = out /\ made' = made
       /\ exit' = exit /\ Source' = Source /\ OutBlocks' = OutBlocks
  BY <1>1 DEF Source, OutBlocks
<1>13. pos' <= ToSend' /\ data' \in Seq(WordSet)
       /\ Len(data') = Source'.block \div Word
  <2>1. ToSend \in Nat /\ ToSend' = ToSend
    BY <1>1, <1>3, TransferIs, BlocksIs DEF ToSend, Source
  <2> QED BY <1>1, <1>3, <1>5, <1>7, <1>12, <2>1
<1>14. ASSUME Before.same, from = n, input = Source.data PROVE InOrder'
  <2>1. InOrder
    BY <1>2, <1>3, <1>14 DEF TransferInv, Before
  <2>2. OutBlocks' <= pos'
    BY <1>1, <1>5, <1>12, <2>1 DEF InOrder
  <2>3. ASSUME NEW s \in 1 .. c
        PROVE  OnWire(wire[s], s, ShareOf(OutBlocks, s), ShareOf(pos, s))'
    <3>1. PICK k \in Nat : k = ShareOf(OutBlocks, s)
      BY <1>4, <1>5, Shares
    <3>2. PICK m \in Nat : m = ShareOf(pos, s)
      BY <1>4, <1>5, Shares
    <3>3. OnWire(wire[s], s, k, m)
      BY <1>4, <2>1, <3>1, <3>2 DEF InOrder
    <3>4. ShareOf(OutBlocks, s)' = k
      BY <1>12, <3>1 DEF ShareOf
    <3>5. ShareOf(pos, s)' = IF s = t THEN m + 1 ELSE m
      <4>1. ShareOf(pos + 1, s) = IF s = t THEN m + 1 ELSE m
        BY <1>4, <1>5, <1>6, <3>2, Shares
      <4> QED BY <1>1, <1>12, <4>1 DEF ShareOf
    <3>6. CASE s # t
      <4>1. wire'[s] = wire[s]
        BY <1>8, <1>10, <3>6
      <4>2. OnWire(wire[s], s, k, m)'
        BY <1>12, <3>3, <4>1 DEF OnWire, Turn
      <4> QED BY <3>4, <3>5, <3>6, <4>2 DEF OnWire, Turn
    <3>7. CASE s = t
      <4>1. wire'[s] = w \o b
        BY <1>8, <1>10, <3>7
      <4>2. PICK d \in Nat : d = m - k /\ Len(w) = d * (n \div Word)
        <5>1. Len(w) = (m - k) * (n \div Word)
          BY <1>3, <1>9, <3>3, <3>7 DEF OnWire
        <5>2. PICK N \in Nat : N = n \div Word /\ N >= 2
          BY SizeIs
        <5>3. PICK d \in Int : d = m - k
          OBVIOUS
        <5>4. d \in Nat
          <6> SUFFICES ASSUME d < 0 PROVE FALSE
            BY <5>3
          <6>1. PICK e \in Nat : d + 1 + e = 0
            <7>1. 0 - d - 1 \in Nat
              BY <5>3
            <7> QED BY <5>3, <7>1
          <6>2. e * N \in Nat
            BY <5>2
          <6>3. d * N = 0 - N - e * N
            <7>1. d = 0 - 1 - e
              BY <5>3, <6>1
            <7>2. (0 - 1 - e) * N = 0 - N - e * N
              BY <5>2
            <7> QED BY <7>1, <7>2
          <6>4. Len(w) = d * N /\ Len(w) \in Nat
            BY <5>1, <5>2, <5>3
          <6> QED BY <5>2, <6>2, <6>3, <6>4
        <5> QED BY <5>1, <5>3, <5>4
      <4>3. Len(b) = n \div Word
        BY <1>7, <1>14
      <4>4. /\ Len(w \o b) = (d + 1) * (n \div Word)
            /\ BlockOf(w \o b, n, d + 1) = b
            /\ \A i \in 1 .. d : BlockOf(w \o b, n, i) = BlockOf(w, n, i)
        BY <4>2, <4>3, QueueMore
      <4>5. ASSUME NEW i \in 1 .. d + 1
            PROVE  BlockOf(w \o b, n, i) = BlockOf(input, n, Turn(k + i, s))
        <5>1. CASE i \in 1 .. d
          <6>1. BlockOf(w, n, i) = BlockOf(input, n, Turn(k + i, s))
            BY <1>3, <1>9, <3>3, <3>7, <4>2, <5>1 DEF OnWire
          <6> QED BY <4>4, <5>1, <6>1
        <5>2. CASE i = d + 1
          <6>1. k + i = m + 1
            BY <4>2, <5>2
          <6>2. Turn(m + 1, s) = pos + 1
            BY <1>4, <1>5, <1>6, <3>2, <3>7, Shares
          <6>3. b = BlockOf(input, n, pos + 1)
            BY <1>7, <1>14
          <6> QED BY <4>4, <5>2, <6>1, <6>2, <6>3
        <5> QED BY <5>1, <5>2
      <4>6. (m + 1) - k = d + 1
        BY <4>2
      <4>7. OnWire(w \o b, s, k, m + 1)
        BY <1>3, <4>4, <4>5, <4>6 DEF OnWire
      <4>8. ShareOf(pos, s)' = m + 1
        BY <3>5, <3>7
      <4> QED BY <1>12, <3>4, <4>1, <4>7, <4>8 DEF OnWire, Turn
    <3> QED BY <3>6, <3>7
  <2> QED BY <1>4, <1>12, <2>1, <2>2, <2>3 DEF InOrder
<1>15. TransferInv'
  BY <1>2, <1>3, <1>4, <1>11, <1>12, <1>13, <1>14 DEF TransferInv, Before
<1>16. ProgressInv'
  BY <1>1, <1>15 DEF ProgressInv
<1>17. pos' \in Nat /\ exit' \in BOOLEAN
  BY <1>1, <1>5, TransferIs
<1> QED BY <1>1, <1>16, <1>17, Continues

(* receiveToDs8 takes the block that is next: the one at the head of the   *)
(* socket whose turn it is.                                                *)
LEMMA ReceiveDs8BlockKeeps ==
  ASSUME IInv, ReceiveDs8Block
  PROVE  IInv'
<1>1. PICK n \in Sizes, from \in Sizes :
        n = call.block /\ from = Source.block /\ op = "transfer"
  BY TransferIs DEF ReceiveDs8Block
<1>2. PICK c \in Nat \ {0} : c = call.sockets
  BY <1>1, TransferIs
<1>3. pos \in Nat /\ input \in Seq(WordSet) /\ TransferInv
  BY <1>1, TransferIs
<1>4. PICK N \in Nat : N = n \div Word /\ N >= 2
  BY SizeIs
<1>5. PICK M \in Nat : M = OutBlocks
  BY <1>1, TransferIs
<1>6. PICK t \in 1 .. c : t = (M % c) + 1
  BY <1>2, Shares
<1>7. wire \in [1 .. c -> Seq(WordSet)]
  BY <1>2, <1>3 DEF TransferInv
<1>8. PICK w \in Seq(WordSet) : w = wire[t]
  BY <1>7
<1>9. ((Len(out.data) \div N) % c) + 1 = t
  BY <1>1, <1>4, <1>5, <1>6 DEF OutBlocks, Blocks
<1>10. PICK block : block = SubSeq(w, 1, N)
  OBVIOUS
<1>11. PICK v : v = SubSeq(w, N + 1, Len(w))
  OBVIOUS
<1>12. /\ ~exit /\ Len(w) >= N
       /\ wire' = [wire EXCEPT ![t] = SubSeq(wire[t], N + 1, Len(wire[t]))]
       /\ Write(block)
       /\ exit' = (block[2] = ServiceTag /\ Terminate \in {block[3], block[4]})
       /\ UNCHANGED <<root, files, made, op, call, input, pos, data>>
  BY <1>1, <1>2, <1>4, <1>8, <1>9, <1>10 DEF ReceiveDs8Block
<1>13. /\ call' = call /\ input' = input /\ made' = made /\ pos' = pos
       /\ Source' = Source /\ ToSend' = ToSend /\ data' = data
  BY <1>12 DEF Source, ToSend
<1>14. block \in Seq(WordSet) /\ Len(block) = N
       /\ \A o \in 1 .. N : block[o] = w[o]
  <2>1. N \in 0 .. Len(w)
    BY <1>4, <1>12
  <2> QED BY <1>10, <2>1, FirstIs, Zenon
<1>15. v \in Seq(WordSet)
  <2>1. N <= Len(w) /\ Len(w) \in Nat
    BY <1>12
  <2> QED BY <1>4, <1>11, <2>1, SubIs
<1>16. wire' = [wire EXCEPT ![t] = v] /\ wire' \in [1 .. c -> Seq(WordSet)]
  BY <1>7, <1>8, <1>11, <1>12, <1>15
<1>17. PICK x \in Seq(WordSet) :
         x = out.data /\ out = Ds8(n, x, FALSE) /\ Len(x) = M * (n \div Word)
  BY <1>1, <1>3, <1>5 DEF TransferInv
<1>18. Blocks(x, n) = M
  BY <1>17, BlocksIs
<1>19. /\ x \o block \in Seq(WordSet) /\ Blocks(x \o block, n) = M + 1
       /\ Len(x \o block) = (M + 1) * (n \div Word)
  <2>1. Len(x) = Blocks(x, n) * (n \div Word)
    BY <1>17, <1>18
  <2>2. Len(block) = n \div Word /\ block \in Seq(WordSet)
    BY <1>4, <1>14
  <2>3. /\ x \o block \in Seq(WordSet) /\ Blocks(x \o block, n) = Blocks(x, n) + 1
        /\ Len(x \o block) = Blocks(x \o block, n) * (n \div Word)
    BY <2>1, <2>2, BlockAppend
  <2> QED BY <1>18, <2>3
<1>20. PICK y \in Seq(WordSet) : y = x \o block
  BY <1>19
<1>21. out' = Ds8(n, y, FALSE) /\ out'.data = y
  <2>1. out' = [out EXCEPT !.data = out.data \o block]
    BY <1>12 DEF Write
  <2>2. out' = [out EXCEPT !.data = y]
    BY <1>17, <1>20, <2>1
  <2>3. out = [type |-> "ds8", block |-> n, data |-> x, cut |-> FALSE]
    BY <1>17 DEF Ds8
  <2> QED BY <2>2, <2>3 DEF Ds8
<1>22. OutBlocks' = M + 1
  BY <1>1, <1>13, <1>19, <1>20, <1>21 DEF OutBlocks
<1>23. ASSUME Before.same, from = n, input = Source.data PROVE InOrder'
  <2>1. InOrder
    BY <1>1, <1>3, <1>23 DEF TransferInv, Before
  <2>2. PICK k \in Nat : k = ShareOf(M, t)
    BY <1>2, <1>6, Shares
  <2>3. PICK m \in Nat : m = ShareOf(pos, t)
    BY <1>2, <1>3, <1>6, Shares
  <2>4. /\ Len(w) = (m - k) * (n \div Word)
        /\ \A i \in 1 .. m - k :
             BlockOf(w, n, i) = BlockOf(input, n, Turn(k + i, t))
    BY <1>1, <1>2, <1>5, <1>8, <2>1, <2>2, <2>3 DEF InOrder, OnWire
  <2>5. PICK d \in Nat \ {0} : d = m - k
    <3>1. PICK d \in Int : d = m - k
      OBVIOUS
    <3>2. Len(w) = d * N
      BY <1>4, <2>4, <3>1
    <3>3. d > 0
      <4> SUFFICES ASSUME d <= 0 PROVE FALSE
        BY <3>1
      <4>1. PICK e \in Nat : d = 0 - e
        <5>1. 0 - d \in Nat /\ d = 0 - (0 - d)
          BY <3>1
        <5> QED BY <5>1
      <4>2. e * N \in Nat
        BY <1>4
      <4>3. (0 - e) * N = 0 - e * N
        BY <1>4
      <4>4. Len(w) = 0 - e * N
        BY <3>2, <4>1, <4>3
      <4> QED BY <1>4, <1>12, <4>2, <4>4
    <3> QED BY <3>1, <3>3
  <2>6. M < pos
    <3>1. M <= pos
      BY <1>5, <2>1 DEF InOrder
    <3>2. M # pos
      BY <2>2, <2>3, <2>5
    <3> QED BY <1>3, <3>1, <3>2
  <2>7. Len(w) = d * (n \div Word)
    BY <2>4, <2>5
  <2>8. /\ block = BlockOf(w, n, 1)
        /\ Len(v) = (d - 1) * (n \div Word)
        /\ \A i \in 1 .. d - 1 : BlockOf(v, n, i) = BlockOf(w, n, i + 1)
    BY <1>4, <1>10, <1>11, <2>7, QueueLess
  <2>9. block = BlockOf(input, n, M + 1)
    <3>1. Turn(k + 1, t) = M + 1
      BY <1>2, <1>6, <2>2, Shares
    <3>2. 1 \in 1 .. m - k
      BY <2>5
    <3>3. BlockOf(w, n, 1) = BlockOf(input, n, Turn(k + 1, t))
      BY <2>4, <3>2
    <3> QED BY <2>8, <3>1, <3>3
  <2>10. PICK B \in Nat : B = Blocks(input, n)
    BY <1>3, BlocksIs
  <2>11. M + 1 \in 1 .. B /\ pos <= B
    <3>1. pos <= B
      BY <1>1, <1>3, <1>23, <2>10 DEF TransferInv, ToSend, Source
    <3> QED BY <1>3, <2>6, <3>1
  <2>12. y = SubSeq(input, 1, (M + 1) * N)
    <3>1. PICK a \in Nat : a = M * N
      BY <1>4
    <3>2. a + N = (M + 1) * N
      BY <1>4, <3>1
    <3>3. (M + 1) * (n \div Word) <= Len(input)
      <4>1. M + 1 \in Nat /\ M + 1 <= Blocks(input, n)
        BY <2>10, <2>11
      <4> QED BY <1>3, <4>1, BlocksIs
    <3>4. a + Len(block) <= Len(input)
      BY <1>4, <1>14, <3>2, <3>3
    <3>5. ASSUME NEW o \in 1 .. Len(block) PROVE block[o] = input[a + o]
      <4>1. PICK j \in 1 .. Blocks(input, n) : j = M + 1
        BY <2>10, <2>11
      <4>2. o \in 1 .. n \div Word
        BY <1>4, <1>14
      <4>3. BlockOf(input, n, j)[o] = input[(j - 1) * (n \div Word) + o]
        BY <1>3, <4>2, BlockIs
      <4>4. (j - 1) * N = a
        <5>1. j - 1 = M
          BY <4>1
        <5> QED BY <3>1, <5>1
      <4> QED BY <1>4, <2>9, <4>1, <4>3, <4>4
    <3>6. SubSeq(input, 1, a + Len(block)) = SubSeq(input, 1, a) \o block
      <4>1. block \in Seq(WordSet) /\ input \in Seq(WordSet)
        BY <1>3, <1>14
      <4> QED BY <3>4, <3>5, <4>1, NextPart, ZenonT(60)
    <3>7. x = SubSeq(input, 1, a)
      <4>1. out.data = SubSeq(input, 1, OutBlocks * (call.block \div Word))
        BY <2>1 DEF InOrder
      <4>2. OutBlocks * (call.block \div Word) = a
        BY <1>1, <1>4, <1>5, <3>1
      <4> QED BY <1>17, <4>1, <4>2
    <3> QED BY <1>14, <1>20, <3>2, <3>6, <3>7
  <2>13. ASSUME exit' PROVE M + 1 = B
    <3>1. block[2] = ServiceTag
      BY <1>12, <2>13
    <3>2. ~DataBlock(block, n)
      BY <3>1, WordFacts DEF DataBlock
    <3>3. Shape(input, n)
      BY <1>1, <1>23, Ds8Input
    <3> QED BY <2>9, <2>10, <2>11, <3>2, <3>3 DEF Shape
  <2>14. ASSUME NEW s \in 1 .. c
         PROVE  OnWire(wire[s], s, ShareOf(OutBlocks, s), ShareOf(pos, s))'
    <3>1. PICK ks \in Nat : ks = ShareOf(M, s)
      BY <1>2, Shares
    <3>2. PICK ms \in Nat : ms = ShareOf(pos, s)
      BY <1>2, <1>3, Shares
    <3>3. OnWire(wire[s], s, ks, ms)
      BY <1>2, <1>5, <2>1, <3>1, <3>2 DEF InOrder
    <3>4. ShareOf(pos, s)' = ms
      BY <1>13, <3>2 DEF ShareOf
    <3>5. ShareOf(OutBlocks, s)' = IF s = t THEN ks + 1 ELSE ks
      <4>1. ShareOf(M + 1, s) = IF s = t THEN ks + 1 ELSE ks
        BY <1>2, <1>6, <3>1, Shares
      <4> QED BY <1>13, <1>22, <4>1 DEF ShareOf
    <3>6. CASE s # t
      <4>1. wire'[s] = wire[s]
        BY <1>7, <1>16, <3>6
      <4>2. OnWire(wire[s], s, ks, ms)'
        BY <1>13, <3>3, <4>1 DEF OnWire, Turn
      <4> QED BY <3>4, <3>5, <3>6, <4>2 DEF OnWire, Turn
    <3>7. CASE s = t
      <4>1. wire'[s] = v
        BY <1>7, <1>16, <3>7
      <4>2. ks = k /\ ms = m /\ ms - (ks + 1) = d - 1
        BY <2>2, <2>3, <2>5, <3>1, <3>2, <3>7
      <4>3. ASSUME NEW i \in 1 .. d - 1
            PROVE  BlockOf(v, n, i) = BlockOf(input, n, Turn(ks + 1 + i, s))
        <5>1. PICK j \in 1 .. m - k : j = i + 1
          BY <2>5
        <5>2. BlockOf(w, n, j) = BlockOf(input, n, Turn(k + j, t))
          BY <2>4
        <5>3. k + j = ks + 1 + i
          BY <4>2, <5>1
        <5>4. BlockOf(v, n, i) = BlockOf(w, n, j)
          BY <2>8, <5>1
        <5> QED BY <3>7, <5>2, <5>3, <5>4
      <4>4. OnWire(v, s, ks + 1, ms)
        BY <1>1, <2>8, <4>2, <4>3 DEF OnWire
      <4>5. ShareOf(OutBlocks, s)' = ks + 1
        BY <3>5, <3>7
      <4> QED BY <1>13, <3>4, <4>1, <4>4, <4>5 DEF OnWire, Turn
    <3> QED BY <3>6, <3>7
  <2>15. OutBlocks' <= pos'
    BY <1>3, <1>13, <1>22, <2>6
  <2>16. out'.data = SubSeq(input', 1, OutBlocks' * (call'.block \div Word))
    BY <1>1, <1>4, <1>13, <1>21, <1>22, <2>12
  <2> QED BY <1>1, <1>2, <1>13, <1>22, <2>10, <2>13, <2>14, <2>15, <2>16 DEF InOrder
<1>24. TransferInv'
  <2>1. Len(out'.data) = OutBlocks' * (n \div Word)
    BY <1>19, <1>20, <1>21, <1>22
  <2>2. out' = Ds8(n, out'.data, FALSE) /\ out'.data \in Seq(WordSet)
    BY <1>21
  <2>3. made'[call'.from].same /\ Source'.block = call'.block
          /\ input' = Source'.data => InOrder'
    BY <1>1, <1>13, <1>23 DEF Before
  <2>4. /\ input' \in Seq(WordSet) /\ pos' <= ToSend'
        /\ data' \in Seq(WordSet) /\ Len(data') = Source'.block \div Word
        /\ call'.block \in ServerBlocks /\ call'.sockets \in SocketCounts
    BY <1>3, <1>13 DEF TransferInv
  <2>5. n = call'.block /\ c = call'.sockets
    BY <1>1, <1>2, <1>13
  <2> QED BY <1>16, <2>1, <2>2, <2>3, <2>4, <2>5 DEF TransferInv
<1>25. ProgressInv'
  BY <1>1, <1>12, <1>24 DEF ProgressInv
<1>26. pos' \in Nat /\ exit' \in BOOLEAN
  BY <1>3, <1>12
<1> QED BY <1>12, <1>25, <1>26, Continues

(* A transfer begins, to a server with its own block size.                 *)
LEMMA OpenTransferKeeps ==
  ASSUME IInv, OpenTransfer
  PROVE  IInv'
<1>1. PICK i \in {Len(files)} :
        \E j \in Target(i) \ {i}, n \in ServerBlocks, sockets \in SocketCounts :
          /\ files[i].type = "ds8" /\ ~files[i].cut
          /\ op = "idle" /\ op' = "transfer"
          /\ call' = [from |-> i, to |-> j, block |-> n, tag |-> FALSE,
                      sockets |-> sockets]
          /\ input' = files[i].data /\ pos' = 0 /\ exit' = FALSE
          /\ wire' = [s \in 1 .. sockets |-> <<>>]
          /\ data' = [x \in 1 .. files[i].block \div Word |-> ToWord(0)]
          /\ out' = Ds8(n, <<>>, FALSE)
          /\ UNCHANGED <<root, files, made>>
  BY DEF OpenTransfer
<1>2. PICK j \in Target(i) \ {i}, n \in ServerBlocks, sockets \in SocketCounts :
        /\ files[i].type = "ds8"
        /\ op' = "transfer"
        /\ call' = [from |-> i, to |-> j, block |-> n, tag |-> FALSE,
                    sockets |-> sockets]
        /\ input' = files[i].data /\ pos' = 0 /\ exit' = FALSE
        /\ wire' = [s \in 1 .. sockets |-> <<>>]
        /\ data' = [x \in 1 .. files[i].block \div Word |-> ToWord(0)]
        /\ out' = Ds8(n, <<>>, FALSE)
        /\ UNCHANGED <<root, files, made>>
  BY <1>1
<1>3. n \in Sizes /\ n \in Nat /\ sockets \in Nat \ {0}
  <2>1. n \in Sizes
    BY Constants
  <2> QED BY <2>1, SizeIs, ConvertersAssumption
<1>4. /\ call'.block = n /\ call'.sockets = sockets /\ call'.from = i
      /\ i \in Nat \ {0} /\ Source' = files[i]
  BY <1>2, LastFile DEF Source
<1>5. PICK from \in Sizes, w \in Seq(WordSet) :
        from = files[i].block /\ w = files[i].data
  BY <1>2, LastFile, PayloadIs
<1>6. out'.data = <<>> /\ OutBlocks' = 0
  BY <1>2, <1>3, <1>4, EmptyDs8 DEF OutBlocks
<1>7. PICK N \in Nat : N = n \div Word
  BY <1>3, SizeIs
<1>8. 0 * (n \div Word) = 0
  BY <1>7
<1>9. InOrder'
  <2>1. OutBlocks' <= pos' /\ ~exit'
    BY <1>2, <1>6
  <2>2. out'.data = SubSeq(input', 1, OutBlocks' * (call'.block \div Word))
    <3>1. SubSeq(w, 1, 0) = <<>>
      OBVIOUS
    <3>2. OutBlocks' * (call'.block \div Word) = 0
      BY <1>4, <1>6, <1>8
    <3> QED BY <1>2, <1>5, <1>6, <3>1, <3>2
  <2>3. ASSUME NEW s \in 1 .. sockets
        PROVE  OnWire(wire[s], s, ShareOf(OutBlocks, s), ShareOf(pos, s))'
    <3>1. s = 0 * sockets + s /\ 0 + sockets - s = 0 * sockets + (sockets - s)
      BY <1>3
    <3>2. PICK o \in 0 .. sockets - 1 : o = sockets - s
      BY <1>3
    <3>3. (0 * sockets + o) \div sockets = 0
      BY <1>3, DivModUnique
    <3>4. (0 + sockets - s) \div sockets = 0
      BY <1>3, <3>1, <3>2, <3>3
    <3>5. ShareOf(OutBlocks, s)' = 0 /\ ShareOf(pos, s)' = 0
      BY <1>2, <1>4, <1>6, <3>4 DEF ShareOf
    <3>6. wire'[s] = <<>>
      BY <1>2
    <3>7. Len(<<>>) = 0 /\ (0 - 0) * (n \div Word) = 0
      BY <1>8
    <3> QED BY <1>4, <3>5, <3>6, <3>7 DEF OnWire
  <2> QED BY <1>4, <2>1, <2>2, <2>3 DEF InOrder
<1>10. TransferInv'
  <2>1. pos' <= ToSend'
    <3>1. Blocks(w, from) \in Nat
      BY BlocksIs
    <3> QED BY <1>2, <1>4, <1>5, <3>1 DEF ToSend
  <2>4. input' \in Seq(WordSet)
    BY <1>2, <1>5
  <2>5. data' \in Seq(WordSet) /\ Len(data') = Source'.block \div Word
    <3>1. PICK m \in Nat : m = from \div Word
      BY SizeIs
    <3>2. data' = [x \in 1 .. m |-> ToWord(0)]
      BY <1>2, <1>5, <3>1
    <3>3. ToWord(0) \in WordSet
      BY WordFacts
    <3>4. data' \in [1 .. m -> WordSet]
      BY <3>2, <3>3
    <3> QED BY <1>4, <1>5, <3>1, <3>4
  <2>2. wire' \in [1 .. sockets -> Seq(WordSet)]
    BY <1>2, Nothing
  <2>3. Len(out'.data) = OutBlocks' * (n \div Word)
    BY <1>6, <1>8
  <2> QED BY <1>2, <1>4, <1>6, <1>9, <2>1, <2>2, <2>3, <2>4, <2>5, Nothing
          DEF TransferInv
<1>11. ProgressInv'
  BY <1>2, <1>10 DEF ProgressInv
<1>12. input' = IF i = j THEN <<>> ELSE files[i].data
  BY <1>2
<1> QED BY <1>2, <1>3, <1>11, <1>12, Opened DEF Ops

-----------------------------------------------------------------------------
(* The first file: bytes, words, or a ds8 file that a server would take.   *)
LEMMA InitKeeps ==
  ASSUME Init
  PROVE  IInv
<1>1. PICK f \in {Bin(b) : b \in BinFiles} \cup {Hex(w) : w \in HexFiles}
                   \cup {Ds8(d.block, d.data, FALSE) : d \in Ds8Files} :
        /\ root = Payload(f) /\ files = <<f>>
        /\ made = <<[ok |-> TRUE, whole |-> TRUE, plain |-> TRUE,
                     same |-> TRUE, op |-> "given"]>>
        /\ op = "idle" /\ call = Idle /\ pos = 0 /\ exit = FALSE
  BY DEF Init
<1>2. f \in File /\ (f.type = "ds8" => WellFormed(f))
  <2>1. ASSUME NEW b \in BinFiles, f = Bin(b)
        PROVE  f \in File /\ f.type # "ds8"
    BY <2>1, FilesAssumption DEF Bin, File, BinFile
  <2>2. ASSUME NEW w \in HexFiles, f = Hex(w)
        PROVE  f \in File /\ f.type # "ds8"
    BY <2>2, FilesAssumption DEF Hex, File, HexFile
  <2>3. ASSUME NEW d \in Ds8Files, f = Ds8(d.block, d.data, FALSE)
        PROVE  f \in File /\ WellFormed(f)
    <3>1. d.block \in Sizes /\ d.data \in Seq(WordSet) /\ WellFormed(f)
      BY <2>3, FilesAssumption, Constants
    <3> QED BY <2>3, <3>1 DEF Ds8, File, Ds8File
  <2> QED BY <2>1, <2>2, <2>3
<1>3. PICK e \in Entry : made = <<e>> /\ e.op = "given"
  <2> DEFINE d == [ok |-> TRUE, whole |-> TRUE, plain |-> TRUE,
                   same |-> TRUE, op |-> "given"]
  <2>1. d \in Entry /\ d.op = "given"
    BY DEF Entry
  <2>2. made = <<d>>
    BY <1>1
  <2> QED BY <2>1, <2>2, Zenon
<1>4. root \in Seq(Byte)
  BY <1>1, <1>2, PayloadIs
<1>5. /\ files \in Seq(File) /\ made \in Seq(Entry) /\ Len(files) = 1
      /\ Len(made) = 1 /\ files[1] = f /\ DOMAIN files = {1}
  <2>1. files = <<f>> /\ f \in File
    BY <1>1, <1>2
  <2>2. \A S : \A s \in S : <<s>> \in Seq(S) /\ Len(<<s>>) = 1
    OBVIOUS
  <2>3. <<f>>[1] = f /\ DOMAIN <<f>> = {1}
    OBVIOUS
  <2> QED BY <1>3, <2>1, <2>2, <2>3, Zenon
<1>6. TypeInv
  <2>1. call \in [from : Nat, to : Nat, block : Nat, tag : BOOLEAN, sockets : Nat]
    BY <1>1 DEF Idle
  <2>2. op \in Ops /\ pos \in Nat /\ exit \in BOOLEAN
    BY <1>1 DEF Ops
  <2>3. Len(made) = Len(files) /\ Len(files) > 0
    BY <1>5
  <2>4. files \in Seq(File) /\ made \in Seq(Entry)
    BY <1>5
  <2> QED BY <1>4, <2>1, <2>2, <2>3, <2>4, Zenon DEF TypeInv
<1>7. FileInv(1)
  <2>1. f.type = "ds8" => Shape(f.data, f.block)
    BY <1>2, WellFormedIs
  <2>2. From(root, Payload(f)) /\ Keeps(root, Payload(f))
    BY <1>1, <1>4, Preorders
  <2> QED BY <1>2, <1>5, <2>1, <2>2 DEF FileInv
<1>8. FilesInv
  BY <1>1, <1>5, <1>7 DEF FilesInv
<1>9. CallInv /\ ProgressInv /\ NoOverrun
  BY <1>1 DEF CallInv, Busy, ProgressInv, NoOverrun
<1> QED BY <1>6, <1>8, <1>9 DEF IInv

(* No step breaks the invariant.                                           *)
LEMMA NextKeeps ==
  ASSUME IInv, [Next]_vars
  PROVE  IInv'
<1>1. CASE User
  BY <1>1, OpenBinToDs8Keeps, OpenHexToDs8Keeps, OpenHexToBinKeeps,
     OpenBinToHexKeeps, OpenDs8ToHexKeeps, OpenDs8ToBinKeeps, OpenTransferKeeps
     DEF User
<1>2. CASE Convert
  BY <1>2, BinToDs8Keeps, HexToDs8Keeps, HexToBinKeeps, BinToHexKeeps,
     Ds8ToHexKeeps, Ds8ToBinKeeps, OverrunKeeps, SendDs8BlockKeeps,
     ReceiveDs8BlockKeeps, FinishKeeps DEF Convert
<1>3. CASE FinishLosesEnd
  BY <1>3, FinishLosesEndKeeps
<1>4. CASE Fails
  BY <1>4, FailsKeeps
<1>6. CASE ReadsFail
  BY <1>6, ReadsFailKeeps
<1>5. CASE UNCHANGED vars
  <2>1. /\ root' = root /\ files' = files /\ made' = made /\ op' = op
        /\ call' = call /\ input' = input /\ pos' = pos /\ exit' = exit
        /\ data' = data /\ out' = out /\ wire' = wire
    BY <1>5 DEF vars
  <2>2. ProgressInv'
    <3>1. /\ BinToDs8Inv => BinToDs8Inv'
      BY <2>1 DEF BinToDs8Inv, Ds8Out, OutBlocks, Room
    <3>2. HexToDs8Inv => HexToDs8Inv'
      BY <2>1 DEF HexToDs8Inv, Ds8Out, OutBlocks
    <3>3. HexToBinInv => HexToBinInv'
      BY <2>1 DEF HexToBinInv
    <3>4. BinToHexInv => BinToHexInv'
      BY <2>1 DEF BinToHexInv
    <3>5. Ds8ToHexInv => Ds8ToHexInv'
      BY <2>1 DEF Ds8ToHexInv
    <3>6. Ds8ToBinInv => Ds8ToBinInv'
      BY <2>1 DEF Ds8ToBinInv
    <3>7. TransferInv => TransferInv'
      BY <2>1, ZenonT(60) 
         DEF TransferInv, InOrder, OnWire, OutBlocks, ShareOf, Turn, Source, ToSend
    <3> QED BY <2>1, <3>1, <3>2, <3>3, <3>4, <3>5, <3>6, <3>7 DEF IInv, ProgressInv
  <2>3. pos' \in Nat /\ exit' \in BOOLEAN
    BY <2>1 DEF IInv, TypeInv
  <2> QED BY <2>1, <2>2, <2>3, Continues
<1> QED BY <1>1, <1>2, <1>3, <1>4, <1>5, <1>6 DEF Next

(* The inductive invariant: what is known of every file, of the call under *)
(* way and of how far it has got (the conversions of utils::convertors, and*)
(* sendDS8File with receiveToDs8).                                         *)
THEOREM Invariance == Spec => []IInv
<1>1. Init => IInv
  BY InitKeeps
<1>2. IInv /\ [Next]_vars => IInv'
  BY NextKeeps
<1> QED BY <1>1, <1>2, PTL DEF Spec

-----------------------------------------------------------------------------
(* A file that Keeps another one has its whole words, and differs from it  *)
(* by less than a word.                                                    *)
LEMMA KeepsWords ==
  ASSUME NEW a \in Seq(Byte), NEW p \in Seq(Byte), Keeps(a, p)
  PROVE  /\ IsPrefix(WholeWords(a), p)
         /\ Len(p) - Len(a) < Word /\ Len(a) - Len(p) < Word
         /\ Len(a) % Word = 0 => p = a
<1>1. Word \in Nat \ {0}
  BY Constants
<1>2. PICK n \in Nat : n = Len(a)
  OBVIOUS
<1>3. PICK m \in Nat : m = Len(p)
  OBVIOUS
<1>4. PICK down \in Nat :
        /\ down = Down(n) /\ down <= n /\ n < down + Word
        /\ n % Word = 0 => down = n
  BY Rounding
<1>5. PICK up \in Nat :
        /\ up = RoundUp(n) /\ n <= up /\ up < n + Word
        /\ n % Word = 0 => up = n
  BY Rounding
<1>6. m \in {down, n, up}
  BY <1>2, <1>3, <1>4, <1>5 DEF Keeps
<1>7. ASSUME NEW k \in 1 .. m, k <= n PROVE p[k] = a[k]
  BY <1>2, <1>3, <1>7, FromIs
<1>8. IsPrefix(WholeWords(a), p)
  <2>1. down \in 0 .. n /\ down \in 0 .. m
    BY <1>4, <1>5, <1>6
  <2>2. WholeWords(a) = SubSeq(a, 1, down)
    BY <1>2, <1>4 DEF WholeWords, Down
  <2>3. PICK w \in Seq(Byte) :
          /\ w = SubSeq(a, 1, down) /\ Len(w) = down
          /\ \A k \in 1 .. down : w[k] = a[k]
    BY <1>2, <2>1, FirstIs, ZenonT(60)
  <2>4. PICK v \in Seq(Byte) :
          /\ v = SubSeq(p, 1, down) /\ Len(v) = down
          /\ \A k \in 1 .. down : v[k] = p[k]
    BY <1>3, <2>1, FirstIs, ZenonT(60)
  <2>5. \A k \in 1 .. down : w[k] = v[k]
    BY <1>4, <1>7, <2>1, <2>3, <2>4
  <2>6. w = v
    BY <2>3, <2>4, <2>5, SeqEqual
  <2>7. SubSeq(w, 1, Len(w)) = w
    BY SubAll
  <2>8. Len(w) <= Len(p)
    BY <1>3, <2>1, <2>3
  <2>9. WholeWords(a) = w
    BY <2>2, <2>3, Zenon
  <2>10. SubSeq(p, 1, Len(w)) = v
    BY <2>3, <2>4
  <2> QED BY <2>6, <2>7, <2>8, <2>9, <2>10, Zenon DEF IsPrefix
<1>9. m - n < Word /\ n - m < Word
  BY <1>1, <1>4, <1>5, <1>6
<1>10. ASSUME n % Word = 0 PROVE p = a
  <2>1. m = n
    BY <1>4, <1>5, <1>6, <1>10
  <2>2. Len(p) = Len(a) /\ \A k \in 1 .. Len(p) : p[k] = a[k]
    BY <1>2, <1>3, <1>7, <2>1
  <2> QED BY <2>2, SeqEqual
<1> QED BY <1>2, <1>3, <1>8, <1>9, <1>10

(* A file that is From another one has nothing else in it.                 *)
LEMMA FromInvents ==
  ASSUME NEW a \in Seq(Byte), NEW p \in Seq(Byte), From(a, p)
  PROVE  \A k \in 1 .. AtMost(Len(p) - Word, Len(a)) : p[k] = a[k]
<1>1. Word \in Nat \ {0}
  BY Constants
<1>2. PICK n \in Nat : n = Len(a)
  OBVIOUS
<1>3. PICK m \in Nat : m = Len(p)
  OBVIOUS
<1>4. PICK up \in Nat : up = RoundUp(m) /\ m <= up
  BY Rounding
<1>5. \A k \in Nat \ {0} : k <= up - Word /\ k <= n => p[k] = a[k]
  BY <1>2, <1>3, <1>4, FromIs
<1>6. ASSUME NEW k \in 1 .. AtMost(m - Word, n) PROVE p[k] = a[k]
  <2>1. k \in Nat \ {0} /\ k <= m - Word /\ k <= n
    BY <1>1, <1>6 DEF AtMost
  <2> QED BY <1>1, <1>4, <1>5, <2>1
<1> QED BY <1>2, <1>3, <1>6

(* A word that a file has survives every chain of conversions that says it *)
(* went well, and no chain, whatever fails, puts anything in its place     *)
(* (file_bin_to_ds8 to file_ds8_to_bin, sendDS8File, receiveToDs8).        *)
THEOREM WordsAreKept == Spec => []Faithful
<1>1. IInv => Faithful
  <2> SUFFICES ASSUME IInv, NEW i \in DOMAIN files, made[i].plain, made[i].same
               PROVE  LET p == Payload(files[i])
                      IN /\ \A k \in 1 .. AtMost(Len(p) - Word, Len(root)) :
                              p[k] = root[k]
                         /\ made[i].ok /\ made[i].whole =>
                              /\ IsPrefix(WholeWords(root), p)
                              /\ Len(p) - Len(root) < Word
                              /\ Len(root) - Len(p) < Word
                              /\ Len(root) % Word = 0 => p = root
    BY Zenon DEF Faithful, WordsSurvive, NothingInvented
  <2>1. files \in Seq(File) /\ root \in Seq(Byte)
    BY DEF IInv, TypeInv
  <2>2. FileInv(i)
    BY DEF IInv, FilesInv
  <2>3. files[i] \in File
    BY <2>1
  <2>4. PICK p \in Seq(Byte) : p = Payload(files[i])
    BY <2>3, PayloadIs
  <2>5. From(root, p) /\ (made[i].ok /\ made[i].whole => Keeps(root, p))
    BY <2>2, <2>4 DEF FileInv
  <2>6. \A k \in 1 .. AtMost(Len(p) - Word, Len(root)) : p[k] = root[k]
    BY <2>1, <2>5, FromInvents
  <2>7. made[i].ok /\ made[i].whole =>
          /\ IsPrefix(WholeWords(root), p)
          /\ Len(p) - Len(root) < Word /\ Len(root) - Len(p) < Word
          /\ Len(root) % Word = 0 => p = root
    BY <2>1, <2>5, KeepsWords
  <2> QED BY <2>4, <2>6, <2>7, Zenon
<1> QED BY <1>1, Invariance, PTL

(* A ds8 file that a chain without an error has made, from whatever it was *)
(* given, is full data blocks, one that need not be, and one terminate     *)
(* block (file_bin_to_ds8, file_hex_to_ds8, receiveToDs8).                 *)
THEOREM MakesWellFormed == Spec => []Ds8WellFormed
<1>1. IInv => Ds8WellFormed
  BY DEF IInv, FilesInv, FileInv, Ds8WellFormed
<1> QED BY <1>1, Invariance, PTL

(* With a block size that normalizeBufSize lets through, no conversion     *)
(* leaves its buffer, whatever has been lost or cut off on the way, unless *)
(* its file has come from a server with other blocks.                      *)
THEOREM StaysInBuffers == Spec => []NoOverrun
<1>1. IInv => NoOverrun
  BY DEF IInv
<1> QED BY <1>1, Invariance, PTL

=============================================================================
