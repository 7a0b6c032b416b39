-------------------------- MODULE ApplicationProofs --------------------------
(***************************************************************************)
(* For any number of programs in one directory, any command lines and any  *)
(* pipes between them, in whatever order their steps come: each one works  *)
(* on its own input, prints its own result, and leaves nothing behind      *)
(* unless it is killed.                                                    *)
(*                                                                         *)
(* The programs share two names and know each other only by what is there. *)
(* The invariant says, of an inode, by which name it can be reached        *)
(* (InodeInv, ResultInv), so that what is done to the one file leaves the  *)
(* other alone; of stdin.tmp, whose input can be in it: that of the        *)
(* programs that have copied of theirs and have not removed it (MixInv,    *)
(* SoleInv), and of a pipeline, that a program has copied all of it when   *)
(* those before it have ended (FedInv), so that of two neighbours one has  *)
(* no more from the other than the texts it has printed (BesideInv); of a  *)
(* program that alone prints to stdout.tmp, what it has                    *)
(* there (StaleInv, OutputInv), and where its texts go meanwhile           *)
(* (CoutInv); and who still has a file to remove (LeftInv).                *)
(*                                                                         *)
(* And of the parser: what it accepts is one command with all it requires, *)
(* as the validators of the nested groups say together (ValidIs).          *)
(***************************************************************************)
EXTENDS Application, SequenceTheorems, FiniteSetTheorems, WellFoundedInduction,
        TLAPS

Sources == Programs \cup {"file", "stale", "messages"}
Words   == {t \in [dash : Nat, body : Seq(STRING)] :
              \A j \in 1 .. Len(t.body) :
                t.body[j] \notin {"stdin.tmp", "stdout.tmp"}}
Places  == {"args", "copy", "redirect", "work", "write", "close", "exit", "done",
            "hung", "killed"}
Active  == {"copy", "redirect", "work", "write", "close"}
Holding == Active \cup {"hung", "killed"}
Showing == {"write", "close", "hung", "killed"}

(* The programs that use stdin.tmp, and those that use stdout.tmp; those   *)
(* with which no other one shares it, or no other but a neighbour that was *)
(* not killed.                                                             *)
Takes(p)  == Operates(p) /\ FromStdin(p)
Gives(p)  == Operates(p) /\ ToStdout(p)
Sole(p)   == \A q \in Running : q # p => ~Takes(q)
Beside(p) == \A q \in Running :
               q # p /\ Takes(q) => Adjacent(p, q) /\ pc[q] # "killed"
Alone(p)  == \A q \in Running : q # p => ~Gives(q)

(* The variables hold values of their types; no value of an option is one  *)
(* of the two names.                                                       *)
ParserType ==
  /\ setup \in Scenarios
  /\ at \in [Programs -> Nat \ {0}] /\ letter \in [Programs -> Nat \ {0}]
  /\ verdict \in [Programs ->
                   {"parsing", "help", "parse_error", "invalid", "parsed"}]
  /\ DOMAIN matched = Programs /\ DOMAIN value = Programs
  /\ \A p \in Programs : \A f \in DOMAIN value[p] : value[p][f] \in Words

FileType ==
  /\ data \in Seq(SUBSET Sources)
  /\ \A f \in DOMAIN dir : dir[f] \in 1 .. Len(data)
  /\ \A f, g \in DOMAIN dir : dir[f] = dir[g] => f = g
  /\ tmpIn  \in [Programs -> 0 .. Len(data)]
  /\ source \in [Programs -> 0 .. Len(data)]
  /\ result \in [Programs -> 0 .. Len(data)]

MainType ==
  /\ pc \in [Programs -> Places]
  /\ error \in [Programs -> {0, 2}]
  /\ cout \in [Programs -> {"stdout", "buffer", "dead"}]
  /\ printed \in [Programs -> SUBSET Sources]
  /\ read \in [Programs -> {<<>>} \cup {<<s>> : s \in SUBSET Sources}]

(* What a program that has got to a place has done before.                 *)
StageInv ==
  /\ \A p \in Programs \ Running : pc[p] = "done"
  /\ \A p \in Running :
       /\ \/ pc[p] \in Active \/ tmpIn[p] # None \/ source[p] # None
          \/ result[p] # None \/ read[p] # <<>>
          => Operates(p)
       /\ pc[p] = "copy" => Takes(p) /\ error[p] = 0 /\ tmpIn[p] # None
       /\ pc[p] \in {"args", "copy", "redirect", "work"} =>
            result[p] = None /\ printed[p] = {}
       /\ pc[p] \in {"args", "copy", "redirect", "work", "write"} => read[p] = <<>>
       /\ pc[p] = "args" => error[p] = 0
       /\ pc[p] \in {"args", "copy", "redirect"} => cout[p] = "stdout"
       /\ pc[p] = "write" =>
            result[p] # None /\ source[p] # None /\ printed[p] \subseteq {"messages"}

(* The copies of standard inputs and everything else are different inodes, *)
(* and an output file that has a name has that which its program gave it.  *)
InIn(i) ==
  \/ \E p \in Running : tmpIn[p] # None /\ i = tmpIn[p]
  \/ \E p \in Running : Takes(p) /\ source[p] # None /\ i = source[p]
  \/ StdinTmp \in DOMAIN dir /\ i = dir[StdinTmp]
InOut(i) ==
  \/ \E p \in Running : result[p] # None /\ i = result[p]
  \/ \E f \in DOMAIN dir : f # StdinTmp /\ i = dir[f]
InodeInv  == \A i \in 1 .. Len(data) : ~(InIn(i) /\ InOut(i))
ResultInv == \A p \in Running : \A f \in DOMAIN dir :
               dir[f] = result[p] => f = OutFile(p)

(* A file of the handler is there as long as a program may still remove it.*)
LeftInv ==
  /\ StdinTmp \in DOMAIN dir =>
       \/ \E p \in Running : Takes(p) /\ pc[p] \in Holding
       \/ \A p \in Running : Takes(p) => pc[p] = "args"
  /\ StdoutTmp \in DOMAIN dir =>
       \/ setup.stale
       \/ \E p \in Running : error[p] # 0
       \/ \E p \in Running : Gives(p) /\ pc[p] \in Showing

(* A program whose input is copied, and one that has not removed what it   *)
(* has copied of it so far.                                                *)
Fed(p)   == Takes(p) /\ error[p] = 0 /\ pc[p] \notin {"args", "copy"}
Giver(p) == Takes(p) /\ error[p] = 0 /\ pc[p] \in Holding
FedInv   == \A p \in Running : Fed(p) => \A q \in Upstream(p) : Finished(q)

(* While a program has its stdin.tmp, that holds what was copied to it by  *)
(* programs that have not removed it; and there is nobody else's in what   *)
(* it reads if the others wait for it, or it for them, but for the texts   *)
(* it has printed for the one that waits.                                  *)
Feeding(p) == Takes(p) /\ error[p] = 0 /\ pc[p] \in Active
MixInv ==
  (\E p \in Running : Feeding(p)) /\ StdinTmp \in DOMAIN dir =>
    \A x \in data[dir[StdinTmp]] : \E q \in Running : Giver(q) /\ x \in StdinOf(q)
SoleInv ==
  \A p \in Running : Feeding(p) /\ Sole(p) =>
    /\ StdinTmp \in DOMAIN dir /\ dir[StdinTmp] = tmpIn[p]
    /\ data[tmpIn[p]] \subseteq StdinOf(p)
    /\ pc[p] # "copy" => data[tmpIn[p]] = StdinOf(p)
    /\ pc[p] = "write" => source[p] = tmpIn[p]
BesideInv ==
  \A p \in Running : Feeding(p) /\ pc[p] = "write" /\ Beside(p) =>
    data[source[p]] \subseteq StdinOf(p) \cup {"messages"}
ReadInv ==
  \A p \in Running : Takes(p) /\ read[p] # <<>> /\ error[p] = 0 =>
    /\ Sole(p) => read[p][1] = StdinOf(p)
    /\ Beside(p) => read[p][1] \subseteq StdinOf(p) \cup {"messages"}

(* Who made a stdout.tmp that is not that of an earlier run, what a        *)
(* program alone has in it before it is shown, and what is shown.          *)
Made(p) == result[p] # None /\ OutFile(p) = StdoutTmp
StaleInv ==
  StdoutTmp \in DOMAIN dir =>
    data[dir[StdoutTmp]] = {"stale"} \/ \E p \in Running : Made(p)
CoutInv ==
  \A p \in Running :
    Gives(p) /\ Alone(p) /\ pc[p] \in {"work", "write", "close"} =>
      /\ error[p] = 0 => cout[p] = "buffer" /\ printed[p] = {}
      /\ error[p] # 0 => cout[p] = "stdout" /\ printed[p] \subseteq {"messages"}
OutputInv ==
  \A p \in Running :
    Gives(p) /\ Alone(p) /\ pc[p] \in {"write", "close"} /\ Made(p) =>
      /\ StdoutTmp \in DOMAIN dir /\ dir[StdoutTmp] = result[p]
      /\ data[result[p]] = IF read[p] = <<>> THEN {} ELSE read[p][1]
ShownInv ==
  \A p \in Running : Gives(p) /\ Alone(p) /\ pc[p] \in {"exit", "done"} =>
    /\ cout[p] = "dead" => ~Made(p)
    /\ error[p] # 0 => printed[p] \subseteq {"messages"}
    /\ error[p] = 0 /\ Made(p) =>
         printed[p] = IF read[p] = <<>> THEN {} ELSE read[p][1]
    /\ error[p] = 0 /\ ~Made(p) => printed[p] = {"stale"}

IInv == /\ ParserType /\ FileType /\ MainType /\ StageInv
        /\ InodeInv /\ ResultInv /\ LeftInv
        /\ FedInv /\ MixInv /\ SoleInv /\ BesideInv /\ ReadInv
        /\ StaleInv /\ CoutInv /\ OutputInv /\ ShownInv

-----------------------------------------------------------------------------
(* What the parser keeps.                                                  *)
(* A set of numbers has a least one.                                       *)
LEMMA LeastNumber ==
  ASSUME NEW I \in SUBSET Nat, I # {}
  PROVE  Min(I) \in I
<1>1. \E x \in I : \A y \in I : ~(<<y, x>> \in OpToRel(<, Nat))
  BY NatLessThanWellFounded, WFMin
<1>2. PICK x \in I : \A y \in I : ~(<<y, x>> \in OpToRel(<, Nat))
  BY <1>1
<1>3. \A y \in I : x <= y
  <2> SUFFICES ASSUME NEW y \in I PROVE x <= y
    OBVIOUS
  <2>1. ~(y < x)
    BY <1>2 DEF OpToRel
  <2> QED BY <2>1
<1> QED BY <1>3 DEF Min

(* The space in a chunk --name value, if there is one.                     *)
LEMMA FirstSpace ==
  ASSUME NEW body \in Seq(STRING)
  PROVE  SelectInSeq(body, LAMBDA t : t = " ") \in Nat
<1> DEFINE I == {i \in 1 .. Len(body) : body[i] = " "}
<1>1. I \in SUBSET Nat
  <2>1. Len(body) \in Nat
    BY LenProperties
  <2>2. \A i \in 1 .. Len(body) : i \in Nat
    BY <2>1
  <2> QED BY <2>2, Zenon
<1>2. I # {} => Min(I) \in I
  BY <1>1, LeastNumber
<1> QED BY <1>1, <1>2 DEF SelectInSeq

(* The chunks of a command line are words, and so is the rest of a chunk.  *)
LEMMA ArgvWords ==
  ASSUME ParserType, NEW p \in Running
  PROVE  p \in Programs /\ Argv(p) \in Seq(Words)
<1>1. p \in Programs /\ Argv(p) \in Seq([dash : Nat, body : Seq(STRING)])
  BY ScenariosAssumption DEF ParserType, Running, Argv
<1>2. ASSUME NEW i \in 1 .. Len(Argv(p))
      PROVE  Argv(p)[i] \in Words
  <2>1. Argv(p)[i] \in [dash : Nat, body : Seq(STRING)]
    BY <1>1, <1>2, ElementOfSeq
  <2>2. i \in DOMAIN Argv(p)
    BY <1>1, <1>2
  <2>3. \A j \in DOMAIN Argv(p)[i].body :
          Argv(p)[i].body[j] \notin {"stdin.tmp", "stdout.tmp"}
    BY <2>2, NamesAssumption DEF ParserType, Running, Argv
  <2>4. Argv(p)[i].body \in Seq(STRING)
    BY <2>1
  <2>5. DOMAIN Argv(p)[i].body = 1 .. Len(Argv(p)[i].body)
    BY <2>4
  <2> QED BY <2>1, <2>3, <2>5 DEF Words
<1>3. Argv(p) \in Seq(Words)
  <2>1. Argv(p) = [i \in 1 .. Len(Argv(p)) |-> Argv(p)[i]] /\ Len(Argv(p)) \in Nat
    BY <1>1, SeqDef
  <2> QED BY <2>1, <1>2, SeqDef
<1> QED BY <1>1, <1>3

LEMMA RestIsWord ==
  ASSUME NEW t \in Words, NEW k \in Nat \ {0}
  PROVE  Text(0, SubSeq(t.body, k, Len(t.body))) \in Words
<1>1. PICK n, rest : n = Len(t.body) /\ rest = SubSeq(t.body, k, n)
  OBVIOUS
<1>2. t.body \in Seq(STRING) /\ n \in Nat
  BY <1>1 DEF Words
<1>3. SUFFICES rest \in Seq(STRING)
               /\ \A j \in 1 .. Len(rest) :
                    rest[j] \notin {"stdin.tmp", "stdout.tmp"}
  BY <1>1 DEF Words, Text
<1>4. CASE k > n
  <2>1. rest = <<>>
    BY <1>1, <1>2, <1>4, SubSeqProperties
  <2> QED BY <2>1
<1>5. CASE k <= n
  <2>1. /\ rest \in Seq(STRING) /\ Len(rest) = n - k + 1
        /\ \A j \in 1 .. n - k + 1 : rest[j] = t.body[k + j - 1]
    BY <1>1, <1>2, <1>5, SubSeqProperties, SMTT(30)
  <2>2. \A j \in 1 .. Len(rest) : k + j - 1 \in 1 .. Len(t.body)
    BY <1>1, <1>2, <1>5, <2>1
  <2> QED BY <2>1, <2>2 DEF Words
<1> QED BY <1>2, <1>4, <1>5

(* What the parser does to one program: its own entries only, and only as  *)
(* long as it has not come to a verdict.                                   *)
Parsing(p) ==
  /\ p \in Running /\ verdict[p] = "parsing" /\ UNCHANGED setup
  /\ \A q \in Programs \ {p} :
       matched'[q] = matched[q] /\ value'[q] = value[q] /\ verdict'[q] = verdict[q]

LEMMA StoredWords ==
  ASSUME NEW values, NEW flag, NEW text \in Words,
         \A f \in DOMAIN values : values[f] \in Words
  PROVE  \A f \in DOMAIN Stored(values, flag, text) :
           Stored(values, flag, text)[f] \in Words
BY DEF Stored

(* What follows a flag in its own chunk.                                   *)
Joined(text) == text = <<>> \/ \E t \in Words : text = <<t>>

(* What a flag is given is the joined text or the next chunk.              *)
LEMMA GivenWords ==
  ASSUME ParserType, NEW p \in Running, NEW flag, NEW canDiscard,
         NEW joined, Joined(joined)
  PROVE  ParseArgsValues(p, flag, joined, canDiscard) \in Seq(Words)
<1>1. PICK n, argv, k : /\ n = NumberOfArguments(flag) /\ argv = Argv(p)
                        /\ k = at[p]
  OBVIOUS
<1>2. n \in {0, 1} /\ argv \in Seq(Words) /\ k \in Nat /\ p \in Programs
  BY <1>1, ArgvWords DEF NumberOfArguments, ParserType
<1>3. joined \in Seq(Words) /\ <<>> \in Seq(Words)
  <2>1. \A t \in Words : <<t>> \in Seq(Words)
    <3> TAKE t \in Words
    <3> HIDE DEF Words
    <3> QED OBVIOUS
  <2>2. <<>> \in Seq(Words)
    OBVIOUS
  <2> QED BY <2>1, <2>2, Zenon DEF Joined
<1>4. CASE joined # <<>>
  BY <1>3, <1>4 DEF ParseArgsValues
<1>5. CASE joined = <<>>
  <2>1. PICK e : e = IF k + n <= Len(argv) THEN k + n ELSE k
    OBVIOUS
  <2>2. ParseArgsValues(p, flag, joined, canDiscard) = SubSeq(argv, k + 1, e)
    BY <1>1, <1>5, <2>1 DEF ParseArgsValues
  <2>3. k + 1 \in Int /\ e \in Int /\ Len(argv) \in Nat
    BY <1>2, <2>1
  <2>4. CASE e < k + 1
    BY <1>3, <2>2, <2>3, <2>4, SubSeqEmpty
  <2>5. CASE e >= k + 1
    <3>1. e = k + 1 /\ e <= Len(argv)
      BY <1>2, <2>1, <2>5
    <3>2. \A i \in k + 1 .. e : argv[i] \in Words
      BY <1>2, <2>3, <3>1
    <3> QED BY <2>2, <2>3, <3>2, SubSeqProperties
  <2> QED BY <2>3, <2>4, <2>5
<1> QED BY <1>4, <1>5

LEMMA TakeKeeps ==
  ASSUME ParserType, NEW p \in Running, verdict[p] = "parsing",
         NEW flag, NEW canDiscard, NEW last,
         NEW joined, Joined(joined),
         Take(p, flag, joined, canDiscard, last)
  PROVE  ParserType' /\ Parsing(p)
<1>1. PICK given : given = ParseArgsValues(p, flag, joined, canDiscard)
  OBVIOUS
<1>2. PICK wellRead :
        wellRead = (/\ Len(given) = NumberOfArguments(flag)
                    /\ \A i \in DOMAIN given : Readable(flag, given[i]))
  OBVIOUS
<1>3. PICK next : next = IF ~wellRead THEN "parse_error"
                         ELSE IF IsHelp(flag) THEN "help" ELSE "parsing"
  OBVIOUS
<1>4. given \in Seq(Words) /\ p \in Programs
  BY <1>1, GivenWords, ArgvWords
<1>5. /\ matched' = [matched EXCEPT ![p] = @ \cup {flag}]
      /\ verdict' = [verdict EXCEPT ![p] = next]
      /\ value' = IF next = "parsing" /\ given # <<>>
                  THEN [value EXCEPT ![p] = Stored(@, flag, given[1])]
                  ELSE value
      /\ \/ letter' = [letter EXCEPT ![p] = @ + 1] /\ UNCHANGED at
         \/ /\ letter' = [letter EXCEPT ![p] = 1]
            /\ at' = [at EXCEPT ![p] =
                        @ + 1 + IF joined = <<>> THEN Len(given) ELSE 0]
      /\ UNCHANGED <<setup, terminated>>
  BY <1>1, <1>2, <1>3 DEF Take
<1>6. next \in {"help", "parse_error", "parsing"}
  BY <1>3
<1>7. given # <<>> => given[1] \in Words
  BY <1>4
<1>8. \A f \in DOMAIN value'[p] : value'[p][f] \in Words
  <2>1. CASE next = "parsing" /\ given # <<>>
    <3>1. value'[p] = Stored(value[p], flag, given[1])
      BY <1>4, <1>5, <2>1 DEF ParserType
    <3> QED BY <1>4, <1>7, <2>1, <3>1, StoredWords DEF ParserType
  <2> QED BY <1>4, <1>5, <2>1 DEF ParserType
<1>9. Len(given) \in Nat
  BY <1>4
<1>10. at' \in [Programs -> Nat \ {0}] /\ letter' \in [Programs -> Nat \ {0}]
  <2>1. at \in [Programs -> Nat \ {0}] /\ letter \in [Programs -> Nat \ {0}]
    BY DEF ParserType
  <2>2. letter' \in [Programs -> Nat \ {0}]
    <3>1. CASE letter' = [letter EXCEPT ![p] = @ + 1]
      BY <1>4, <2>1, <3>1
    <3>2. CASE letter' = [letter EXCEPT ![p] = 1]
      BY <1>4, <2>1, <3>2
    <3> QED BY <1>5, <3>1, <3>2
  <2>3. PICK d \in Nat : d = IF joined = <<>> THEN Len(given) ELSE 0
    BY <1>9
  <2>4. \/ at' = [at EXCEPT ![p] = @ + 1 + d]
        \/ at' = at
    BY <1>5, <2>3
  <2> QED BY <1>4, <2>1, <2>2, <2>4
<1> QED BY <1>4, <1>5, <1>6, <1>8, <1>10 DEF ParserType, Parsing

LEMMA ParseKeeps ==
  ASSUME ParserType, NEW p, Parse(p)
  PROVE  ParserType' /\ Parsing(p)
<1>1. CASE TerminatorChunk(p)
  BY <1>1, ArgvWords DEF TerminatorChunk, NextChunk, ParserType, Parsing
<1>2. ASSUME p \in Running, verdict[p] = "parsing", Refuse(p)
      PROVE  ParserType' /\ Parsing(p)
  BY <1>2, ArgvWords DEF Refuse, ParserType, Parsing
<1>3. ASSUME NextChunk(p)
      PROVE  p \in Running /\ verdict[p] = "parsing" /\ Chunk(p) \in Words
  <2>1. p \in Running /\ verdict[p] = "parsing" /\ at[p] <= Len(Argv(p))
    BY <1>3 DEF NextChunk
  <2>2. at[p] \in Nat \ {0} /\ Argv(p) \in Seq(Words)
    BY <2>1, ArgvWords DEF ParserType
  <2> QED BY <2>1, <2>2, ElementOfSeq DEF Chunk
<1>4. CASE ParseLong(p)
  <2>1. NextChunk(p)
    BY <1>4 DEF ParseLong
  <2>2. PICK body, space :
          body = Chunk(p).body /\ space = SelectInSeq(body, LAMBDA t : t = " ")
    OBVIOUS
  <2>3. PICK joined :
          joined = IF space = 0 THEN <<>>
                   ELSE <<Text(0, SubSeq(body, space + 1, Len(body)))>>
    OBVIOUS
  <2>4. \/ \E flag : Take(p, flag, joined, FALSE, TRUE)
        \/ Refuse(p)
    BY <1>4, <2>2, <2>3 DEF ParseLong
  <2>5. Chunk(p) \in Words /\ space \in Nat
    BY <1>3, <2>1, <2>2, FirstSpace DEF Words
  <2>6. Joined(joined)
    <3>1. CASE space = 0
      BY <2>3, <3>1 DEF Joined
    <3>2. CASE ~(space = 0)
      <4>1. Text(0, SubSeq(body, space + 1, Len(body))) \in Words
        <5>1. space + 1 \in Nat \ {0}
          BY <2>5
        <5>2. Text(0, SubSeq(Chunk(p).body, space + 1, Len(Chunk(p).body))) \in Words
          BY <2>5, <5>1, RestIsWord
        <5> QED BY <2>2, <5>2
      <4>2. joined = <<Text(0, SubSeq(body, space + 1, Len(body)))>>
        BY <2>3, <3>2
      <4> QED BY <4>1, <4>2, Zenon DEF Joined
    <3> QED BY <3>1, <3>2
  <2> QED BY <1>2, <1>3, <2>1, <2>4, <2>6, TakeKeeps
<1>5. CASE ParseShort(p)
  <2>1. NextChunk(p)
    BY <1>5 DEF ParseShort
  <2>2. PICK body, rest :
          /\ body = Chunk(p).body
          /\ rest = SubSeq(Chunk(p).body, letter[p] + 1, Len(Chunk(p).body))
    OBVIOUS
  <2>3. PICK joined :
          joined = IF rest = <<>> THEN <<>> ELSE <<Text(0, rest)>>
    OBVIOUS
  <2>4. \/ \E flag : Take(p, flag, joined, rest # <<>>, rest = <<>>)
        \/ Refuse(p)
    BY <1>5, <2>2, <2>3 DEF ParseShort
  <2>5. Chunk(p) \in Words /\ letter[p] + 1 \in Nat \ {0}
    BY <1>3, <2>1, ArgvWords DEF ParserType
  <2>6. Joined(joined)
    <3>1. CASE rest = <<>>
      BY <2>3, <3>1 DEF Joined
    <3>2. CASE ~(rest = <<>>)
      <4>1. Text(0, rest) \in Words
        BY <2>2, <2>5, RestIsWord
      <4>2. joined = <<Text(0, rest)>>
        BY <2>3, <3>2
      <4> QED BY <4>1, <4>2, Zenon DEF Joined
    <3> QED BY <3>1, <3>2
  <2> QED BY <1>2, <1>3, <2>1, <2>4, <2>6, TakeKeeps
<1>6. CASE Positional(p)
  BY <1>2, <1>3, <1>6 DEF Positional
<1>7. CASE EndOfLine(p)
  BY <1>7, ArgvWords DEF EndOfLine, ParserType, Parsing
<1> QED BY <1>1, <1>4, <1>5, <1>6, <1>7 DEF Parse

-----------------------------------------------------------------------------
(* The names the operation of a program works on.  Only its input can be   *)
(* stdin.tmp, and only its output stdout.tmp: an option is neither, and a  *)
(* name with an extension behind it is not the name of the handler.        *)
LEMMA TwoNames == StdinTmp # StdoutTmp
BY DEF StdinTmp, StdoutTmp, File, Text

LEMMA GetWord ==
  ASSUME ParserType, NEW p \in Programs, NEW flag
  PROVE  Get(p, flag) \in Words
<1>1. CASE flag \in DOMAIN value[p]
  BY <1>1 DEF Get, ParserType
<1>2. CASE flag \notin DOMAIN value[p]
  <2>1. NoText \in Words
    <3>1. <<>> \in Seq(STRING) /\ Len(<<>>) = 0
      OBVIOUS
    <3> QED BY <3>1 DEF NoText, Text, Words
  <2> QED BY <1>2, <2>1 DEF Get
<1> QED BY <1>1, <1>2

LEMMA WordNames ==
  ASSUME NEW t \in Words
  PROVE  t # StdinTmp /\ t # StdoutTmp
<1>1. \A s : <<s>> \in Seq({s}) /\ Len(<<s>>) = 1 /\ <<s>>[1] = s
  OBVIOUS
<1> QED BY <1>1 DEF Words, StdinTmp, StdoutTmp, File, Text

LEMMA WithOutNames ==
  ASSUME NEW t, NEW S, t.body \in Seq(S)
  PROVE  WithOut(t) # StdinTmp /\ WithOut(t) # StdoutTmp
<1>1. PICK b : b = Append(t.body, ".out")
  OBVIOUS
<1>2. Len(b) = Len(t.body) + 1 /\ b[Len(t.body) + 1] = ".out" /\ Len(t.body) \in Nat
  BY <1>1, AppendProperties
<1>3. \A s : <<s>> \in Seq({s}) /\ Len(<<s>>) = 1 /\ <<s>>[1] = s
  OBVIOUS
<1>4. b # <<"stdin.tmp">> /\ b # <<"stdout.tmp">>
  <2>1. ASSUME NEW s, b = <<s>> PROVE s = ".out"
    <3>1. Len(b) = 1
      BY <1>3, <2>1
    <3> QED BY <1>2, <1>3, <2>1, <3>1
  <2> QED BY <2>1
<1> QED BY <1>1, <1>4 DEF WithOut, StdinTmp, StdoutTmp, File, Text

LEMMA FileNames ==
  ASSUME ParserType, NEW p \in Programs
  PROVE  /\ OutFile(p) # StdinTmp
         /\ OutFile(p) = StdoutTmp => ToStdout(p)
         /\ InFile(p) # StdoutTmp
         /\ InFile(p) = StdinTmp <=> FromStdin(p)
<1>1. NameIn(p) \in Words
  BY GetWord DEF NameIn
<1>2. InFile(p) # StdoutTmp /\ (InFile(p) = StdinTmp <=> FromStdin(p))
  BY <1>1, WordNames, TwoNames DEF InFile
<1>3. \E S : InFile(p).body \in Seq(S)
  <2>1. \A S : \A s \in S : <<s>> \in Seq(S)
    OBVIOUS
  <2>2. <<"stdin.tmp">> \in Seq({"stdin.tmp"})
    BY <2>1, Zenon
  <2>3. StdinTmp.body = <<"stdin.tmp">>
    BY DEF StdinTmp, File, Text
  <2>4. CASE FromStdin(p)
    BY <2>2, <2>3, <2>4, Zenon DEF InFile
  <2>5. CASE ~FromStdin(p)
    BY <1>1, <2>5 DEF InFile, Words
  <2> QED BY <2>4, <2>5
<1>4. /\ OutFile(p) # StdinTmp
      /\ OutFile(p) = StdoutTmp => ToStdout(p)
  <2>1. WithOut(InFile(p)) # StdinTmp /\ WithOut(InFile(p)) # StdoutTmp
    BY <1>3, WithOutNames
  <2>2. Get(p, "ofile") # StdinTmp /\ Get(p, "ofile") # StdoutTmp
    BY GetWord, WordNames
  <2> QED BY <2>1, <2>2, TwoNames DEF OutFile
<1> QED BY <1>2, <1>4

(* What a command line says stays as it is once it is read.                *)
LineKept(p) ==
  /\ Operates(p)' = Operates(p) /\ FromStdin(p)' = FromStdin(p)
  /\ ToStdout(p)' = ToStdout(p)
  /\ Takes(p)' = Takes(p) /\ Gives(p)' = Gives(p)
  /\ InFile(p)' = InFile(p) /\ OutFile(p)' = OutFile(p)

SameLines ==
  /\ setup' = setup /\ Running' = Running
  /\ \A p \in Running : LineKept(p)
  /\ \A p : Upstream(p)' = Upstream(p)
  /\ \A p, q : Adjacent(p, q)' = Adjacent(p, q)

LEMMA SameSetup ==
  ASSUME UNCHANGED setup
  PROVE  /\ Running' = Running
         /\ \A p : Upstream(p)' = Upstream(p)
         /\ \A p, q : Adjacent(p, q)' = Adjacent(p, q)
BY DEF Running, Upstream, Adjacent

LEMMA SameLine ==
  ASSUME NEW p, matched'[p] = matched[p], value'[p] = value[p],
         verdict'[p] = verdict[p]
  PROVE  LineKept(p)
<1>1. /\ Sends(p)' = Sends(p) /\ NameIn(p)' = NameIn(p)
      /\ \A f : Get(p, f)' = Get(p, f)
      /\ \A f : TypeOfFile(p, f)' = TypeOfFile(p, f)
  BY DEF Sends, NameIn, Get, TypeOfFile
<1>2. FromStdin(p)' = FromStdin(p)
  BY <1>1 DEF FromStdin
<1>3. ToStdout(p)' = ToStdout(p)
  BY <1>1, <1>2 DEF ToStdout
<1>4. InFile(p)' = InFile(p)
  BY <1>1, <1>2 DEF InFile
<1>5. OutFile(p)' = OutFile(p)
  BY <1>1, <1>3, <1>4 DEF OutFile
<1>6. Operates(p)' = Operates(p)
  BY <1>1 DEF Operates, SameType
<1> QED BY <1>2, <1>3, <1>4, <1>5, <1>6 DEF LineKept, Takes, Gives

LEMMA LinesKept ==
  ASSUME UNCHANGED parserVars
  PROVE  SameLines
<1>1. UNCHANGED <<setup, matched, value, verdict>>
  BY DEF parserVars
<1> QED BY <1>1, SameSetup, SameLine DEF SameLines

LEMMA ParserKept ==
  ASSUME ParserType, UNCHANGED parserVars
  PROVE  ParserType'
BY DEF ParserType, parserVars

-----------------------------------------------------------------------------
(* What a step of one program leaves alone: the others, and the inputs of  *)
(* the programs whose pipelines have ended before them.                    *)
SameFor(q) ==
  /\ pc'[q] = pc[q] /\ tmpIn'[q] = tmpIn[q] /\ source'[q] = source[q]
  /\ result'[q] = result[q] /\ error'[q] = error[q] /\ cout'[q] = cout[q]
  /\ printed'[q] = printed[q] /\ read'[q] = read[q]

StepOf(p) ==
  /\ p \in Running /\ ~Finished(p)
  /\ \A q \in Running : q # p => SameFor(q)

LEMMA StdinKept ==
  ASSUME SameLines, NEW p, StepOf(p),
         NEW q \in Running, \A r \in Upstream(q) : Finished(r)
  PROVE  StdinOf(q)' = StdinOf(q)
<1>1. Upstream(q) \subseteq Running /\ Upstream(q)' = Upstream(q)
  BY DEF Upstream, SameLines
<1>2. \A r \in Upstream(q) : printed'[r] = printed[r]
  BY <1>1 DEF StepOf, SameFor, Finished
<1> QED BY <1>1, <1>2 DEF StdinOf

(* What comes in grows as long as what comes before prints.                *)
LEMMA StdinGrows ==
  ASSUME SameLines, NEW p, StepOf(p), printed[p] \subseteq printed'[p],
         NEW q \in Running
  PROVE  StdinOf(q) \subseteq StdinOf(q)'
<1>1. Upstream(q) \subseteq Running /\ Upstream(q)' = Upstream(q)
  BY DEF Upstream, SameLines
<1>2. \A r \in Upstream(q) : printed[r] \subseteq printed'[r]
  BY <1>1 DEF StepOf, SameFor
<1> QED BY <1>1, <1>2 DEF StdinOf

LEMMA StdinOfOne ==
  ASSUME setup \in Scenarios, NEW p, NEW q \in Upstream(p)
  PROVE  StdinOf(p) = printed[q]
<1>1. ASSUME NEW r \in Upstream(p)
      PROVE  r = q
  <2>1. <<r, p>> \in setup.pipes /\ <<q, p>> \in setup.pipes
    BY <1>1 DEF Upstream
  <2>2. \A c, d \in setup.pipes : c[1] = d[1] \/ c[2] = d[2] => c = d
    BY ScenariosAssumption
  <2> QED BY <2>1, <2>2
<1>2. Upstream(p) = {q}
  BY <1>1
<1> QED BY <1>2 DEF StdinOf

LEMMA RunningPrograms ==
  ASSUME ParserType PROVE Running \subseteq Programs
BY ArgvWords

(* Opening a file to write touches one inode, that of the name.            *)
LEMMA Opened ==
  ASSUME FileType, NEW name, OpenToWrite(name)
  PROVE  /\ data' \in Seq(SUBSET Sources) /\ Len(data') \in Nat
         /\ Len(data) \in Nat /\ Len(data) <= Len(data')
         /\ DOMAIN dir' = DOMAIN dir \cup {name}
         /\ \A f \in DOMAIN dir : dir'[f] = dir[f]
         /\ dir'[name] \in 1 .. Len(data') /\ data'[dir'[name]] = {}
         /\ name \notin DOMAIN dir => dir'[name] > Len(data)
         /\ \A f \in DOMAIN dir' : dir'[f] \in 1 .. Len(data')
         /\ \A f, g \in DOMAIN dir' : dir'[f] = dir'[g] => f = g
         /\ \A i \in 1 .. Len(data) : i # dir'[name] => data'[i] = data[i]
<1>1. Len(data) \in Nat /\ data \in Seq(SUBSET Sources)
  BY DEF FileType
<1>2. {} \in SUBSET Sources
  OBVIOUS
<1>3. CASE name \in DOMAIN dir
  <2>1. dir' = dir /\ data' = [data EXCEPT ![dir[name]] = {}]
    BY <1>3 DEF OpenToWrite
  <2>2. dir[name] \in 1 .. Len(data)
    BY <1>3 DEF FileType
  <2>3. data' \in Seq(SUBSET Sources) /\ Len(data') = Len(data)
    BY <1>1, <1>2, <2>1, <2>2, ExceptSeq
  <2>4. \A i \in 1 .. Len(data) :
          data'[i] = IF i = dir[name] THEN {} ELSE data[i]
    BY <1>1, <2>1, <2>2
  <2>5. DOMAIN dir' = DOMAIN dir \cup {name} /\ Len(data) <= Len(data')
    <3>1. DOMAIN dir = DOMAIN dir \cup {name}
      BY <1>3
    <3>2. Len(data) <= Len(data')
      BY <1>1, <2>3
    <3> QED BY <2>1, <3>1, <3>2, Zenon
  <2>6. dir'[name] \in 1 .. Len(data') /\ data'[dir'[name]] = {}
    BY <2>1, <2>2, <2>3, <2>4
  <2>7. /\ \A f \in DOMAIN dir : dir[f] \in 1 .. Len(data)
        /\ \A f, g \in DOMAIN dir : dir[f] = dir[g] => f = g
    BY DEF FileType
  <2> QED BY <1>1, <1>3, <2>1, <2>3, <2>4, <2>5, <2>6, <2>7
<1>4. CASE name \notin DOMAIN dir
  <2>1. /\ dir' = [f \in DOMAIN dir \cup {name} |->
                     IF f = name THEN Len(data) + 1 ELSE dir[f]]
        /\ data' = Append(data, {})
    BY <1>4 DEF OpenToWrite
  <2>2. /\ data' \in Seq(SUBSET Sources) /\ Len(data') = Len(data) + 1
        /\ data'[Len(data) + 1] = {}
        /\ \A i \in 1 .. Len(data) : data'[i] = data[i]
    BY <1>1, <1>2, <2>1, AppendProperties
  <2>3. DOMAIN dir' = DOMAIN dir \cup {name} /\ dir'[name] = Len(data) + 1
    BY <2>1
  <2>4. \A f \in DOMAIN dir : dir'[f] = dir[f] /\ dir[f] \in 1 .. Len(data)
    BY <1>4, <2>1 DEF FileType
  <2>5. \A f, g \in DOMAIN dir : dir[f] = dir[g] => f = g
    BY DEF FileType
  <2>6. \A f \in DOMAIN dir' : dir'[f] \in 1 .. Len(data')
    BY <1>1, <2>2, <2>3, <2>4
  <2>7. \A f, g \in DOMAIN dir' : dir'[f] = dir'[g] => f = g
    BY <1>1, <2>3, <2>4, <2>5
  <2> QED BY <1>1, <1>4, <2>2, <2>3, <2>4, <2>6, <2>7
<1> QED BY <1>3, <1>4

(* Writing to an inode.                                                    *)
LEMMA WrittenTo ==
  ASSUME FileType, NEW i \in 1 .. Len(data), NEW sources \in SUBSET Sources,
         Write(i, sources)
  PROVE  /\ data' \in Seq(SUBSET Sources) /\ Len(data') = Len(data)
         /\ sources \subseteq data'[i] /\ data'[i] \subseteq sources \cup data[i]
         /\ \A j \in 1 .. Len(data) : j # i => data'[j] = data[j]
<1>1. PICK kept \in {{}, data[i]} : data' = [data EXCEPT ![i] = sources \cup kept]
  BY DEF Write
<1>2. data \in Seq(SUBSET Sources) /\ Len(data) \in Nat /\ data[i] \in SUBSET Sources
  BY DEF FileType
<1>3. PICK both \in SUBSET Sources : both = sources \cup kept
  BY <1>2
<1>4. data' \in Seq(SUBSET Sources) /\ Len(data') = Len(data)
  BY <1>1, <1>2, <1>3, ExceptSeq
<1>5. \A j \in 1 .. Len(data) : data'[j] = IF j = i THEN both ELSE data[j]
  BY <1>1, <1>2, <1>3
<1> QED BY <1>1, <1>3, <1>4, <1>5

(* What is shared with whom is a matter of the command lines too; a        *)
(* neighbour may be killed.                                                *)
LEMMA SharingKept ==
  ASSUME SameLines, NEW p \in Running
  PROVE  /\ Sole(p)' = Sole(p) /\ Alone(p)' = Alone(p)
         /\ \A s : StepOf(s) => (Beside(p)' => Beside(p))
<1>1. Sole(p)' = Sole(p) /\ Alone(p)' = Alone(p)
  BY DEF SameLines, LineKept, Sole, Alone
<1>2. ASSUME NEW s, StepOf(s), Beside(p)'
      PROVE  Beside(p)
  BY <1>2 DEF SameLines, LineKept, Beside, StepOf, SameFor, Finished
<1> QED BY <1>1, <1>2

-----------------------------------------------------------------------------
(* A step that leaves the files alone: only the place, the error, what is  *)
(* printed and where std::cout writes may change.                          *)
LEMMA QuietStep ==
  ASSUME IInv, SameLines, NEW p, StepOf(p),
         UNCHANGED <<dir, data, tmpIn, source, result, read>>,
         pc'[p] \notin {"args", "copy", "write"},
         pc'[p] = "close" /\ Made(p) => pc[p] = "write",
         error[p] # 0 => error'[p] # 0, printed[p] \subseteq printed'[p],
         Gives(p) /\ pc[p] \in Showing => pc'[p] \in Showing,
         Takes(p) =>
           /\ pc[p] \in Holding \cup {"args"} => pc'[p] \in Holding
           /\ error'[p] = 0 => pc[p] \notin {"args", "copy"}
           /\ pc[p] \notin Active /\ pc'[p] \in Active => error'[p] # 0
           /\ error[p] = 0 /\ pc[p] # "args" => error'[p] = 0
  PROVE  /\ FileType' /\ InodeInv' /\ ResultInv' /\ LeftInv'
         /\ FedInv' /\ MixInv' /\ SoleInv' /\ BesideInv' /\ ReadInv'
         /\ StaleInv' /\ OutputInv'
<1>1. /\ Running' = Running /\ setup' = setup /\ p \in Running
      /\ \A q \in Running :
           /\ Takes(q)' = Takes(q) /\ Gives(q)' = Gives(q)
           /\ OutFile(q)' = OutFile(q) /\ Upstream(q)' = Upstream(q)
  BY DEF SameLines, LineKept, StepOf
<1>2. \A q \in Running : q # p => SameFor(q)
  BY DEF StepOf
<1>3. \A q \in Running :
        /\ tmpIn'[q] = tmpIn[q] /\ source'[q] = source[q]
        /\ result'[q] = result[q] /\ read'[q] = read[q]
        /\ Sole(q)' = Sole(q) /\ (Beside(q)' => Beside(q))
        /\ Alone(q)' = Alone(q) /\ Made(q)' = Made(q)
  BY <1>1, SharingKept DEF Made
<1>4. \A q \in Running : Fed(q)' => Fed(q)
  BY <1>1, <1>2 DEF Fed, SameFor
<1>5. \A q \in Running : Feeding(q)' => Feeding(q)
  BY <1>1, <1>2 DEF Feeding, SameFor
<1>6. \A q \in Running : Giver(q) => Giver(q)'
  BY <1>1, <1>2 DEF Giver, SameFor, Holding, Active
<1>7. \A q \in Running :
        /\ Fed(q) => StdinOf(q)' = StdinOf(q)
        /\ StdinOf(q) \subseteq StdinOf(q)'
  BY StdinKept, StdinGrows DEF IInv, FedInv
<1>8. FileType' /\ InodeInv' /\ ResultInv'
  <2>1. FileType'
    BY DEF IInv, FileType
  <2>2. InodeInv'
    BY <1>1, <1>3 DEF IInv, InodeInv, InIn, InOut
  <2>3. ResultInv'
    BY <1>1, <1>3 DEF IInv, ResultInv
  <2> QED BY <2>1, <2>2, <2>3
<1>9. LeftInv'
  <2>1. (StdinTmp \in DOMAIN dir =>
          \/ \E q \in Running : Takes(q) /\ pc[q] \in Holding
          \/ \A q \in Running : Takes(q) => pc[q] = "args")'
    BY <1>1, <1>2 DEF IInv, LeftInv, SameFor, Holding, Active
  <2>2. (StdoutTmp \in DOMAIN dir =>
          \/ setup.stale
          \/ \E q \in Running : error[q] # 0
          \/ \E q \in Running : Gives(q) /\ pc[q] \in Showing)'
    BY <1>1, <1>2 DEF IInv, LeftInv, SameFor
  <2> QED BY <2>1, <2>2 DEF LeftInv
<1>10. FedInv'
  <2> SUFFICES ASSUME NEW q \in Running, Fed(q), NEW r \in Upstream(q)
               PROVE  Finished(r)'
    BY <1>1, <1>4 DEF FedInv
  <2>1. Finished(r) /\ r \in Running
    BY DEF IInv, FedInv, Upstream
  <2> QED BY <1>2, <2>1 DEF Finished, StepOf, SameFor
<1>11. MixInv'
  <2> SUFFICES ASSUME NEW q \in Running, Feeding(q), StdinTmp \in DOMAIN dir,
                      NEW x \in data[dir[StdinTmp]]
               PROVE  \E r \in Running : Giver(r)' /\ x \in StdinOf(r)'
    BY <1>1, <1>5 DEF MixInv
  <2>1. PICK r \in Running : Giver(r) /\ x \in StdinOf(r)
    BY DEF IInv, MixInv
  <2> QED BY <1>6, <1>7, <2>1
<1>12. SoleInv'
  <2> SUFFICES ASSUME NEW q \in Running, Feeding(q)', Sole(q)
               PROVE  /\ StdinTmp \in DOMAIN dir /\ dir[StdinTmp] = tmpIn[q]
                      /\ data[tmpIn[q]] \subseteq StdinOf(q)'
                      /\ pc'[q] # "copy" => data[tmpIn[q]] = StdinOf(q)'
                      /\ pc'[q] = "write" => source[q] = tmpIn[q]
    BY <1>1, <1>3 DEF SoleInv
  <2>1. /\ StdinTmp \in DOMAIN dir /\ dir[StdinTmp] = tmpIn[q]
        /\ data[tmpIn[q]] \subseteq StdinOf(q)
        /\ pc[q] # "copy" => data[tmpIn[q]] = StdinOf(q)
        /\ pc[q] = "write" => source[q] = tmpIn[q]
    BY <1>5 DEF IInv, SoleInv
  <2>2. pc'[q] # "copy" => Fed(q)'
    BY <1>1 DEF Fed, Feeding, Active
  <2>3. pc'[q] \in {"copy", "write"} => pc'[q] = pc[q]
    BY <1>2 DEF SameFor
  <2>4. Fed(q) => pc[q] # "copy"
    BY DEF Fed
  <2> QED BY <1>4, <1>7, <2>1, <2>2, <2>3, <2>4
<1>13. BesideInv'
  <2> SUFFICES ASSUME NEW q \in Running, Feeding(q)', pc'[q] = "write", Beside(q)
               PROVE  data[source[q]] \subseteq StdinOf(q)' \cup {"messages"}
    BY <1>1, <1>3 DEF BesideInv
  <2>1. q # p /\ pc[q] = "write" /\ Feeding(q)
    BY <1>2, <1>5 DEF SameFor
  <2>2. Fed(q) /\ data[source[q]] \subseteq StdinOf(q) \cup {"messages"}
    BY <2>1 DEF IInv, BesideInv, Feeding, Fed
  <2> QED BY <1>7, <2>2
<1>14. ReadInv'
  <2> SUFFICES ASSUME NEW q \in Running, Takes(q), read[q] # <<>>, error'[q] = 0
               PROVE  /\ Sole(q) => read[q][1] = StdinOf(q)'
                      /\ Beside(q) => read[q][1] \subseteq StdinOf(q)' \cup {"messages"}
    BY <1>1, <1>3 DEF ReadInv
  <2>1. error[q] = 0 /\ pc[q] \notin {"args", "copy"}
    BY <1>2 DEF IInv, StageInv, SameFor
  <2> QED BY <1>7, <2>1 DEF IInv, ReadInv, Fed
<1>15. StaleInv'
  BY <1>1, <1>3 DEF IInv, StaleInv
<1>16. OutputInv'
  BY <1>1, <1>2, <1>3 DEF IInv, OutputInv, SameFor
<1> QED BY <1>8, <1>9, <1>10, <1>11, <1>12, <1>13, <1>14, <1>15, <1>16

(* The steps that leave the files alone.                                   *)
LEMMA PlaceRunning ==
  ASSUME StageInv, NEW p \in Programs, pc[p] # "done"
  PROVE  p \in Running
BY DEF StageInv

(* The rest of the invariant, for the programs that did not make the step. *)
LEMMA OthersShow ==
  ASSUME IInv, SameLines, NEW p, StepOf(p),
         NEW q \in Running, q # p
  PROVE  /\ (Gives(q) /\ Alone(q) /\ pc[q] \in {"work", "write", "close"} =>
               /\ error[q] = 0 => cout[q] = "buffer" /\ printed[q] = {}
               /\ error[q] # 0 =>
                    cout[q] = "stdout" /\ printed[q] \subseteq {"messages"})'
         /\ (Gives(q) /\ Alone(q) /\ pc[q] \in {"exit", "done"} =>
               /\ cout[q] = "dead" => ~Made(q)
               /\ error[q] # 0 => printed[q] \subseteq {"messages"}
               /\ error[q] = 0 /\ Made(q) =>
                    printed[q] = IF read[q] = <<>> THEN {} ELSE read[q][1]
               /\ error[q] = 0 /\ ~Made(q) => printed[q] = {"stale"})'
<1>1. /\ Gives(q)' = Gives(q) /\ Alone(q)' = Alone(q) /\ OutFile(q)' = OutFile(q)
      /\ SameFor(q)
  BY SharingKept DEF SameLines, LineKept, StepOf
<1>2. Made(q)' = Made(q)
  BY <1>1 DEF Made, SameFor
<1> QED BY <1>1, <1>2 DEF IInv, CoutInv, ShownInv, SameFor

LEMMA NotRunStep ==
  ASSUME IInv, NEW p \in Programs, NotRun(p)
  PROVE  IInv'
<1>1. ParserType' /\ SameLines /\ p \in Running /\ ~Operates(p) /\ pc[p] = "args"
  <2>1. pc[p] = "args" /\ UNCHANGED parserVars
    BY DEF NotRun
  <2>2. ~Operates(p)
    BY DEF NotRun, Operates, IInv, ParserType
  <2> QED BY <2>1, <2>2, LinesKept, ParserKept, PlaceRunning DEF IInv
<1>2. /\ pc' = [pc EXCEPT ![p] = "done"]
      /\ printed' = printed \/ printed' = [printed EXCEPT ![p] = {"messages"}]
      /\ UNCHANGED <<dir, data, tmpIn, source, result, error, cout, read>>
  BY DEF NotRun, Goto, Exit, IInv, ParserType
<1>3. MainType'
  BY <1>2 DEF IInv, MainType, Places, Sources
<1>4. StepOf(p) /\ pc'[p] = "done" /\ printed[p] \subseteq printed'[p]
  <2>1. StepOf(p) /\ pc'[p] = "done"
    BY <1>1, <1>2, RunningPrograms DEF StepOf, SameFor, Finished, IInv, MainType
  <2>2. printed[p] = {}
    BY <1>1 DEF IInv, StageInv
  <2> QED BY <2>1, <2>2
<1>5. /\ FileType' /\ InodeInv' /\ ResultInv' /\ LeftInv'
      /\ FedInv' /\ MixInv' /\ SoleInv' /\ BesideInv' /\ ReadInv'
      /\ StaleInv' /\ OutputInv'
  BY <1>1, <1>2, <1>4, QuietStep DEF Takes, Gives
<1>6. StageInv'
  BY <1>1, <1>2, <1>4, RunningPrograms
     DEF IInv, MainType, StageInv, SameLines, LineKept, StepOf, SameFor, Active
<1>7. CoutInv' /\ ShownInv'
  <2>1. Gives(p)' = FALSE
    BY <1>1 DEF SameLines, LineKept, Gives
  <2>2. Running' = Running
    BY <1>1 DEF SameLines
  <2> QED BY <1>1, <1>4, <2>1, <2>2, OthersShow DEF CoutInv, ShownInv
<1> QED BY <1>1, <1>3, <1>5, <1>6, <1>7 DEF IInv

(* The handler starts without standard input, or cannot create its file.   *)
LEMMA StartWithoutFile ==
  ASSUME IInv, NEW p \in Programs, pc[p] = "args", Operates(p),
         Goto(p, "redirect"),
         UNCHANGED <<parserVars, dir, data, tmpIn, source, result, cout, printed,
                     read, status>>,
         \/ ~FromStdin(p) /\ UNCHANGED error
         \/ error' = [error EXCEPT ![p] = 2]
  PROVE  IInv'
<1>1. ParserType' /\ SameLines /\ p \in Running
  BY LinesKept, ParserKept, PlaceRunning DEF IInv
<1>2. pc' = [pc EXCEPT ![p] = "redirect"]
  BY DEF Goto
<1>3. MainType'
  BY <1>2 DEF IInv, MainType, Places
<1>4. StepOf(p) /\ pc'[p] = "redirect" /\ error'[p] \in {0, 2}
  BY <1>1, <1>2, <1>3, RunningPrograms DEF StepOf, SameFor, Finished, IInv, MainType
<1>5. error'[p] # 0 \/ (~Takes(p) /\ error' = error)
  BY DEF IInv, MainType, Takes
<1>6. error[p] = 0
  BY <1>1 DEF IInv, StageInv
<1>7. /\ FileType' /\ InodeInv' /\ ResultInv' /\ LeftInv'
      /\ FedInv' /\ MixInv' /\ SoleInv' /\ BesideInv' /\ ReadInv'
      /\ StaleInv' /\ OutputInv'
  BY <1>1, <1>4, <1>5, <1>6, QuietStep DEF Holding, Active, Showing
<1>8. StageInv'
  BY <1>1, <1>2, <1>4, RunningPrograms
     DEF IInv, MainType, StageInv, SameLines, LineKept, StepOf, SameFor, Active
<1>9. CoutInv' /\ ShownInv'
  <2>1. Running' = Running
    BY <1>1 DEF SameLines
  <2> QED BY <1>1, <1>4, <2>1, OthersShow DEF CoutInv, ShownInv
<1> QED BY <1>1, <1>3, <1>7, <1>8, <1>9 DEF IInv

LEMMA RedirectStep ==
  ASSUME IInv, NEW p \in Programs, Redirect(p)
  PROVE  IInv'
<1>1. /\ pc[p] = "redirect" /\ UNCHANGED parserVars
      /\ pc' = [pc EXCEPT ![p] = "work"]
      /\ cout' = IF ToStdout(p) /\ error[p] = 0
                 THEN [cout EXCEPT ![p] = "buffer"] ELSE cout
      /\ UNCHANGED <<dir, data, tmpIn, source, result, error, printed, read>>
  BY DEF Redirect, Goto
<1>2. ParserType' /\ SameLines /\ p \in Running
  BY <1>1, LinesKept, ParserKept, PlaceRunning DEF IInv
<1>3. MainType'
  BY <1>1 DEF IInv, MainType, Places
<1>4. StepOf(p) /\ pc'[p] = "work"
  BY <1>1, <1>2, RunningPrograms DEF StepOf, SameFor, Finished, IInv, MainType
<1>5. /\ FileType' /\ InodeInv' /\ ResultInv' /\ LeftInv'
      /\ FedInv' /\ MixInv' /\ SoleInv' /\ BesideInv' /\ ReadInv'
      /\ StaleInv' /\ OutputInv'
  BY <1>1, <1>2, <1>4, QuietStep DEF Holding, Active, Showing
<1>6. StageInv'
  BY <1>1, <1>2, <1>4, RunningPrograms
     DEF IInv, MainType, StageInv, SameLines, LineKept, StepOf, SameFor, Active
<1>7. CoutInv' /\ ShownInv'
  <2>1. Running' = Running /\ Gives(p)' = Gives(p)
    BY <1>2 DEF SameLines, LineKept
  <2>2. cout[p] = "stdout" /\ printed[p] = {}
    BY <1>1, <1>2 DEF IInv, StageInv
  <2>3. Gives(p) => cout'[p] = IF error[p] = 0 THEN "buffer" ELSE "stdout"
    BY <1>1, <2>2 DEF Gives, IInv, MainType
  <2> QED BY <1>1, <1>2, <1>4, <2>1, <2>2, <2>3, OthersShow DEF CoutInv, ShownInv
<1> QED BY <1>2, <1>3, <1>5, <1>6, <1>7 DEF IInv

LEMMA OperationFailsStep ==
  ASSUME IInv, NEW p \in Programs, OperationFails(p)
  PROVE  IInv'
<1>1. /\ pc[p] \in {"work", "write"} /\ UNCHANGED parserVars
      /\ pc' = [pc EXCEPT ![p] = "close"]
      /\ \/ printed' = printed
         \/ /\ cout[p] = "stdout"
            /\ printed' = [printed EXCEPT ![p] = @ \cup {"messages"}]
      /\ UNCHANGED <<dir, data, tmpIn, source, result, error, cout, read>>
  BY DEF OperationFails, Goto, Says
<1>2. ParserType' /\ SameLines /\ p \in Running
  BY <1>1, LinesKept, ParserKept, PlaceRunning DEF IInv
<1>3. MainType'
  BY <1>1 DEF IInv, MainType, Places, Sources
<1>4. StepOf(p) /\ pc'[p] = "close" /\ printed[p] \subseteq printed'[p]
  BY <1>1, <1>2, RunningPrograms DEF StepOf, SameFor, Finished, IInv, MainType
<1>5. pc[p] = "work" => ~Made(p)
  BY <1>2 DEF IInv, StageInv, Made
<1>6. /\ FileType' /\ InodeInv' /\ ResultInv' /\ LeftInv'
      /\ FedInv' /\ MixInv' /\ SoleInv' /\ BesideInv' /\ ReadInv'
      /\ StaleInv' /\ OutputInv'
  BY <1>1, <1>2, <1>4, <1>5, QuietStep DEF Holding, Active, Showing
<1>7. StageInv'
  BY <1>1, <1>2, <1>4, RunningPrograms
     DEF IInv, MainType, StageInv, SameLines, LineKept, StepOf, SameFor, Active
<1>8. CoutInv' /\ ShownInv'
  <2>1. Running' = Running /\ Gives(p)' = Gives(p) /\ Alone(p)' = Alone(p)
    BY <1>2, SharingKept DEF SameLines, LineKept
  <2>2. Gives(p) /\ Alone(p) =>
          /\ error[p] = 0 => cout[p] = "buffer" /\ printed[p] = {}
          /\ error[p] # 0 => cout[p] = "stdout" /\ printed[p] \subseteq {"messages"}
    BY <1>1, <1>2 DEF IInv, CoutInv
  <2>3. \/ printed'[p] = printed[p]
        \/ cout[p] = "stdout" /\ printed'[p] = printed[p] \cup {"messages"}
    BY <1>1 DEF IInv, MainType
  <2> QED BY <1>1, <1>2, <1>4, <2>1, <2>2, <2>3, OthersShow DEF CoutInv, ShownInv
<1> QED BY <1>2, <1>3, <1>6, <1>7, <1>8 DEF IInv

(* A program that stays where it is, or is killed, shows nothing more.     *)
LEMMA OutOfItStep ==
  ASSUME IInv, NEW p \in Programs, pc[p] \in {"args", "work", "write", "close", "exit"},
         pc[p] = "args" => ~Operates(p),
         NEW where \in {"hung", "killed"}, Goto(p, where),
         where = "hung" => pc[p] # "args",
         UNCHANGED <<parserVars, dir, data, tmpIn, source, result, error, cout,
                     printed, read>>
  PROVE  IInv'
<1>1. ParserType' /\ SameLines /\ p \in Running
  BY LinesKept, ParserKept, PlaceRunning DEF IInv
<1>2. pc' = [pc EXCEPT ![p] = where]
  BY DEF Goto
<1>3. MainType'
  BY <1>2 DEF IInv, MainType, Places
<1>4. StepOf(p) /\ pc'[p] = where
  BY <1>1, <1>2, RunningPrograms DEF StepOf, SameFor, Finished, IInv, MainType
<1>5. /\ FileType' /\ InodeInv' /\ ResultInv' /\ LeftInv'
      /\ FedInv' /\ MixInv' /\ SoleInv' /\ BesideInv' /\ ReadInv'
      /\ StaleInv' /\ OutputInv'
  BY <1>1, <1>4, QuietStep DEF Takes, Holding, Active, Showing
<1>6. StageInv'
  BY <1>1, <1>2, <1>4, RunningPrograms
     DEF IInv, MainType, StageInv, SameLines, LineKept, StepOf, SameFor, Active
<1>7. CoutInv' /\ ShownInv'
  <2>1. Running' = Running
    BY <1>1 DEF SameLines
  <2> QED BY <1>1, <1>4, <2>1, OthersShow DEF CoutInv, ShownInv
<1> QED BY <1>1, <1>3, <1>5, <1>6, <1>7 DEF IInv

LEMMA NeverReturnsStep ==
  ASSUME IInv, NEW p \in Programs, NeverReturns(p)
  PROVE  IInv'
BY OutOfItStep DEF NeverReturns

LEMMA BrokenPipeStep ==
  ASSUME IInv, NEW p \in Programs, BrokenPipe(p)
  PROVE  IInv'
<1>1. /\ pc[p] \in {"args", "work", "write", "close", "exit"}
      /\ pc[p] = "args" => ~Operates(p)
  BY DEF BrokenPipe, IsConnected, Prints, Operates
<1> QED BY <1>1, OutOfItStep DEF BrokenPipe

LEMMA ReturnStep ==
  ASSUME IInv, NEW p \in Programs, Return(p)
  PROVE  IInv'
<1>1. /\ pc[p] = "exit" /\ UNCHANGED parserVars
      /\ pc' = [pc EXCEPT ![p] = "done"]
      /\ UNCHANGED <<dir, data, tmpIn, source, result, error, cout, printed, read>>
  BY DEF Return, Goto, Exit
<1>2. ParserType' /\ SameLines /\ p \in Running
  BY <1>1, LinesKept, ParserKept, PlaceRunning DEF IInv
<1>3. MainType'
  BY <1>1 DEF IInv, MainType, Places
<1>4. StepOf(p) /\ pc'[p] = "done"
  BY <1>1, <1>2, RunningPrograms DEF StepOf, SameFor, Finished, IInv, MainType
<1>5. /\ FileType' /\ InodeInv' /\ ResultInv' /\ LeftInv'
      /\ FedInv' /\ MixInv' /\ SoleInv' /\ BesideInv' /\ ReadInv'
      /\ StaleInv' /\ OutputInv'
  BY <1>1, <1>2, <1>4, QuietStep DEF Holding, Active, Showing
<1>6. StageInv'
  BY <1>1, <1>2, <1>4, RunningPrograms
     DEF IInv, MainType, StageInv, SameLines, LineKept, StepOf, SameFor, Active
<1>7. CoutInv' /\ ShownInv'
  <2>1. Running' = Running /\ Gives(p)' = Gives(p) /\ Alone(p)' = Alone(p)
    BY <1>2, SharingKept DEF SameLines, LineKept
  <2>2. Made(p)' = Made(p)
    BY <1>1, <1>2 DEF Made, SameLines, LineKept
  <2> QED BY <1>1, <1>2, <1>4, <2>1, <2>2, OthersShow DEF CoutInv, ShownInv, IInv
<1> QED BY <1>2, <1>3, <1>5, <1>6, <1>7 DEF IInv

-----------------------------------------------------------------------------
(* The parser's step: a program that has not begun gets to know its names. *)
LEMMA ParseStepKeeps ==
  ASSUME IInv, NEW p \in Programs, ParseStep(p)
  PROVE  IInv'
<1>1. /\ pc[p] = "args" /\ Parse(p)
      /\ UNCHANGED <<pc, dir, data, tmpIn, source, result, error, cout, printed,
                     read>>
  BY DEF ParseStep, mainVars
<1>2. ParserType' /\ Parsing(p)
  BY <1>1, ParseKeeps DEF IInv
<1>3. /\ p \in Running /\ setup' = setup /\ Running' = Running
      /\ \A q : Upstream(q)' = Upstream(q)
      /\ \A q, r : Adjacent(q, r)' = Adjacent(q, r)
  BY <1>2, SameSetup DEF Parsing
<1>4. \A q \in Running : q # p => LineKept(q)
  BY <1>2, RunningPrograms, SameLine DEF Parsing, IInv
<1>5. ~Operates(p) /\ ~Takes(p) /\ ~Gives(p)
  BY <1>2 DEF Parsing, Operates, Takes, Gives
<1>6. /\ tmpIn[p] = None /\ source[p] = None /\ result[p] = None
      /\ read[p] = <<>>
  BY <1>3, <1>5 DEF IInv, StageInv
<1>7. \A q \in Running : q # p =>
        /\ Operates(q)' = Operates(q) /\ Takes(q)' = Takes(q)
        /\ Gives(q)' = Gives(q) /\ OutFile(q)' = OutFile(q)
        /\ Sole(q)' => Sole(q)
        /\ Beside(q)' => Beside(q)
        /\ Alone(q)' => Alone(q)
  BY <1>1, <1>3, <1>4, <1>5 DEF LineKept, Sole, Beside, Alone
<1>8. FileType' /\ MainType'
  BY <1>1 DEF IInv, FileType, MainType
<1>9. \A q \in Running : StdinOf(q)' = StdinOf(q)
  BY <1>1, <1>3 DEF StdinOf
<1>10. StageInv'
  BY <1>1, <1>3, <1>5, <1>6, <1>7 DEF IInv, StageInv, Active
<1>11. InodeInv'
  BY <1>1, <1>3, <1>6, <1>7 DEF IInv, InodeInv, InIn, InOut
<1>12. ResultInv'
  <2>1. \A f \in DOMAIN dir : dir[f] # None
    BY DEF IInv, FileType, None
  <2> QED BY <1>1, <1>3, <1>6, <1>7, <2>1 DEF IInv, ResultInv
<1>13. LeftInv'
  <2>1. (StdinTmp \in DOMAIN dir =>
          \/ \E q \in Running : Takes(q) /\ pc[q] \in Holding
          \/ \A q \in Running : Takes(q) => pc[q] = "args")'
    BY <1>1, <1>3, <1>5, <1>7 DEF IInv, LeftInv, Holding, Active
  <2>2. (StdoutTmp \in DOMAIN dir =>
          \/ setup.stale
          \/ \E q \in Running : error[q] # 0
          \/ \E q \in Running : Gives(q) /\ pc[q] \in Showing)'
    BY <1>1, <1>3, <1>5, <1>7 DEF IInv, LeftInv, Showing
  <2> QED BY <2>1, <2>2 DEF LeftInv
<1>14. FedInv'
  BY <1>1, <1>3, <1>7 DEF IInv, FedInv, Fed, Finished
<1>15. MixInv'
  <2>1. \A q \in Running : Giver(q)' = Giver(q) /\ Feeding(q)' = Feeding(q)
    BY <1>1, <1>3, <1>7 DEF Giver, Feeding, Holding, Active
  <2> QED BY <1>1, <1>3, <1>9, <2>1 DEF IInv, MixInv
<1>16. SoleInv'
  BY <1>1, <1>3, <1>7, <1>9 DEF IInv, SoleInv, Feeding, Active
<1>17. BesideInv'
  BY <1>1, <1>3, <1>7, <1>9 DEF IInv, BesideInv, Feeding, Active
<1>18. ReadInv'
  BY <1>1, <1>3, <1>6, <1>7, <1>9 DEF IInv, ReadInv
<1>19. \A q \in Running : Made(q)' = Made(q)
  BY <1>1, <1>3, <1>6, <1>7 DEF Made
<1>20. StaleInv' /\ CoutInv'
  BY <1>1, <1>3, <1>7, <1>19 DEF IInv, StaleInv, CoutInv
<1>21. OutputInv' /\ ShownInv'
  BY <1>1, <1>3, <1>7, <1>19 DEF IInv, OutputInv, ShownInv
<1> QED BY <1>2, <1>8, <1>10, <1>11, <1>12, <1>13, <1>14, <1>15, <1>16, <1>17,
           <1>18, <1>20, <1>21 DEF IInv

-----------------------------------------------------------------------------
(* The steps that touch the files.                                         *)
LEMMA InodeRange ==
  ASSUME FileType, Running \subseteq Programs, NEW i, InIn(i) \/ InOut(i)
  PROVE  i \in 1 .. Len(data)
BY DEF FileType, InIn, InOut, None

(* The handler creates its file for the standard input, or empties it.     *)
LEMMA StartWithFile ==
  ASSUME IInv, NEW p \in Programs, pc[p] = "args", Operates(p), FromStdin(p),
         Goto(p, "copy"), OpenToWrite(StdinTmp),
         tmpIn' = [tmpIn EXCEPT ![p] = dir'[StdinTmp]],
         UNCHANGED <<parserVars, source, result, error, cout, printed, read, status>>
  PROVE  IInv'
<1>1. ParserType' /\ SameLines /\ p \in Running /\ Running \subseteq Programs
  BY LinesKept, ParserKept, PlaceRunning, RunningPrograms DEF IInv
<1>2. pc' = [pc EXCEPT ![p] = "copy"]
  BY DEF Goto
<1>3. PICK i : i = dir'[StdinTmp]
  OBVIOUS
<1>4. /\ data' \in Seq(SUBSET Sources) /\ Len(data') \in Nat
      /\ Len(data) \in Nat /\ Len(data) <= Len(data')
      /\ DOMAIN dir' = DOMAIN dir \cup {StdinTmp}
      /\ \A f \in DOMAIN dir : dir'[f] = dir[f]
      /\ i \in 1 .. Len(data') /\ data'[i] = {}
      /\ StdinTmp \notin DOMAIN dir => i > Len(data)
      /\ \A f \in DOMAIN dir' : dir'[f] \in 1 .. Len(data')
      /\ \A f, g \in DOMAIN dir' : dir'[f] = dir'[g] => f = g
      /\ \A j \in 1 .. Len(data) : j # i => data'[j] = data[j]
  BY <1>3, Opened DEF IInv
<1>5. FileType'
  BY <1>3, <1>4 DEF IInv, FileType
<1>6. MainType'
  BY <1>2 DEF IInv, MainType, Places
<1>7. StepOf(p) /\ pc'[p] = "copy" /\ tmpIn'[p] = i
  <2>1. pc'[p] = "copy" /\ tmpIn'[p] = i
    BY <1>2, <1>3 DEF IInv, MainType, FileType
  <2>2. \A q \in Running : q # p => tmpIn'[q] = tmpIn[q] /\ pc'[q] = pc[q]
    BY <1>1, <1>2 DEF IInv, MainType, FileType
  <2> QED BY <1>1, <2>1, <2>2 DEF StepOf, SameFor, Finished
<1>8. /\ Running' = Running /\ setup' = setup
      /\ \A q \in Running :
           /\ Takes(q)' = Takes(q) /\ Gives(q)' = Gives(q)
           /\ Operates(q)' = Operates(q)
           /\ OutFile(q)' = OutFile(q) /\ Upstream(q)' = Upstream(q)
           /\ Sole(q)' = Sole(q) /\ (Beside(q)' => Beside(q))
           /\ Alone(q)' = Alone(q) /\ Made(q)' = Made(q)
  BY <1>1, <1>7, SharingKept DEF SameLines, LineKept, Made
<1>9. Takes(p) /\ \A q \in Running : q # p => SameFor(q)
  BY <1>7 DEF Takes, StepOf
<1>10. ~InOut(i)
  <2>1. InOut(i) => i \in 1 .. Len(data)
    BY <1>1, InodeRange DEF IInv
  <2>2. i \in 1 .. Len(data) => InIn(i)
    BY <1>3, <1>4 DEF InIn
  <2> QED BY <2>1, <2>2 DEF IInv, InodeInv
<1>11. \A q \in Running : Fed(q) => StdinOf(q)' = StdinOf(q)
  BY <1>1, <1>7, StdinKept DEF IInv, FedInv
<1>12. StageInv'
  <2>1. \A q \in Programs \ Running : pc'[q] = "done"
    BY <1>1, <1>2 DEF IInv, StageInv
  <2>2. i # None
    BY <1>4 DEF None
  <2> QED BY <1>1, <1>7, <1>8, <1>9, <2>1, <2>2
       DEF IInv, StageInv, SameFor, Active, Takes
<1>13. InodeInv'
  <2>1. \A j : InIn(j)' => j = i \/ InIn(j)
    BY <1>3, <1>4, <1>7, <1>8, <1>9 DEF InIn, SameFor
  <2>2. \A j : InOut(j)' => InOut(j)
    BY <1>4, <1>8 DEF InOut
  <2> QED BY <1>1, <1>10, <2>1, <2>2, InodeRange DEF IInv, InodeInv
<1>14. ResultInv'
  <2> SUFFICES ASSUME NEW q \in Running, NEW f \in DOMAIN dir', dir'[f] = result[q]
               PROVE  f = OutFile(q)
    BY <1>8 DEF ResultInv
  <2>1. result[q] # None
    BY <1>4 DEF None
  <2>2. f # StdinTmp
    BY <1>3, <1>10, <2>1 DEF InOut
  <2> QED BY <1>4, <2>2 DEF IInv, ResultInv
<1>15. LeftInv'
  <2>1. \E q \in Running : Takes(q) /\ pc'[q] \in Holding
    BY <1>1, <1>7, <1>9 DEF Holding, Active
  <2>2. (StdoutTmp \in DOMAIN dir =>
          \/ setup.stale
          \/ \E q \in Running : error[q] # 0
          \/ \E q \in Running : Gives(q) /\ pc[q] \in Showing)'
    BY <1>4, <1>7, <1>8, <1>9, TwoNames DEF IInv, LeftInv, SameFor, Showing
  <2> QED BY <1>8, <2>1, <2>2 DEF LeftInv
<1>16. FedInv'
  <2> SUFFICES ASSUME NEW q \in Running, Fed(q)', NEW r \in Upstream(q)
               PROVE  Finished(r)'
    BY <1>8 DEF FedInv
  <2>1. Fed(q)
    BY <1>7, <1>8, <1>9 DEF Fed, SameFor
  <2>2. Finished(r) /\ r \in Running
    BY <2>1 DEF IInv, FedInv, Upstream
  <2> QED BY <1>9, <2>2 DEF Finished, SameFor
<1>17. MixInv'
  BY <1>3, <1>4 DEF MixInv
<1>18. SoleInv'
  <2> SUFFICES ASSUME NEW q \in Running, Feeding(q)', Sole(q)
               PROVE  (/\ StdinTmp \in DOMAIN dir /\ dir[StdinTmp] = tmpIn[q]
                       /\ data[tmpIn[q]] \subseteq StdinOf(q)
                       /\ pc[q] # "copy" => data[tmpIn[q]] = StdinOf(q)
                       /\ pc[q] = "write" => source[q] = tmpIn[q])'
    BY <1>8 DEF SoleInv
  <2>1. q = p
    BY <1>1, <1>9 DEF Sole
  <2> QED BY <1>3, <1>4, <1>7, <2>1
<1>19. BesideInv'
  <2> SUFFICES ASSUME NEW q \in Running, Feeding(q)', pc'[q] = "write", Beside(q)
               PROVE  data'[source[q]] \subseteq StdinOf(q)' \cup {"messages"}
    BY <1>8 DEF BesideInv
  <2>1. q # p /\ pc[q] = "write" /\ Feeding(q) /\ Fed(q)
    BY <1>7, <1>8, <1>9 DEF SameFor, Feeding, Fed
  <2>2. data[source[q]] \subseteq StdinOf(q) \cup {"messages"} /\ source[q] \in 1 .. Len(data)
    BY <1>1, <2>1 DEF IInv, BesideInv, StageInv, FileType, None
  <2> QED BY <1>4, <1>11, <2>1, <2>2
<1>20. ReadInv'
  <2> SUFFICES ASSUME NEW q \in Running, Takes(q), read[q] # <<>>, error[q] = 0
               PROVE  /\ Sole(q) => read[q][1] = StdinOf(q)'
                      /\ Beside(q) => read[q][1] \subseteq StdinOf(q)' \cup {"messages"}
    BY <1>8 DEF ReadInv
  <2>1. pc[q] \notin {"args", "copy"}
    BY DEF IInv, StageInv
  <2> QED BY <1>11, <2>1 DEF IInv, ReadInv, Fed
<1>21. StaleInv'
  <2>1. ASSUME StdoutTmp \in DOMAIN dir'
        PROVE  /\ StdoutTmp \in DOMAIN dir
               /\ data'[dir'[StdoutTmp]] = data[dir[StdoutTmp]]
    <3>1. StdoutTmp \in DOMAIN dir /\ dir[StdoutTmp] \in 1 .. Len(data)
      BY <1>4, <2>1, TwoNames DEF IInv, FileType
    <3>2. dir[StdoutTmp] # i
      BY <1>10, <3>1, TwoNames DEF InOut
    <3> QED BY <1>4, <3>1, <3>2
  <2> QED BY <1>8, <2>1 DEF IInv, StaleInv
<1>22. CoutInv' /\ ShownInv'
  BY <1>1, <1>7, <1>8, OthersShow DEF CoutInv, ShownInv
<1>23. OutputInv'
  <2> SUFFICES ASSUME NEW q \in Running, Gives(q), Alone(q), Made(q),
                      pc'[q] \in {"write", "close"}
               PROVE  /\ StdoutTmp \in DOMAIN dir' /\ dir'[StdoutTmp] = result[q]
                      /\ data'[result[q]] = IF read[q] = <<>> THEN {} ELSE read[q][1]
    BY <1>8 DEF OutputInv
  <2>1. pc[q] \in {"write", "close"}
    BY <1>7, <1>9 DEF SameFor
  <2>2. /\ StdoutTmp \in DOMAIN dir /\ dir[StdoutTmp] = result[q]
        /\ data[result[q]] = IF read[q] = <<>> THEN {} ELSE read[q][1]
    BY <2>1 DEF IInv, OutputInv
  <2>3. result[q] # i /\ result[q] \in 1 .. Len(data)
    BY <1>10, <2>2, TwoNames DEF InOut, IInv, FileType
  <2> QED BY <1>4, <2>2, <2>3
<1> QED BY <1>1, <1>5, <1>6, <1>12, <1>13, <1>14, <1>15, <1>16, <1>17, <1>18,
           <1>19, <1>20, <1>21, <1>22, <1>23 DEF IInv

(* The standard input is copied, in part or, when what comes before has    *)
(* ended, to its end.                                                      *)
LEMMA CopyStep ==
  ASSUME IInv, NEW p \in Programs, pc[p] = "copy",
         Write(tmpIn[p], StdinOf(p)),
         \/ pc' = pc
         \/ /\ \A q \in Upstream(p) : Finished(q)
            /\ pc' = [pc EXCEPT ![p] = "redirect"],
         UNCHANGED <<parserVars, dir, tmpIn, source, result, error, cout,
                     printed, read>>
  PROVE  IInv'
<1>1. /\ pc[p] = "copy" /\ Write(tmpIn[p], StdinOf(p))
      /\ UNCHANGED <<parserVars, dir, tmpIn, source, result, error, cout,
                     printed, read>>
  OBVIOUS
<1>2. ParserType' /\ SameLines /\ p \in Running /\ Running \subseteq Programs
  BY <1>1, LinesKept, ParserKept, PlaceRunning, RunningPrograms DEF IInv
<1>3. PICK i : i = tmpIn[p]
  OBVIOUS
<1>4. Takes(p) /\ error[p] = 0 /\ i \in 1 .. Len(data) /\ InIn(i)
  <2>1. Takes(p) /\ error[p] = 0 /\ tmpIn[p] # None
    BY <1>1, <1>2 DEF IInv, StageInv
  <2> QED BY <1>2, <1>3, <2>1 DEF IInv, FileType, None, InIn
<1>5. StdinOf(p) \in SUBSET Sources
  <2>1. Upstream(p) \subseteq Programs
    BY <1>2 DEF Upstream
  <2> QED BY <2>1 DEF StdinOf, IInv, MainType, Sources
<1>6. /\ data' \in Seq(SUBSET Sources) /\ Len(data') = Len(data)
      /\ StdinOf(p) \subseteq data'[i] /\ data'[i] \subseteq StdinOf(p) \cup data[i]
      /\ \A j \in 1 .. Len(data) : j # i => data'[j] = data[j]
  BY <1>1, <1>3, <1>4, <1>5, WrittenTo DEF IInv
<1>7. FileType'
  BY <1>1, <1>6 DEF IInv, FileType
<1>8. MainType'
  BY <1>1 DEF IInv, MainType, Places
<1>9. /\ StepOf(p) /\ pc'[p] \in {"copy", "redirect"}
      /\ pc'[p] = "redirect" => \A q \in Upstream(p) : Finished(q)
      /\ \A q \in Programs \ Running : pc'[q] = "done"
  <2>1. \A q \in Programs \ Running : pc[q] = "done"
    BY DEF IInv, StageInv
  <2> QED BY <1>1, <1>2, <2>1 DEF StepOf, SameFor, Finished, IInv, MainType
<1>10. /\ Running' = Running /\ setup' = setup
       /\ \A q \in Running :
            /\ Takes(q)' = Takes(q) /\ Gives(q)' = Gives(q)
            /\ Operates(q)' = Operates(q)
            /\ OutFile(q)' = OutFile(q) /\ Upstream(q)' = Upstream(q)
            /\ Sole(q)' = Sole(q) /\ (Beside(q)' => Beside(q))
            /\ Alone(q)' = Alone(q) /\ Made(q)' = Made(q)
  BY <1>1, <1>2, <1>9, SharingKept DEF SameLines, LineKept, Made
<1>11. \A q \in Running : q # p => SameFor(q)
  BY <1>9 DEF StepOf
<1>12. ~InOut(i)
  BY <1>4 DEF IInv, InodeInv
<1>13. \A q \in Running : StdinOf(q)' = StdinOf(q)
  <2> SUFFICES ASSUME NEW q \in Running PROVE StdinOf(q)' = StdinOf(q)
    OBVIOUS
  <2>1. printed' = printed /\ Upstream(q)' = Upstream(q)
    BY <1>1, <1>10
  <2> QED BY <2>1 DEF StdinOf
<1>14. StageInv'
  BY <1>1, <1>2, <1>4, <1>9, <1>10, <1>11
     DEF IInv, StageInv, StepOf, SameFor, Active, Takes
<1>15. InodeInv'
  BY <1>1, <1>6, <1>10 DEF IInv, InodeInv, InIn, InOut
<1>16. ResultInv'
  BY <1>1, <1>10 DEF IInv, ResultInv
<1>17. LeftInv'
  <2>1. \E q \in Running : Takes(q) /\ pc'[q] \in Holding
    BY <1>2, <1>4, <1>9 DEF Holding, Active
  <2>2. (StdoutTmp \in DOMAIN dir =>
          \/ setup.stale
          \/ \E q \in Running : error[q] # 0
          \/ \E q \in Running : Gives(q) /\ pc[q] \in Showing)'
    BY <1>1, <1>10, <1>11 DEF IInv, LeftInv, SameFor, Showing
  <2> QED BY <1>10, <2>1, <2>2 DEF LeftInv
<1>18. FedInv'
  <2> SUFFICES ASSUME NEW q \in Running, Fed(q)', NEW r \in Upstream(q)
               PROVE  Finished(r)'
    BY <1>10 DEF FedInv
  <2>1. Fed(q) \/ (q = p /\ pc'[p] = "redirect")
    BY <1>9, <1>10, <1>11 DEF Fed, SameFor
  <2>2. Finished(r) /\ r \in Running
    BY <1>9, <2>1 DEF IInv, FedInv, Upstream
  <2> QED BY <1>9, <1>11, <2>2 DEF Finished, SameFor, StepOf
<1>19. MixInv'
  <2> SUFFICES ASSUME StdinTmp \in DOMAIN dir, NEW x \in data'[dir[StdinTmp]]
               PROVE  \E r \in Running : Giver(r)' /\ x \in StdinOf(r)'
    BY <1>1, <1>10 DEF MixInv
  <2>1. Giver(p)'
    BY <1>1, <1>2, <1>4, <1>9, <1>10 DEF Giver, Holding, Active
  <2>2. x \in data[dir[StdinTmp]] \/ x \in StdinOf(p)
    BY <1>6 DEF IInv, FileType
  <2>3. Feeding(p)
    BY <1>1, <1>4 DEF Feeding, Active
  <2>4. ASSUME x \in data[dir[StdinTmp]]
        PROVE  \E r \in Running : Giver(r) /\ x \in StdinOf(r)
    BY <1>2, <2>3, <2>4 DEF IInv, MixInv
  <2>5. \A r \in Running : Giver(r) => Giver(r)' /\ StdinOf(r)' = StdinOf(r)
    BY <1>1, <1>10, <1>11, <1>13, <2>1 DEF Giver, SameFor
  <2> QED BY <1>2, <1>13, <2>1, <2>2, <2>4, <2>5
<1>20. SoleInv'
  <2> SUFFICES ASSUME NEW q \in Running, Feeding(q)', Sole(q)
               PROVE  (/\ StdinTmp \in DOMAIN dir /\ dir[StdinTmp] = tmpIn[q]
                       /\ data[tmpIn[q]] \subseteq StdinOf(q)
                       /\ pc[q] # "copy" => data[tmpIn[q]] = StdinOf(q)
                       /\ pc[q] = "write" => source[q] = tmpIn[q])'
    BY <1>10 DEF SoleInv
  <2>1. q = p
    BY <1>2, <1>4 DEF Sole
  <2>2. Feeding(p)
    BY <1>1, <1>4 DEF Feeding, Active
  <2>3. /\ StdinTmp \in DOMAIN dir /\ dir[StdinTmp] = i
        /\ data[i] \subseteq StdinOf(p)
    BY <1>1, <1>2, <1>3, <2>1, <2>2 DEF IInv, SoleInv
  <2>4. data'[i] = StdinOf(p)
    BY <1>6, <2>3
  <2> QED BY <1>1, <1>3, <1>9, <1>13, <2>1, <2>3, <2>4
<1>21. BesideInv'
  <2> SUFFICES ASSUME NEW q \in Running, Feeding(q)', pc'[q] = "write", Beside(q)
               PROVE  data'[source[q]] \subseteq StdinOf(q)' \cup {"messages"}
    BY <1>1, <1>10 DEF BesideInv
  <2>1. q # p /\ pc[q] = "write" /\ Fed(q) /\ Feeding(q)
    BY <1>1, <1>9, <1>10, <1>11 DEF SameFor, Feeding, Fed
  <2>2. Adjacent(q, p)
    BY <1>2, <1>4, <2>1 DEF Beside
  <2>3. p \notin Upstream(q)
    BY <1>1, <2>1 DEF IInv, FedInv, Finished
  <2>4. q \in Upstream(p)
    BY <1>2, <2>2, <2>3 DEF Adjacent, Upstream
  <2>5. StdinOf(p) \subseteq {"messages"}
    BY <2>1, <2>4, StdinOfOne DEF IInv, ParserType, StageInv
  <2>6. data[source[q]] \subseteq StdinOf(q) \cup {"messages"}
    BY <2>1 DEF IInv, BesideInv
  <2>7. source[q] \in 1 .. Len(data)
    BY <1>2, <2>1 DEF IInv, StageInv, FileType, None
  <2> QED BY <1>6, <1>13, <2>5, <2>6, <2>7
<1>22. ReadInv'
  <2> SUFFICES ASSUME NEW q \in Running, Takes(q), read[q] # <<>>, error[q] = 0
               PROVE  /\ Sole(q) => read[q][1] = StdinOf(q)'
                      /\ Beside(q) => read[q][1] \subseteq StdinOf(q)' \cup {"messages"}
    BY <1>1, <1>10 DEF ReadInv
  <2>1. pc[q] \notin {"args", "copy"}
    BY DEF IInv, StageInv
  <2> QED BY <1>13, <2>1 DEF IInv, ReadInv, Fed
<1>23. StaleInv'
  <2>1. StdoutTmp \in DOMAIN dir => data'[dir[StdoutTmp]] = data[dir[StdoutTmp]]
    BY <1>6, <1>12, TwoNames DEF InOut, IInv, FileType
  <2> QED BY <1>1, <1>10, <2>1 DEF IInv, StaleInv
<1>24. CoutInv' /\ ShownInv'
  BY <1>2, <1>9, <1>10, OthersShow DEF CoutInv, ShownInv
<1>25. OutputInv'
  <2> SUFFICES ASSUME NEW q \in Running, Gives(q), Alone(q), Made(q),
                      pc'[q] \in {"write", "close"}
               PROVE  /\ StdoutTmp \in DOMAIN dir /\ dir[StdoutTmp] = result[q]
                      /\ data'[result[q]] = IF read[q] = <<>> THEN {} ELSE read[q][1]
    BY <1>1, <1>10 DEF OutputInv
  <2>1. pc[q] \in {"write", "close"}
    BY <1>9, <1>11 DEF SameFor
  <2>2. /\ StdoutTmp \in DOMAIN dir /\ dir[StdoutTmp] = result[q]
        /\ data[result[q]] = IF read[q] = <<>> THEN {} ELSE read[q][1]
    BY <2>1 DEF IInv, OutputInv
  <2>3. result[q] # i /\ result[q] \in 1 .. Len(data)
    BY <1>12, <2>2, TwoNames DEF InOut, IInv, FileType
  <2> QED BY <1>6, <2>2, <2>3
<1> QED BY <1>2, <1>7, <1>8, <1>14, <1>15, <1>16, <1>17, <1>18, <1>19, <1>20,
           <1>21, <1>22, <1>23, <1>24, <1>25 DEF IInv

LEMMA CopySomeStep ==
  ASSUME IInv, NEW p \in Programs, CopySome(p)
  PROVE  IInv'
<1>1. /\ pc[p] = "copy" /\ Write(tmpIn[p], StdinOf(p))
      /\ UNCHANGED <<parserVars, pc, dir, tmpIn, source, result, error, cout,
                     printed, read>>
  BY DEF CopySome
<1> QED BY <1>1, CopyStep

LEMMA CopyStdinStep ==
  ASSUME IInv, NEW p \in Programs, CopyStdin(p)
  PROVE  IInv'
<1>1. /\ pc[p] = "copy" /\ Write(tmpIn[p], StdinOf(p))
      /\ \A q \in Upstream(p) : Finished(q)
      /\ pc' = [pc EXCEPT ![p] = "redirect"]
      /\ UNCHANGED <<parserVars, dir, tmpIn, source, result, error, cout,
                     printed, read>>
  BY DEF CopyStdin, Goto
<1> QED BY <1>1, CopyStep

(* The operation opens its input and creates its output.                   *)
LEMMA OpenFilesStep ==
  ASSUME IInv, NEW p \in Programs, OpenFiles(p)
  PROVE  IInv'
<1>1. /\ pc[p] = "work" /\ InFile(p) \in DOMAIN dir
      /\ source' = [source EXCEPT ![p] = dir[InFile(p)]]
      /\ OpenToWrite(OutFile(p))
      /\ result' = [result EXCEPT ![p] = dir'[OutFile(p)]]
      /\ pc' = [pc EXCEPT ![p] = "write"]
      /\ printed' = IF cout[p] = "stdout"
                    THEN [printed EXCEPT ![p] = @ \cup {"messages"}] ELSE printed
      /\ UNCHANGED <<parserVars, tmpIn, error, cout, read>>
  BY DEF OpenFiles, Goto, Says
<1>2. ParserType' /\ SameLines /\ p \in Running /\ Running \subseteq Programs
  BY <1>1, LinesKept, ParserKept, PlaceRunning, RunningPrograms DEF IInv
<1>3. PICK o, i : o = OutFile(p) /\ i = dir'[OutFile(p)]
  OBVIOUS
<1>4. /\ data' \in Seq(SUBSET Sources) /\ Len(data') \in Nat
      /\ Len(data) \in Nat /\ Len(data) <= Len(data')
      /\ DOMAIN dir' = DOMAIN dir \cup {o}
      /\ \A f \in DOMAIN dir : dir'[f] = dir[f]
      /\ dir'[o] = i /\ i \in 1 .. Len(data') /\ data'[i] = {}
      /\ o \notin DOMAIN dir => i > Len(data)
      /\ \A f \in DOMAIN dir' : dir'[f] \in 1 .. Len(data')
      /\ \A f, g \in DOMAIN dir' : dir'[f] = dir'[g] => f = g
      /\ \A j \in 1 .. Len(data) : j # i => data'[j] = data[j]
  BY <1>1, <1>3, Opened DEF IInv
<1>5. Operates(p) /\ result[p] = None /\ read[p] = <<>>
  BY <1>1, <1>2 DEF IInv, StageInv, Active
<1>6. /\ o # StdinTmp /\ (o = StdoutTmp => Gives(p))
      /\ Takes(p) => InFile(p) = StdinTmp
  BY <1>3, <1>5, FileNames DEF IInv, Gives, Takes
<1>7. dir[InFile(p)] \in 1 .. Len(data)
  BY <1>1 DEF IInv, FileType
<1>8. FileType'
  BY <1>1, <1>3, <1>4, <1>7 DEF IInv, FileType
<1>9. MainType'
  BY <1>1 DEF IInv, MainType, Places, Sources
<1>10. /\ StepOf(p) /\ pc'[p] = "write"
       /\ source'[p] = dir[InFile(p)] /\ result'[p] = i
       /\ printed'[p] = IF cout[p] = "stdout" THEN printed[p] \cup {"messages"}
                        ELSE printed[p]
  BY <1>1, <1>2, <1>3 DEF StepOf, SameFor, Finished, IInv, MainType, FileType
<1>11. /\ Running' = Running /\ setup' = setup
       /\ \A q \in Running :
            /\ Takes(q)' = Takes(q) /\ Gives(q)' = Gives(q)
            /\ Operates(q)' = Operates(q)
            /\ OutFile(q)' = OutFile(q) /\ Upstream(q)' = Upstream(q)
            /\ Sole(q)' = Sole(q) /\ (Beside(q)' => Beside(q))
            /\ Alone(q)' = Alone(q)
  BY <1>2, <1>10, SharingKept DEF SameLines, LineKept
<1>12. \A q \in Running : q # p => SameFor(q) /\ Made(q)' = Made(q)
  BY <1>10, <1>11 DEF StepOf, Made, SameFor
<1>13. ~InIn(i)
  <2>1. InIn(i) => i \in 1 .. Len(data)
    BY <1>2, InodeRange DEF IInv
  <2>2. i \in 1 .. Len(data) => InOut(i)
    BY <1>4, <1>6 DEF InOut
  <2> QED BY <2>1, <2>2 DEF IInv, InodeInv
<1>14. \A q \in Running :
         /\ Fed(q) => StdinOf(q)' = StdinOf(q)
         /\ StdinOf(q) \subseteq StdinOf(q)'
  BY <1>2, <1>10, StdinKept, StdinGrows DEF IInv, FedInv
<1>15. \A q \in Running :
         /\ Fed(q)' = Fed(q) /\ Feeding(q)' = Feeding(q)
         /\ Giver(q)' = Giver(q)
  BY <1>1, <1>10, <1>11, <1>12 DEF Fed, Feeding, Giver, SameFor, Holding, Active
<1>16. StageInv'
  <2>1. \A q \in Programs \ Running : pc'[q] = "done"
    BY <1>1, <1>2 DEF IInv, StageInv
  <2>2. i # None /\ dir[InFile(p)] # None
    BY <1>4, <1>7 DEF None
  <2>3. printed'[p] \subseteq {"messages"}
    BY <1>1, <1>2, <1>10 DEF IInv, StageInv
  <2> QED BY <1>1, <1>2, <1>5, <1>10, <1>11, <1>12, <2>1, <2>2, <2>3
       DEF IInv, StageInv, SameFor, Active
<1>17. InodeInv'
  <2>1. \A j : InIn(j)' => InIn(j)
    BY <1>1, <1>4, <1>6, <1>10, <1>11, <1>12 DEF InIn, SameFor
  <2>2. \A j : InOut(j)' => j = i \/ InOut(j)
    BY <1>4, <1>10, <1>11, <1>12 DEF InOut, SameFor
  <2> QED BY <1>2, <1>13, <2>1, <2>2, InodeRange DEF IInv, InodeInv
<1>18. ResultInv'
  <2> SUFFICES ASSUME NEW q \in Running, NEW f \in DOMAIN dir', dir'[f] = result'[q]
               PROVE  f = OutFile(q)
    BY <1>11 DEF ResultInv
  <2>1. CASE q = p
    BY <1>3, <1>4, <1>10, <2>1
  <2>2. CASE q # p
    <3>1. result'[q] = result[q] /\ result[q] <= Len(data)
      BY <1>2, <1>4, <1>12, <2>2 DEF SameFor, IInv, FileType
    <3>2. f \in DOMAIN dir
      BY <1>4, <3>1
    <3> QED BY <1>4, <3>1, <3>2 DEF IInv, ResultInv
  <2> QED BY <2>1, <2>2
<1>19. LeftInv'
  <2>1. (StdinTmp \in DOMAIN dir =>
          \/ \E q \in Running : Takes(q) /\ pc[q] \in Holding
          \/ \A q \in Running : Takes(q) => pc[q] = "args")'
    <3>1. \A q \in Running : pc[q] \in Holding => pc'[q] \in Holding
      BY <1>10, <1>12 DEF SameFor, Holding, Active
    <3>2. ~Takes(p) \/ pc'[p] \in Holding
      BY <1>10 DEF Holding, Active
    <3>3. StdinTmp \in DOMAIN dir' => StdinTmp \in DOMAIN dir
      BY <1>4, <1>6
    <3>4. \A q \in Running : q # p => pc'[q] = pc[q]
      BY <1>12 DEF SameFor
    <3>5. Takes(p) => \E q \in Running : Takes(q) /\ pc'[q] \in Holding
      BY <1>2, <3>2
    <3> QED BY <1>11, <3>1, <3>3, <3>4, <3>5 DEF IInv, LeftInv
  <2>2. (StdoutTmp \in DOMAIN dir =>
          \/ setup.stale
          \/ \E q \in Running : error[q] # 0
          \/ \E q \in Running : Gives(q) /\ pc[q] \in Showing)'
    <3>1. StdoutTmp \in DOMAIN dir' => StdoutTmp \in DOMAIN dir \/ Gives(p)
      BY <1>4, <1>6
    <3>2. Gives(p) => \E q \in Running : Gives(q) /\ pc'[q] \in Showing
      BY <1>2, <1>10 DEF Showing
    <3>3. \A q \in Running : pc[q] \in Showing => pc'[q] = pc[q]
      BY <1>1, <1>12 DEF SameFor, Showing
    <3> QED BY <1>1, <1>11, <3>1, <3>2, <3>3 DEF IInv, LeftInv
  <2> QED BY <2>1, <2>2 DEF LeftInv
<1>20. FedInv'
  <2> SUFFICES ASSUME NEW q \in Running, Fed(q), NEW r \in Upstream(q)
               PROVE  Finished(r)'
    BY <1>11, <1>15 DEF FedInv
  <2>1. Finished(r) /\ r \in Running
    BY DEF IInv, FedInv, Upstream
  <2> QED BY <1>1, <1>12, <2>1 DEF Finished, SameFor
<1>21. StdinTmp \in DOMAIN dir' =>
         /\ StdinTmp \in DOMAIN dir /\ dir'[StdinTmp] = dir[StdinTmp]
         /\ data'[dir[StdinTmp]] = data[dir[StdinTmp]]
  BY <1>4, <1>6, <1>13 DEF InIn, IInv, FileType
<1>22. MixInv'
  <2>1. \A r \in Running : Giver(r) => Giver(r)' /\ StdinOf(r) \subseteq StdinOf(r)'
    BY <1>14, <1>15
  <2> QED BY <1>11, <1>15, <1>21, <2>1 DEF IInv, MixInv
<1>23. SoleInv'
  <2> SUFFICES ASSUME NEW q \in Running, Feeding(q), Sole(q)
               PROVE  (/\ StdinTmp \in DOMAIN dir /\ dir[StdinTmp] = tmpIn[q]
                       /\ data[tmpIn[q]] \subseteq StdinOf(q)
                       /\ pc[q] # "copy" => data[tmpIn[q]] = StdinOf(q)
                       /\ pc[q] = "write" => source[q] = tmpIn[q])'
    BY <1>11, <1>15 DEF SoleInv
  <2>1. /\ StdinTmp \in DOMAIN dir /\ dir[StdinTmp] = tmpIn[q]
        /\ data[tmpIn[q]] \subseteq StdinOf(q)
        /\ pc[q] # "copy" => data[tmpIn[q]] = StdinOf(q)
        /\ pc[q] = "write" => source[q] = tmpIn[q]
    BY DEF IInv, SoleInv
  <2>2. /\ StdinTmp \in DOMAIN dir' /\ dir'[StdinTmp] = tmpIn'[q]
        /\ data'[tmpIn'[q]] = data[tmpIn[q]]
    BY <1>1, <1>4, <1>21, <2>1
  <2>3. pc[q] # "copy" => StdinOf(q)' = StdinOf(q)
    BY <1>14 DEF Fed, Feeding, Active
  <2>4. q = p => source'[q] = tmpIn[q]
    BY <1>6, <1>10, <2>1 DEF Feeding
  <2>5. pc'[q] = "copy" <=> pc[q] = "copy"
    BY <1>1, <1>10, <1>12 DEF SameFor
  <2>6. q # p => source'[q] = source[q] /\ pc'[q] = pc[q]
    BY <1>12 DEF SameFor
  <2> QED BY <1>1, <1>14, <2>1, <2>2, <2>3, <2>4, <2>5, <2>6
<1>24. BesideInv'
  <2> SUFFICES ASSUME NEW q \in Running, Feeding(q), pc'[q] = "write", Beside(q)
               PROVE  data'[source'[q]] \subseteq StdinOf(q)' \cup {"messages"}
    BY <1>11, <1>15 DEF BesideInv
  <2>1. CASE q # p
    <3>1. /\ pc[q] = "write" /\ source'[q] = source[q] /\ Takes(q) /\ Fed(q)
          /\ source[q] # None /\ source[q] \in 1 .. Len(data)
      BY <1>2, <1>12, <2>1
         DEF SameFor, Feeding, Fed, IInv, StageInv, FileType, None
    <3>2. source[q] # i
      BY <1>13, <3>1 DEF InIn
    <3> QED BY <1>4, <1>14, <3>1, <3>2 DEF IInv, BesideInv
  <2>2. CASE q = p
    <3>1. Takes(p) /\ Fed(p) /\ ~Finished(p)
      BY <1>1, <2>2 DEF Feeding, Fed, Finished
    <3>2. source'[p] = dir[StdinTmp] /\ StdinTmp \in DOMAIN dir
      BY <1>1, <1>6, <1>10, <3>1
    <3>3. data'[source'[p]] = data[dir[StdinTmp]]
      BY <1>4, <1>21, <3>2
    <3>4. ASSUME NEW x \in data[dir[StdinTmp]]
          PROVE  x \in StdinOf(p)
      <4>1. PICK r \in Running : Giver(r) /\ x \in StdinOf(r)
        BY <2>2, <3>2, <3>4 DEF IInv, MixInv
      <4>2. r # p => Adjacent(p, r) /\ pc[r] # "killed"
        BY <2>2, <4>1 DEF Beside, Giver
      <4>3. p \notin Upstream(r)
        <5>1. printed[p] = {}
          BY <1>1, <1>2 DEF IInv, StageInv
        <5> QED BY <4>1, <5>1, StdinOfOne DEF IInv, ParserType
      <4>4. r = p \/ r \notin Upstream(p)
        BY <1>2, <3>1, <4>1, <4>2 DEF IInv, FedInv, Giver, Finished, Holding, Active
      <4> QED BY <1>2, <4>1, <4>2, <4>3, <4>4 DEF Adjacent, Upstream
    <3> QED BY <1>2, <1>14, <2>2, <3>1, <3>3, <3>4
  <2> QED BY <2>1, <2>2
<1>25. ReadInv'
  <2> SUFFICES ASSUME NEW q \in Running, Takes(q), read[q] # <<>>, error[q] = 0
               PROVE  /\ Sole(q) => read[q][1] = StdinOf(q)'
                      /\ Beside(q) => read[q][1] \subseteq StdinOf(q)' \cup {"messages"}
    BY <1>1, <1>11 DEF ReadInv
  <2>1. pc[q] \notin {"args", "copy"}
    BY DEF IInv, StageInv
  <2> QED BY <1>14, <2>1 DEF IInv, ReadInv, Fed
<1>26. StaleInv'
  <2>1. CASE o = StdoutTmp
    <3>1. Made(p)'
      <4>1. OutFile(p)' = StdoutTmp
        BY <1>2, <1>3, <1>11, <2>1
      <4>2. result'[p] # 0
        BY <1>4, <1>10
      <4> QED BY <4>1, <4>2 DEF Made, None
    <3> QED BY <1>2, <1>11, <3>1 DEF StaleInv
  <2>2. CASE o # StdoutTmp
    <3>1. StdoutTmp \in DOMAIN dir' =>
            /\ StdoutTmp \in DOMAIN dir /\ dir'[StdoutTmp] = dir[StdoutTmp]
            /\ dir[StdoutTmp] # i /\ dir[StdoutTmp] \in 1 .. Len(data)
      BY <1>4, <2>2 DEF IInv, FileType
    <3>2. ~Made(p)
      BY <1>5 DEF Made
    <3>3. \A q \in Running : Made(q) => Made(q)'
      BY <1>12, <3>2
    <3> QED BY <1>4, <1>11, <3>1, <3>3 DEF IInv, StaleInv
  <2> QED BY <2>1, <2>2
<1>27. CoutInv' /\ ShownInv'
  <2>1. Gives(p) /\ Alone(p) =>
          /\ error[p] = 0 => cout[p] = "buffer" /\ printed[p] = {}
          /\ error[p] # 0 => cout[p] = "stdout" /\ printed[p] \subseteq {"messages"}
    BY <1>1, <1>2 DEF IInv, CoutInv
  <2> QED BY <1>1, <1>2, <1>10, <1>11, <2>1, OthersShow DEF CoutInv, ShownInv
<1>28. OutputInv'
  <2> SUFFICES ASSUME NEW q \in Running, Gives(q), Alone(q), Made(q)',
                      pc'[q] \in {"write", "close"}
               PROVE  /\ StdoutTmp \in DOMAIN dir' /\ dir'[StdoutTmp] = result'[q]
                      /\ data'[result'[q]] =
                           IF read[q] = <<>> THEN {} ELSE read[q][1]
    BY <1>1, <1>11 DEF OutputInv
  <2>1. CASE q = p
    <3>1. o = StdoutTmp
      BY <1>3, <1>11, <2>1 DEF Made
    <3> QED BY <1>4, <1>5, <1>10, <2>1, <3>1
  <2>2. CASE q # p
    <3>1. /\ pc[q] \in {"write", "close"} /\ Made(q) /\ result'[q] = result[q]
      BY <1>12, <2>2 DEF SameFor
    <3>2. /\ StdoutTmp \in DOMAIN dir /\ dir[StdoutTmp] = result[q]
          /\ data[result[q]] = IF read[q] = <<>> THEN {} ELSE read[q][1]
      BY <3>1 DEF IInv, OutputInv
    <3>3. o # StdoutTmp
      BY <1>2, <1>6, <2>2 DEF Alone
    <3>4. result[q] # i /\ result[q] \in 1 .. Len(data)
      BY <1>4, <3>2, <3>3 DEF IInv, FileType
    <3> QED BY <1>4, <3>1, <3>2, <3>4
  <2> QED BY <2>1, <2>2
<1> QED BY <1>2, <1>8, <1>9, <1>16, <1>17, <1>18, <1>19, <1>20, <1>22, <1>23,
           <1>24, <1>25, <1>26, <1>27, <1>28 DEF IInv

(* The operation writes what it read to its output.                        *)
LEMMA WriteResultStep ==
  ASSUME IInv, NEW p \in Programs, WriteResult(p)
  PROVE  IInv'
<1>1. /\ pc[p] = "write"
      /\ read' = [read EXCEPT ![p] = <<data[source[p]]>>]
      /\ Write(result[p], data[source[p]])
      /\ pc' = [pc EXCEPT ![p] = "close"]
      /\ UNCHANGED <<parserVars, dir, tmpIn, source, result, error, cout, printed>>
  BY DEF WriteResult, Goto
<1>2. ParserType' /\ SameLines /\ p \in Running /\ Running \subseteq Programs
  BY <1>1, LinesKept, ParserKept, PlaceRunning, RunningPrograms DEF IInv
<1>3. PICK i, d : i = result[p] /\ d = data[source[p]]
  OBVIOUS
<1>4. /\ Operates(p) /\ read[p] = <<>> /\ result[p] # None
      /\ i \in 1 .. Len(data) /\ source[p] \in 1 .. Len(data)
  BY <1>1, <1>2, <1>3 DEF IInv, StageInv, Active, FileType, None
<1>5. d \in SUBSET Sources
  BY <1>3, <1>4 DEF IInv, FileType
<1>6. /\ data' \in Seq(SUBSET Sources) /\ Len(data') = Len(data)
      /\ d \subseteq data'[i] /\ data'[i] \subseteq d \cup data[i]
      /\ \A j \in 1 .. Len(data) : j # i => data'[j] = data[j]
  BY <1>1, <1>3, <1>4, <1>5, WrittenTo DEF IInv
<1>7. FileType'
  BY <1>1, <1>6 DEF IInv, FileType
<1>8. MainType'
  BY <1>1, <1>3, <1>5 DEF IInv, MainType, Places
<1>9. StepOf(p) /\ pc'[p] = "close" /\ read'[p] = <<d>>
  BY <1>1, <1>2, <1>3 DEF StepOf, SameFor, Finished, IInv, MainType
<1>10. /\ Running' = Running /\ setup' = setup
       /\ \A q \in Running :
            /\ Takes(q)' = Takes(q) /\ Gives(q)' = Gives(q)
            /\ Operates(q)' = Operates(q)
            /\ OutFile(q)' = OutFile(q) /\ Upstream(q)' = Upstream(q)
            /\ Sole(q)' = Sole(q) /\ (Beside(q)' => Beside(q))
            /\ Alone(q)' = Alone(q) /\ Made(q)' = Made(q)
  BY <1>1, <1>2, <1>9, SharingKept DEF SameLines, LineKept, Made
<1>11. \A q \in Running : q # p => SameFor(q)
  BY <1>9 DEF StepOf
<1>12. ~InIn(i)
  BY <1>2, <1>3, <1>4 DEF IInv, InodeInv, InOut
<1>13. \A q \in Running : StdinOf(q)' = StdinOf(q)
  BY <1>1, <1>10 DEF StdinOf
<1>14. \A q \in Running :
         /\ Fed(q)' = Fed(q) /\ Feeding(q)' = Feeding(q)
         /\ Giver(q)' = Giver(q)
  BY <1>1, <1>9, <1>10, <1>11 DEF Fed, Feeding, Giver, SameFor, Holding, Active
<1>15. StageInv'
  BY <1>1, <1>2, <1>4, <1>9, <1>10, <1>11
     DEF IInv, StageInv, StepOf, SameFor, Active
<1>16. InodeInv' /\ ResultInv'
  <2>1. InodeInv'
    BY <1>1, <1>6, <1>10 DEF IInv, InodeInv, InIn, InOut
  <2>2. ResultInv'
    BY <1>1, <1>10 DEF IInv, ResultInv
  <2> QED BY <2>1, <2>2
<1>17. LeftInv'
  <2>1. \A q \in Running :
          /\ pc[q] \in Holding => pc'[q] \in Holding
          /\ pc[q] \in Showing => pc'[q] \in Showing
          /\ pc[q] = "args" => pc'[q] = "args"
    BY <1>1, <1>9, <1>11 DEF SameFor, Holding, Active, Showing
  <2>2. (StdinTmp \in DOMAIN dir =>
          \/ \E q \in Running : Takes(q) /\ pc[q] \in Holding
          \/ \A q \in Running : Takes(q) => pc[q] = "args")'
    BY <1>1, <1>10, <2>1 DEF IInv, LeftInv
  <2>3. (StdoutTmp \in DOMAIN dir =>
          \/ setup.stale
          \/ \E q \in Running : error[q] # 0
          \/ \E q \in Running : Gives(q) /\ pc[q] \in Showing)'
    BY <1>1, <1>10, <2>1 DEF IInv, LeftInv
  <2> QED BY <2>2, <2>3 DEF LeftInv
<1>18. FedInv'
  <2> SUFFICES ASSUME NEW q \in Running, Fed(q), NEW r \in Upstream(q)
               PROVE  Finished(r)'
    BY <1>10, <1>14 DEF FedInv
  <2>1. Finished(r) /\ r \in Running
    BY DEF IInv, FedInv, Upstream
  <2> QED BY <1>1, <1>11, <2>1 DEF Finished, SameFor
<1>19. MixInv'
  <2>1. \A r \in Running : Giver(r) => Giver(r)' /\ StdinOf(r)' = StdinOf(r)
    BY <1>13, <1>14
  <2>2. StdinTmp \in DOMAIN dir => data'[dir[StdinTmp]] = data[dir[StdinTmp]]
    BY <1>6, <1>12 DEF InIn, IInv, FileType
  <2> QED BY <1>1, <1>10, <1>14, <2>1, <2>2 DEF IInv, MixInv
<1>20. SoleInv'
  <2> SUFFICES ASSUME NEW q \in Running, Feeding(q), Sole(q)
               PROVE  (/\ StdinTmp \in DOMAIN dir /\ dir[StdinTmp] = tmpIn[q]
                       /\ data[tmpIn[q]] \subseteq StdinOf(q)
                       /\ pc[q] # "copy" => data[tmpIn[q]] = StdinOf(q)
                       /\ pc[q] = "write" => source[q] = tmpIn[q])'
    BY <1>10, <1>14 DEF SoleInv
  <2>1. /\ StdinTmp \in DOMAIN dir /\ dir[StdinTmp] = tmpIn[q]
        /\ data[tmpIn[q]] \subseteq StdinOf(q)
        /\ pc[q] # "copy" => data[tmpIn[q]] = StdinOf(q)
        /\ pc[q] = "write" => source[q] = tmpIn[q]
    BY DEF IInv, SoleInv
  <2>2. data'[tmpIn[q]] = data[tmpIn[q]]
    BY <1>6, <1>12, <2>1 DEF InIn, IInv, FileType
  <2>3. StdinOf(q)' = StdinOf(q)
    BY <1>13
  <2>4. /\ pc'[q] = "copy" <=> pc[q] = "copy"
        /\ pc'[q] = "write" => pc[q] = "write"
    BY <1>1, <1>9, <1>11 DEF SameFor
  <2> QED BY <1>1, <2>1, <2>2, <2>3, <2>4
<1>21. BesideInv'
  <2> SUFFICES ASSUME NEW q \in Running, Feeding(q), pc'[q] = "write", Beside(q)
               PROVE  data'[source[q]] \subseteq StdinOf(q)' \cup {"messages"}
    BY <1>1, <1>10, <1>14 DEF BesideInv
  <2>1. /\ pc[q] = "write" /\ Takes(q) /\ Fed(q)
        /\ source[q] # None /\ source[q] \in 1 .. Len(data)
    BY <1>2, <1>9, <1>11
       DEF SameFor, Feeding, Fed, IInv, StageInv, FileType, None
  <2>2. source[q] # i
    BY <1>12, <2>1 DEF InIn
  <2> QED BY <1>6, <1>13, <2>1, <2>2 DEF IInv, BesideInv
<1>22. ReadInv'
  <2> SUFFICES ASSUME NEW q \in Running, Takes(q), read'[q] # <<>>, error[q] = 0
               PROVE  /\ Sole(q) => read'[q][1] = StdinOf(q)'
                      /\ Beside(q) => read'[q][1] \subseteq StdinOf(q)' \cup {"messages"}
    BY <1>1, <1>10 DEF ReadInv
  <2>1. CASE q = p
    <3>1. Feeding(p) /\ Fed(p)
      BY <1>1, <2>1 DEF Feeding, Fed, Active
    <3>2. Sole(p) => d = StdinOf(p)
      BY <1>1, <1>2, <1>3, <3>1 DEF IInv, SoleInv
    <3>3. Beside(p) => d \subseteq StdinOf(p) \cup {"messages"}
      BY <1>1, <1>2, <1>3, <3>1 DEF IInv, BesideInv
    <3> QED BY <1>2, <1>9, <1>13, <2>1, <3>1, <3>2, <3>3
  <2>2. CASE q # p
    <3>1. read'[q] = read[q] /\ pc[q] \notin {"args", "copy"}
      BY <1>11, <2>2 DEF IInv, StageInv, SameFor
    <3> QED BY <1>13, <3>1 DEF IInv, ReadInv, Fed
  <2> QED BY <2>1, <2>2
<1>23. StaleInv'
  <2>1. CASE StdoutTmp \in DOMAIN dir /\ dir[StdoutTmp] = i
    <3>1. Made(p)
      BY <1>2, <1>3, <1>4, <2>1 DEF IInv, ResultInv, Made
    <3> QED BY <1>2, <1>10, <3>1 DEF StaleInv
  <2>2. CASE ~(StdoutTmp \in DOMAIN dir /\ dir[StdoutTmp] = i)
    <3>1. StdoutTmp \in DOMAIN dir => data'[dir[StdoutTmp]] = data[dir[StdoutTmp]]
      BY <1>6, <2>2 DEF IInv, FileType
    <3> QED BY <1>1, <1>10, <3>1 DEF IInv, StaleInv
  <2> QED BY <2>1, <2>2
<1>24. CoutInv' /\ ShownInv'
  BY <1>1, <1>2, <1>9, <1>10, OthersShow DEF CoutInv, ShownInv, IInv
<1>25. OutputInv'
  <2> SUFFICES ASSUME NEW q \in Running, Gives(q), Alone(q), Made(q),
                      pc'[q] \in {"write", "close"}
               PROVE  /\ StdoutTmp \in DOMAIN dir /\ dir[StdoutTmp] = result[q]
                      /\ data'[result[q]] =
                           IF read'[q] = <<>> THEN {} ELSE read'[q][1]
    BY <1>1, <1>10 DEF OutputInv
  <2>1. pc[q] \in {"write", "close"}
    BY <1>1, <1>11 DEF SameFor
  <2>2. /\ StdoutTmp \in DOMAIN dir /\ dir[StdoutTmp] = result[q]
        /\ data[result[q]] = IF read[q] = <<>> THEN {} ELSE read[q][1]
    BY <2>1 DEF IInv, OutputInv
  <2>3. CASE q = p
    <3>1. data[i] = {}
      BY <1>3, <1>4, <2>2, <2>3
    <3>2. data'[i] = d
      BY <1>6, <3>1
    <3>3. read'[q] # <<>> /\ read'[q][1] = d
      BY <1>9, <2>3, SMTT(30)
    <3>4. result[q] = i
      BY <1>3, <2>3
    <3> QED BY <2>2, <3>2, <3>3, <3>4
  <2>4. CASE q # p
    <3>1. result[q] # i
      <4> SUFFICES ASSUME result[q] = i PROVE FALSE
        OBVIOUS
      <4>1. OutFile(p) = StdoutTmp
        BY <1>2, <1>3, <2>2 DEF IInv, ResultInv
      <4>2. Gives(p)
        BY <1>4, <4>1, FileNames DEF IInv, Gives
      <4> QED BY <1>2, <2>4, <4>2 DEF Alone
    <3>2. result[q] \in 1 .. Len(data) /\ read'[q] = read[q]
      BY <1>11, <2>2, <2>4 DEF IInv, FileType, SameFor
    <3> QED BY <1>6, <2>2, <3>1, <3>2
  <2> QED BY <2>3, <2>4
<1> QED BY <1>2, <1>7, <1>8, <1>15, <1>16, <1>17, <1>18, <1>19, <1>20, <1>21,
           <1>22, <1>23, <1>24, <1>25 DEF IInv

(* The handler goes: the output file is shown and removed, and so is the   *)
(* copy of the standard input.                                             *)
LEMMA CloseHandlerStep ==
  ASSUME IInv, NEW p \in Programs, CloseHandler(p)
  PROVE  IInv'
<1>1. PICK gone, buffer :
        /\ gone = Shown(p) \cup Copied(p)
        /\ buffer = IF cout[p] = "buffer" /\ ~ShowsResult(p)
                    THEN "dead" ELSE "stdout"
  OBVIOUS
<1>2. /\ pc[p] = "close" /\ pc' = [pc EXCEPT ![p] = "exit"]
      /\ error' = IF ToStdout(p) /\ StdoutTmp \notin DOMAIN dir
                  THEN [error EXCEPT ![p] = 2] ELSE error
      /\ printed' = IF ShowsResult(p)
                    THEN [printed EXCEPT ![p] = @ \cup data[dir[StdoutTmp]]]
                    ELSE printed
      /\ cout' = [cout EXCEPT ![p] = buffer]
      /\ dir' = [f \in DOMAIN dir \ gone |-> dir[f]]
      /\ UNCHANGED <<parserVars, data, tmpIn, source, result, read>>
  BY <1>1 DEF CloseHandler, CloseHandlerBy, Goto, Unlink
<1>3. ParserType' /\ SameLines /\ p \in Running /\ Running \subseteq Programs
  BY <1>2, LinesKept, ParserKept, PlaceRunning, RunningPrograms DEF IInv
<1>4. Operates(p) /\ Takes(p) = FromStdin(p) /\ (Gives(p) <=> ToStdout(p))
  <2>1. Operates(p)
    BY <1>2, <1>3 DEF IInv, StageInv, Active
  <2>2. FromStdin(p) \in BOOLEAN
    BY DEF FromStdin, SaysStdin
  <2> QED BY <2>1, <2>2 DEF Takes, Gives
<1>5. /\ DOMAIN dir' = DOMAIN dir \ gone
      /\ \A f \in DOMAIN dir' : dir'[f] = dir[f]
      /\ gone \subseteq {StdinTmp, StdoutTmp}
      /\ StdinTmp \in gone <=> FromStdin(p)
      /\ StdoutTmp \in gone <=> ShowsResult(p)
  BY <1>1, <1>2, TwoNames DEF Shown, Copied
<1>6. ShowsResult(p) => data[dir[StdoutTmp]] \in SUBSET Sources
  BY DEF ShowsResult, IInv, FileType
<1>7. FileType'
  BY <1>2, <1>5 DEF IInv, FileType
<1>8. MainType'
  BY <1>1, <1>2, <1>6 DEF IInv, MainType, Places
<1>9. /\ StepOf(p) /\ pc'[p] = "exit" /\ cout'[p] = buffer
      /\ error'[p] = IF ToStdout(p) /\ StdoutTmp \notin DOMAIN dir
                     THEN 2 ELSE error[p]
      /\ printed'[p] = IF ShowsResult(p) THEN printed[p] \cup data[dir[StdoutTmp]]
                       ELSE printed[p]
  BY <1>2, <1>3 DEF StepOf, SameFor, Finished, IInv, MainType
<1>10. /\ Running' = Running /\ setup' = setup
       /\ \A q \in Running :
            /\ Takes(q)' = Takes(q) /\ Gives(q)' = Gives(q)
            /\ Operates(q)' = Operates(q)
            /\ OutFile(q)' = OutFile(q) /\ Upstream(q)' = Upstream(q)
            /\ Sole(q)' = Sole(q) /\ (Beside(q)' => Beside(q))
            /\ Alone(q)' = Alone(q) /\ Made(q)' = Made(q)
  BY <1>2, <1>3, <1>9, SharingKept DEF SameLines, LineKept, Made
<1>11. \A q \in Running : q # p => SameFor(q)
  BY <1>9 DEF StepOf
<1>12. \A q \in Running :
         /\ Fed(q) => StdinOf(q)' = StdinOf(q)
         /\ StdinOf(q) \subseteq StdinOf(q)'
  BY <1>3, <1>9, StdinKept, StdinGrows DEF IInv, FedInv
<1>13. \A q \in Running :
         /\ Fed(q)' => Fed(q)
         /\ Feeding(q)' => q # p /\ Feeding(q)
         /\ Giver(q) /\ q # p => Giver(q)'
  BY <1>2, <1>9, <1>10, <1>11 DEF Fed, Feeding, Giver, SameFor, Holding, Active
<1>14. StageInv'
  BY <1>2, <1>3, <1>4, <1>9, <1>10, <1>11
     DEF IInv, StageInv, StepOf, SameFor, Active
<1>15. InodeInv' /\ ResultInv'
  <2>1. \A j : (InIn(j)' => InIn(j)) /\ (InOut(j)' => InOut(j))
    BY <1>2, <1>5, <1>10 DEF InIn, InOut
  <2>2. InodeInv'
    BY <1>2, <2>1 DEF IInv, InodeInv
  <2>3. ResultInv'
    BY <1>2, <1>5, <1>10 DEF IInv, ResultInv
  <2> QED BY <2>2, <2>3
<1>16. LeftInv'
  <2>1. (StdinTmp \in DOMAIN dir =>
          \/ \E q \in Running : Takes(q) /\ pc[q] \in Holding
          \/ \A q \in Running : Takes(q) => pc[q] = "args")'
    <3> SUFFICES ASSUME StdinTmp \in DOMAIN dir'
                 PROVE  \/ \E q \in Running : Takes(q) /\ pc'[q] \in Holding
                        \/ \A q \in Running : Takes(q) => pc'[q] = "args"
      BY <1>10
    <3>1. StdinTmp \in DOMAIN dir /\ ~Takes(p)
      BY <1>4, <1>5
    <3>2. \A q \in Running : Takes(q) => pc'[q] = pc[q]
      BY <1>11, <3>1 DEF SameFor
    <3> QED BY <3>1, <3>2 DEF IInv, LeftInv
  <2>2. (StdoutTmp \in DOMAIN dir =>
          \/ setup.stale
          \/ \E q \in Running : error[q] # 0
          \/ \E q \in Running : Gives(q) /\ pc[q] \in Showing)'
    <3> SUFFICES ASSUME StdoutTmp \in DOMAIN dir', ~setup.stale,
                        \A q \in Running : error'[q] = 0
                 PROVE  \E q \in Running : Gives(q) /\ pc'[q] \in Showing
      BY <1>10
    <3>1. StdoutTmp \in DOMAIN dir /\ ~ShowsResult(p)
      BY <1>5
    <3>2. error[p] = 0 /\ \A q \in Running : error[q] = 0
      BY <1>3, <1>9, <1>11, <3>1 DEF SameFor
    <3>3. ~Gives(p)
      BY <1>4, <3>1, <3>2 DEF ShowsResult
    <3>4. PICK q \in Running : Gives(q) /\ pc[q] \in Showing
      BY <3>1, <3>2 DEF IInv, LeftInv
    <3> QED BY <1>11, <3>3, <3>4 DEF SameFor
  <2> QED BY <2>1, <2>2 DEF LeftInv
<1>17. FedInv'
  <2> SUFFICES ASSUME NEW q \in Running, Fed(q), NEW r \in Upstream(q)
               PROVE  Finished(r)'
    BY <1>10, <1>13 DEF FedInv
  <2>1. Finished(r) /\ r \in Running
    BY DEF IInv, FedInv, Upstream
  <2> QED BY <1>2, <1>11, <2>1 DEF Finished, SameFor
<1>18. MixInv'
  <2> SUFFICES ASSUME NEW q \in Running, Feeding(q), StdinTmp \in DOMAIN dir',
                      NEW x \in data[dir'[StdinTmp]]
               PROVE  \E r \in Running : Giver(r)' /\ x \in StdinOf(r)'
    BY <1>2, <1>10, <1>13 DEF MixInv
  <2>1. /\ StdinTmp \in DOMAIN dir /\ dir'[StdinTmp] = dir[StdinTmp]
        /\ ~Takes(p)
    BY <1>4, <1>5
  <2>2. PICK r \in Running : Giver(r) /\ x \in StdinOf(r)
    BY <2>1 DEF IInv, MixInv
  <2>3. r # p
    BY <2>1, <2>2 DEF Giver
  <2> QED BY <1>12, <1>13, <2>2, <2>3
<1>19. SoleInv'
  <2> SUFFICES ASSUME NEW q \in Running, Feeding(q)', Sole(q)
               PROVE  (/\ StdinTmp \in DOMAIN dir /\ dir[StdinTmp] = tmpIn[q]
                       /\ data[tmpIn[q]] \subseteq StdinOf(q)
                       /\ pc[q] # "copy" => data[tmpIn[q]] = StdinOf(q)
                       /\ pc[q] = "write" => source[q] = tmpIn[q])'
    BY <1>10 DEF SoleInv
  <2>1. q # p /\ Feeding(q) /\ pc'[q] = pc[q]
    BY <1>11, <1>13 DEF SameFor
  <2>2. /\ StdinTmp \in DOMAIN dir /\ dir[StdinTmp] = tmpIn[q]
        /\ data[tmpIn[q]] \subseteq StdinOf(q)
        /\ pc[q] # "copy" => data[tmpIn[q]] = StdinOf(q)
        /\ pc[q] = "write" => source[q] = tmpIn[q]
    BY <2>1 DEF IInv, SoleInv
  <2>3. StdinTmp \in DOMAIN dir'
    BY <1>3, <1>4, <1>5, <2>1, <2>2 DEF Sole
  <2>4. pc[q] # "copy" => StdinOf(q)' = StdinOf(q)
    BY <1>12, <2>1 DEF Fed, Feeding, Active
  <2> QED BY <1>2, <1>5, <1>12, <2>1, <2>2, <2>3, <2>4
<1>20. BesideInv'
  <2> SUFFICES ASSUME NEW q \in Running, Feeding(q)', pc'[q] = "write", Beside(q)
               PROVE  data[source[q]] \subseteq StdinOf(q)' \cup {"messages"}
    BY <1>2, <1>10 DEF BesideInv
  <2>1. pc[q] = "write" /\ Feeding(q) /\ Fed(q)
    BY <1>11, <1>13 DEF SameFor, Feeding, Fed
  <2> QED BY <1>12, <2>1 DEF IInv, BesideInv
<1>21. ReadInv'
  <2> SUFFICES ASSUME NEW q \in Running, Takes(q), read[q] # <<>>, error'[q] = 0
               PROVE  /\ Sole(q) => read[q][1] = StdinOf(q)'
                      /\ Beside(q) => read[q][1] \subseteq StdinOf(q)' \cup {"messages"}
    BY <1>2, <1>10 DEF ReadInv
  <2>1. error[q] = 0 /\ pc[q] \notin {"args", "copy"}
    BY <1>9, <1>11 DEF IInv, StageInv, SameFor
  <2> QED BY <1>12, <2>1 DEF IInv, ReadInv, Fed
<1>22. StaleInv'
  BY <1>2, <1>5, <1>10 DEF IInv, StaleInv
<1>23. CoutInv'
  BY <1>3, <1>9, <1>10, OthersShow DEF CoutInv
<1>24. OutputInv'
  <2> SUFFICES ASSUME NEW q \in Running, Gives(q), Alone(q), Made(q),
                      pc'[q] \in {"write", "close"}
               PROVE  /\ StdoutTmp \in DOMAIN dir' /\ dir'[StdoutTmp] = result[q]
                      /\ data[result[q]] =
                           IF read[q] = <<>> THEN {} ELSE read[q][1]
    BY <1>2, <1>10 DEF OutputInv
  <2>1. q # p /\ pc[q] \in {"write", "close"}
    BY <1>9, <1>11 DEF SameFor
  <2>2. /\ StdoutTmp \in DOMAIN dir /\ dir[StdoutTmp] = result[q]
        /\ data[result[q]] = IF read[q] = <<>> THEN {} ELSE read[q][1]
    BY <2>1 DEF IInv, OutputInv
  <2>3. ~ShowsResult(p)
    BY <1>3, <1>4, <2>1 DEF Alone, ShowsResult
  <2> QED BY <1>5, <2>2, <2>3
<1>25. ShownInv'
  <2>1. ASSUME Gives(p), Alone(p)
        PROVE  /\ cout'[p] = "dead" => ~Made(p)
               /\ error'[p] # 0 => printed'[p] \subseteq {"messages"}
               /\ error'[p] = 0 /\ Made(p) =>
                    printed'[p] = IF read[p] = <<>> THEN {} ELSE read[p][1]
               /\ error'[p] = 0 /\ ~Made(p) => printed'[p] = {"stale"}
    <3>1. /\ error[p] = 0 => cout[p] = "buffer" /\ printed[p] = {}
          /\ error[p] # 0 => cout[p] = "stdout" /\ printed[p] \subseteq {"messages"}
      BY <1>2, <1>3, <2>1 DEF IInv, CoutInv
    <3>2. Made(p) =>
            /\ StdoutTmp \in DOMAIN dir
            /\ data[dir[StdoutTmp]] = IF read[p] = <<>> THEN {} ELSE read[p][1]
      BY <1>2, <1>3, <2>1 DEF IInv, OutputInv
    <3>3. StdoutTmp \in DOMAIN dir /\ ~Made(p) => data[dir[StdoutTmp]] = {"stale"}
      <4> SUFFICES ASSUME StdoutTmp \in DOMAIN dir, NEW q \in Running, Made(q)
                   PROVE  q = p
        BY DEF IInv, StaleInv
      <4>1. Operates(q) /\ ToStdout(q)
        BY <1>3, FileNames DEF Made, IInv, StageInv
      <4> QED BY <2>1, <4>1 DEF Alone, Gives
    <3>4. CASE error[p] # 0
      <4>1. ~ShowsResult(p) /\ cout'[p] = "stdout" /\ error'[p] # 0
        BY <1>1, <1>9, <3>1, <3>4 DEF ShowsResult
      <4> QED BY <1>9, <3>1, <3>4, <4>1
    <3>5. CASE error[p] = 0 /\ StdoutTmp \in DOMAIN dir
      <4>1. ShowsResult(p) /\ cout'[p] = "stdout" /\ error'[p] = 0
        BY <1>1, <1>4, <1>9, <2>1, <3>5 DEF ShowsResult
      <4>2. printed'[p] = data[dir[StdoutTmp]]
        BY <1>9, <3>1, <3>5, <4>1
      <4> QED BY <3>2, <3>3, <3>5, <4>1, <4>2
    <3>6. CASE error[p] = 0 /\ StdoutTmp \notin DOMAIN dir
      <4>1. ~ShowsResult(p) /\ error'[p] = 2 /\ printed'[p] = {}
        BY <1>4, <1>9, <2>1, <3>1, <3>6 DEF ShowsResult
      <4> QED BY <3>2, <3>6, <4>1
    <3> QED BY <3>4, <3>5, <3>6
  <2> QED BY <1>2, <1>3, <1>9, <1>10, <2>1, OthersShow DEF ShownInv
<1> QED BY <1>3, <1>7, <1>8, <1>14, <1>15, <1>16, <1>17, <1>18, <1>19, <1>20,
           <1>21, <1>22, <1>23, <1>24, <1>25 DEF IInv

-----------------------------------------------------------------------------
LEMMA InitInv ==
  ASSUME Init
  PROVE  IInv
<1>1. /\ setup \in Scenarios /\ at = [p \in Programs |-> 1]
      /\ letter = [p \in Programs |-> 1]
      /\ matched = [p \in Programs |-> {}] /\ value = [p \in Programs |-> <<>>]
      /\ verdict = [p \in Programs |-> "parsing"]
  BY DEF Init, ParserInit, NothingMatched, DefaultValues
<1>2. ParserType
  BY <1>1 DEF ParserType
<1>3. Running \subseteq Programs
  BY <1>2, RunningPrograms
<1>4. Named # StdinTmp /\ Named # StdoutTmp /\ StdinTmp # StdoutTmp
  BY DEF Named, StdinTmp, StdoutTmp, File, Text
<1>5. /\ DOMAIN dir = {Named} \cup (IF setup.stale THEN {StdinTmp, StdoutTmp} ELSE {})
      /\ \A f \in DOMAIN dir : dir[f] = CASE f = Named -> 1 [] f = StdinTmp -> 2
                                          [] OTHER -> 3
      /\ data = <<{"file"}, {"stale"}, {"stale"}>>
  BY DEF Init
<1>6. /\ tmpIn = [p \in Programs |-> 0] /\ source = [p \in Programs |-> 0]
      /\ result = [p \in Programs |-> 0] /\ error = [p \in Programs |-> 0]
      /\ cout = [p \in Programs |-> "stdout"] /\ printed = [p \in Programs |-> {}]
      /\ read = [p \in Programs |-> <<>>]
      /\ pc = [p \in Programs |-> IF p \in Running THEN "args" ELSE "done"]
  BY DEF Init, None
<1>7. FileType
  <2>1. {"file"} \in SUBSET Sources /\ {"stale"} \in SUBSET Sources
    BY DEF Sources
  <2>2. data \in Seq(SUBSET Sources) /\ Len(data) = 3
    BY <1>5, <2>1
  <2>3. \A f \in DOMAIN dir : dir[f] \in 1 .. 3
    BY <1>5
  <2>4. \A f, g \in DOMAIN dir : dir[f] = dir[g] => f = g
    BY <1>4, <1>5
  <2> QED BY <1>6, <2>2, <2>3, <2>4 DEF FileType
<1>8. MainType
  BY <1>6 DEF MainType, Places
<1>9. \A p \in Running :
        /\ tmpIn[p] = None /\ source[p] = None /\ result[p] = None
        /\ error[p] = 0 /\ cout[p] = "stdout" /\ printed[p] = {}
        /\ read[p] = <<>> /\ pc[p] = "args"
  BY <1>3, <1>6 DEF None
<1>10. StageInv
  BY <1>3, <1>6, <1>9 DEF StageInv, Active
<1>11. InodeInv
  <2>1. \A i : InIn(i) => i = 2
    BY <1>4, <1>5, <1>9 DEF InIn
  <2>2. \A i : InOut(i) => i # 2
    BY <1>4, <1>5, <1>9 DEF InOut
  <2> QED BY <2>1, <2>2 DEF InodeInv
<1>12. ResultInv
  BY <1>5, <1>9 DEF ResultInv, None
<1>13. LeftInv
  BY <1>4, <1>5, <1>9 DEF LeftInv
<1>14. FedInv /\ MixInv /\ SoleInv /\ BesideInv /\ ReadInv
  BY <1>9 DEF FedInv, Fed, MixInv, SoleInv, BesideInv, ReadInv, Feeding, Active
<1>15. StaleInv
  BY <1>4, <1>5 DEF StaleInv
<1>16. CoutInv /\ OutputInv /\ ShownInv
  BY <1>9 DEF CoutInv, OutputInv, ShownInv
<1> QED BY <1>2, <1>7, <1>8, <1>10, <1>11, <1>12, <1>13, <1>14, <1>15, <1>16 DEF IInv

LEMMA StutterStep ==
  ASSUME IInv, UNCHANGED vars
  PROVE  IInv'
<1>1. /\ UNCHANGED parserVars
      /\ UNCHANGED <<pc, dir, data, tmpIn, source, result, error, cout, printed,
                     read>>
  BY DEF vars, parserVars
<1>2. ParserType' /\ SameLines
  BY <1>1, ParserKept, LinesKept DEF IInv
<1>3. /\ Running' = Running /\ setup' = setup
      /\ \A q \in Running :
           /\ Takes(q)' = Takes(q) /\ Gives(q)' = Gives(q)
           /\ Operates(q)' = Operates(q)
           /\ OutFile(q)' = OutFile(q) /\ Upstream(q)' = Upstream(q)
           /\ Sole(q)' = Sole(q) /\ (Beside(q)' => Beside(q))
           /\ Alone(q)' = Alone(q) /\ Made(q)' = Made(q)
  BY <1>1, <1>2 DEF SameLines, LineKept, Made, Sole, Beside, Alone
<1>4. \A q \in Running :
        /\ StdinOf(q)' = StdinOf(q) /\ Fed(q)' = Fed(q)
        /\ Feeding(q)' = Feeding(q) /\ Giver(q)' = Giver(q)
  BY <1>1, <1>3 DEF StdinOf, Fed, Feeding, Giver
<1>5. FileType' /\ MainType' /\ StageInv'
  BY <1>1, <1>3 DEF IInv, FileType, MainType, StageInv
<1>6. InodeInv' /\ ResultInv'
  BY <1>1, <1>3 DEF IInv, InodeInv, InIn, InOut, ResultInv
<1>7. LeftInv'
  BY <1>1, <1>3 DEF IInv, LeftInv
<1>8. FedInv' /\ MixInv'
  BY <1>1, <1>3, <1>4 DEF IInv, FedInv, MixInv, Finished
<1>9. SoleInv' /\ BesideInv' /\ ReadInv'
  BY <1>1, <1>3, <1>4 DEF IInv, SoleInv, BesideInv, ReadInv
<1>10. StaleInv' /\ CoutInv' /\ OutputInv' /\ ShownInv'
  BY <1>1, <1>3 DEF IInv, StaleInv, CoutInv, OutputInv, ShownInv
<1> QED BY <1>2, <1>5, <1>6, <1>7, <1>8, <1>9, <1>10 DEF IInv

LEMMA StartHandlerStep ==
  ASSUME IInv, NEW p \in Programs, StartHandler(p)
  PROVE  IInv'
<1>1. /\ pc[p] = "args" /\ Operates(p)
      /\ UNCHANGED <<parserVars, source, result, cout, printed, read, status>>
  BY DEF StartHandler
<1>2. CASE /\ ~FromStdin(p) /\ Goto(p, "redirect")
           /\ UNCHANGED <<dir, data, tmpIn, error>>
  BY <1>1, <1>2, StartWithoutFile
<1>3. CASE /\ FromStdin(p) /\ Goto(p, "copy") /\ OpenToWrite(StdinTmp)
           /\ tmpIn' = [tmpIn EXCEPT ![p] = dir'[StdinTmp]] /\ UNCHANGED error
  BY <1>1, <1>3, StartWithFile
<1>4. CASE /\ FromStdin(p) /\ Goto(p, "redirect")
           /\ error' = [error EXCEPT ![p] = 2] /\ UNCHANGED <<dir, data, tmpIn>>
  BY <1>1, <1>4, StartWithoutFile
<1> QED BY <1>2, <1>3, <1>4 DEF StartHandler

LEMMA NextInv ==
  ASSUME IInv, [Next]_vars
  PROVE  IInv'
<1>1. ASSUME NEW p \in Programs, Run(p) \/ CopySome(p)
      PROVE  IInv'
  <2>1. CASE ParseStep(p)
    BY <2>1, ParseStepKeeps
  <2>2. CASE NotRun(p)
    BY <2>2, NotRunStep
  <2>3. CASE StartHandler(p)
    BY <2>3, StartHandlerStep
  <2>4. CASE CopyStdin(p)
    BY <2>4, CopyStdinStep
  <2>5. CASE Redirect(p)
    BY <2>5, RedirectStep
  <2>6. CASE OpenFiles(p)
    BY <2>6, OpenFilesStep
  <2>7. CASE OperationFails(p)
    BY <2>7, OperationFailsStep
  <2>8. CASE WriteResult(p)
    BY <2>8, WriteResultStep
  <2>9. CASE CloseHandler(p)
    BY <2>9, CloseHandlerStep
  <2>10. CASE Return(p)
    BY <2>10, ReturnStep
  <2>11. CASE NeverReturns(p)
    BY <2>11, NeverReturnsStep
  <2>12. CASE BrokenPipe(p)
    BY <2>12, BrokenPipeStep
  <2>13. CASE CopySome(p)
    BY <2>13, CopySomeStep
  <2> QED BY <1>1, <2>1, <2>2, <2>3, <2>4, <2>5, <2>6, <2>7, <2>8, <2>9, <2>10,
             <2>11, <2>12, <2>13 DEF Run
<1>2. CASE UNCHANGED vars
  BY <1>2, StutterStep
<1> QED BY <1>1, <1>2 DEF Next

LEMMA Invariance == Spec => []IInv
BY InitInv, NextInv, PTL DEF Spec

-----------------------------------------------------------------------------
(* When every program has ended, a stdin.tmp is left only where one of     *)
(* those that use it was killed: ~StdInOutHandler removes it whatever      *)
(* happened, and a program that still runs will do it when the one that    *)
(* created it has gone already.  stdout.tmp is left only by a program that *)
(* was killed or had an error, for the destructor removes it after it has  *)
(* shown it, or not at all.                                                *)
THEOREM LeavesNothing == Spec => []NothingLeft
<1>1. ASSUME IInv PROVE NothingLeft
  <2> SUFFICES ASSUME \A p \in Running : Finished(p)
               PROVE  /\ StdinTmp \in DOMAIN dir =>
                           \/ \A p \in Running : ~Takes(p)
                           \/ \E p \in Running : Takes(p) /\ pc[p] = "killed"
                      /\ StdoutTmp \in DOMAIN dir =>
                           \/ setup.stale
                           \/ \E p \in Running : error[p] # 0
                           \/ \E p \in Running : Gives(p) /\ pc[p] = "killed"
    BY DEF NothingLeft, Takes, Gives
  <2>1. \A p \in Running :
          /\ pc[p] # "args"
          /\ pc[p] \in Holding \/ pc[p] \in Showing => pc[p] = "killed"
    BY DEF Finished, Holding, Active, Showing
  <2> QED BY <1>1, <2>1 DEF IInv, LeftInv
<1> QED BY <1>1, Invariance, PTL

(* The operation works on what came in through the standard input: all of  *)
(* it if no other program of the directory uses stdin.tmp; and if others   *)
(* do, but each of them is next to it in a pipeline and none was killed,   *)
(* nothing that came in to them, but for what this one has printed.  The   *)
(* constructor copies the standard input to its end, so that either one    *)
(* has ended before the other reads the file, or the other has copied no   *)
(* more to it than there was: the texts of a program that is still at work.*)
THEOREM ReadsItsInput == Spec => []OwnInput
<1>1. ASSUME IInv PROVE OwnInput
  <2> SUFFICES ASSUME NEW p \in Running, read[p] # <<>>, FromStdin(p), error[p] = 0
               PROVE  /\ Others(p, FromStdin) = {} => read[p][1] = StdinOf(p)
                      /\ (\A q \in Others(p, FromStdin) :
                            Adjacent(p, q) /\ pc[q] # "killed") =>
                           read[p][1] \subseteq StdinOf(p) \cup {"messages"}
    BY DEF OwnInput
  <2>1. Takes(p)
    BY <1>1 DEF IInv, StageInv, Takes
  <2>2. Others(p, FromStdin) = {q \in Running : q # p /\ Takes(q)}
    BY DEF Others, Takes
  <2>3. /\ Others(p, FromStdin) = {} => Sole(p)
        /\ (\A q \in Others(p, FromStdin) : Adjacent(p, q) /\ pc[q] # "killed")
             => Beside(p)
    BY <2>2 DEF Sole, Beside
  <2> QED BY <1>1, <2>1, <2>3 DEF IInv, ReadInv
<1> QED BY <1>1, Invariance, PTL

(* What a program that alone prints to stdout.tmp has printed when its     *)
(* handler has gone is what its operation read and nothing else, or        *)
(* nothing if it did not get there; the texts of the operation             *)
(* only if the handler had failed before it took std::cout over, and an    *)
(* old stdout.tmp only if the operation created none.                      *)
THEOREM ShowsItsResult == Spec => []PrintsResult
<1>1. ASSUME IInv PROVE PrintsResult
  <2> SUFFICES ASSUME NEW p \in Running, pc[p] \in {"exit", "done"}, Operates(p),
                      ToStdout(p), Others(p, ToStdout) = {}
               PROVE  /\ cout[p] = "dead" => ~Made(p)
                      /\ error[p] # 0 => printed[p] \subseteq {"messages"}
                      /\ error[p] = 0 /\ Made(p) =>
                           printed[p] = IF read[p] = <<>> THEN {} ELSE read[p][1]
                      /\ error[p] = 0 /\ ~Made(p) => printed[p] = {"stale"}
    BY DEF PrintsResult, Made
  <2>1. Gives(p) /\ Alone(p)
    BY DEF Gives, Alone, Others
  <2> QED BY <1>1, <2>1 DEF IInv, ShownInv
<1> QED BY <1>1, Invariance, PTL

-----------------------------------------------------------------------------
(* What the validators of the nested groups let through.                   *)
Names == {"g_cmds", "g_data", "g_send_required", "g_send",
          "g_convert_required", "g_convert"}
(* The children of a group that accept the flags in m, when the groups     *)
(* among them are looked up in f.                                          *)
Hits(g, m, f) ==
  {c \in Groups[g].children : IF c \in DOMAIN Groups THEN f[c] ELSE c \in m}
Accepts(g, m, f) ==
  Satisfied(Groups[g].validator, Cardinality(Hits(g, m, f)),
            Cardinality(Groups[g].children))
Solution(m, f) == f = [g \in DOMAIN Groups |-> Accepts(g, m, f)]

(* Which groups there are; only g_send_required has a group in it.         *)
LEMMA GroupNames ==
  /\ DOMAIN Groups = Names
  /\ \A g \in Names : \A c \in Groups[g].children : c \in Names => c = "g_data"
  /\ \A c \in Groups["g_data"].children : c \notin Names
<1>1. DOMAIN Groups = Names
  BY DEF Groups, Names
<1>2. \A g \in Names : \A c \in Groups[g].children : c \in Names => c = "g_data"
  BY DEF Groups, Names, Group
<1>3. \A c \in Groups["g_data"].children : c \notin Names
  BY DEF Groups, Names, Group
<1> QED BY <1>1, <1>2, <1>3

(* So the groups can be asked one after the other, g_data first.           *)
LEMMA MatchedIs ==
  ASSUME NEW m
  PROVE  \E f : Solution(m, f) /\ Matched(m) = {g \in DOMAIN Groups : f[g]}
<1> DEFINE first == [g \in DOMAIN Groups |-> Accepts("g_data", m, <<>>)]
    all   == [g \in DOMAIN Groups |-> Accepts(g, m, first)]
<1>1. \A f, h : Hits("g_data", m, f) = Hits("g_data", m, h)
  BY GroupNames, Zenon DEF Hits
<1>2. \A f, h : Accepts("g_data", m, f) = Accepts("g_data", m, h)
  BY <1>1, Zenon DEF Accepts
<1>3. "g_data" \in DOMAIN Groups
  BY GroupNames DEF Names
<1>4. all["g_data"] = first["g_data"]
  BY <1>2, <1>3, Zenon
<1>5. ASSUME NEW g \in DOMAIN Groups PROVE Hits(g, m, first) = Hits(g, m, all)
  <2>1. \A c \in Groups[g].children : c \in DOMAIN Groups => first[c] = all[c]
    BY <1>4, GroupNames, Zenon
  <2> HIDE DEF first, all
  <2> QED BY <2>1, Zenon DEF Hits
<1>6. ASSUME NEW g \in DOMAIN Groups PROVE Accepts(g, m, first) = Accepts(g, m, all)
  <2> HIDE DEF first, all
  <2> QED BY <1>5, Zenon DEF Accepts
<1>7. Solution(m, all)
  <2>1. all = [g \in DOMAIN Groups |-> Accepts(g, m, first)]
    OBVIOUS
  <2> HIDE DEF first, all
  <2>2. [g \in DOMAIN Groups |-> Accepts(g, m, first)]
          = [g \in DOMAIN Groups |-> Accepts(g, m, all)]
    BY <1>6, Zenon
  <2> QED BY <2>1, <2>2, Zenon DEF Solution
<1>8. PICK f : f = CHOOSE h : Solution(m, h)
  OBVIOUS
<1>9. Solution(m, f)
  <2> HIDE DEF all
  <2> QED BY <1>7, <1>8, Zenon
<1>10. Matched(m) = {g \in DOMAIN Groups : f[g]}
  BY <1>8, Zenon DEF Matched, Solution, Accepts, Hits
<1> QED BY <1>9, <1>10

(* The groups that are asked about more than one flag have finitely many.  *)
LEMMA Counted ==
  /\ \A a, b : IsFiniteSet({a, b})
  /\ \A a, b, c, d, e : IsFiniteSet({a, b, c, d, e})
<1>1. ASSUME NEW a, NEW b PROVE IsFiniteSet({a, b})
  <2>1. {a, b} = {a} \cup {b}
    OBVIOUS
  <2>2. IsFiniteSet({a})
    BY FS_Singleton, Zenon
  <2>3. IsFiniteSet({a} \cup {b})
    BY <2>2, FS_AddElement
  <2> QED BY <2>1, <2>3
<1>2. ASSUME NEW a, NEW b, NEW c, NEW d, NEW e PROVE IsFiniteSet({a, b, c, d, e})
  <2>1. IsFiniteSet({a, b} \cup {c})
    BY <1>1, FS_AddElement
  <2>2. IsFiniteSet(({a, b} \cup {c}) \cup {d})
    BY <2>1, FS_AddElement
  <2>3. IsFiniteSet((({a, b} \cup {c}) \cup {d}) \cup {e})
    BY <2>2, FS_AddElement
  <2>4. {a, b, c, d, e} = (({a, b} \cup {c}) \cup {d}) \cup {e}
    OBVIOUS
  <2> QED BY <2>3, <2>4
<1> QED BY <1>1, <1>2

(* All of the children or none.                                            *)
LEMMA AllOrNone ==
  ASSUME NEW C, IsFiniteSet(C), NEW H \in SUBSET C,
         Cardinality(H) \in {0, Cardinality(C)}
  PROVE  H = {} \/ H = C
BY FS_Subset, FS_EmptySet

(* One of the two.                                                         *)
LEMMA OneOfTwo ==
  ASSUME NEW a, NEW b, NEW H \in SUBSET {a, b}, Cardinality(H) = 1
  PROVE  H = {a} \/ H = {b}
<1>1. IsFiniteSet(H)
  BY Counted, FS_Subset
<1>2. PICK x : H = {x}
  BY <1>1, FS_Singleton
<1> QED BY <1>2

(* What the parser accepts is one command: either of the two, never both,  *)
(* and of the options each requires all or none.                           *)
LEMMA ValidIs ==
  ASSUME NEW m, Valid(m)
  PROVE  LET what == m \cap {"data_file", "term"}
         IN  \/ SendNeeds \subseteq m /\ what # {} /\ m \cap ConvertNeeds = {}
             \/ ConvertNeeds \subseteq m /\ m \cap SendNeeds = {} /\ what = {}
<1>1. PICK f : Solution(m, f) /\ Matched(m) = {g \in DOMAIN Groups : f[g]}
  BY MatchedIs
<1>2. \A g \in Names : f[g] = Accepts(g, m, f)
  BY <1>1, GroupNames, Zenon DEF Solution
<1>3. f["g_cmds"] /\ f["g_send_required"] /\ f["g_convert_required"]
  BY <1>1, Zenon DEF Valid, TopGroups
<1>4. "cmd_send" \in m <=> "cmd_convert" \notin m
  <2> DEFINE H == {c \in {"cmd_send", "cmd_convert"} : c \in m}
  <2>1. Hits("g_cmds", m, f) = H
    BY GroupNames DEF Hits, Groups, Group, Names
  <2>2. Cardinality(H) = 1
    <3>1. Accepts("g_cmds", m, f)
      BY <1>2, <1>3, Zenon DEF Names
    <3>2. Groups["g_cmds"].validator = "Xor"
      BY DEF Groups, Group
    <3> QED BY <2>1, <3>1, <3>2 DEF Accepts, Satisfied
  <2>3. H = {"cmd_send"} \/ H = {"cmd_convert"}
    BY <2>2, OneOfTwo
  <2> QED BY <2>3
<1>5. ConvertNeeds \subseteq m \/ m \cap ConvertNeeds = {}
  <2> DEFINE H == {c \in ConvertNeeds : c \in m}
  <2>1. Hits("g_convert_required", m, f) = H
    BY GroupNames DEF Hits, Groups, Group, Names, ConvertNeeds
  <2>2. Cardinality(H) \in {0, Cardinality(ConvertNeeds)}
    <3>1. Accepts("g_convert_required", m, f)
      BY <1>2, <1>3, Zenon DEF Names
    <3>2. /\ Groups["g_convert_required"].validator = "AllOrNone"
          /\ Groups["g_convert_required"].children = ConvertNeeds
      BY DEF Groups, Group, ConvertNeeds
    <3> QED BY <2>1, <3>1, <3>2 DEF Accepts, Satisfied
  <2>3. IsFiniteSet(ConvertNeeds)
    BY Counted DEF ConvertNeeds
  <2>4. H = {} \/ H = ConvertNeeds
    BY <2>2, <2>3, AllOrNone
  <2> QED BY <2>4
<1>6. f["g_data"] <=> m \cap {"data_file", "term"} # {}
  <2> DEFINE H == {c \in {"data_file", "term"} : c \in m}
  <2>1. Hits("g_data", m, f) = H
    BY GroupNames DEF Hits, Groups, Group, Names
  <2>2. f["g_data"] <=> Cardinality(H) >= 1
    <3>1. f["g_data"] = Accepts("g_data", m, f)
      BY <1>2, Zenon DEF Names
    <3>2. Groups["g_data"].validator = "AtLeastOne"
      BY DEF Groups, Group
    <3>3. Accepts("g_data", m, f) <=> Cardinality(H) >= 1
      BY <2>1, <3>2 DEF Accepts, Satisfied
    <3> QED BY <3>1, <3>3, Zenon
  <2>3. IsFiniteSet(H)
    BY Counted, FS_Subset
  <2>4. Cardinality(H) \in Nat /\ (Cardinality(H) = 0 <=> H = {})
    BY <2>3, FS_CardinalityType, FS_EmptySet
  <2>5. Cardinality(H) >= 1 <=> H # {}
    BY <2>4
  <2> QED BY <2>2, <2>5, Zenon
<1>7. \/ SendNeeds \subseteq m /\ f["g_data"]
      \/ m \cap SendNeeds = {} /\ ~f["g_data"]
  <2> DEFINE C == {"cmd_send", "host", "port", "g_data", "nSockets"}
             H == {c \in C : IF c = "g_data" THEN f[c] ELSE c \in m}
  <2>1. Hits("g_send_required", m, f) = H
    BY GroupNames DEF Hits, Groups, Group, Names
  <2>2. Cardinality(H) \in {0, Cardinality(C)}
    <3>1. Accepts("g_send_required", m, f)
      BY <1>2, <1>3, Zenon DEF Names
    <3>2. /\ Groups["g_send_required"].validator = "AllOrNone"
          /\ Groups["g_send_required"].children = C
      BY DEF Groups, Group
    <3> QED BY <2>1, <3>1, <3>2 DEF Accepts, Satisfied
  <2>3. IsFiniteSet(C)
    BY Counted
  <2>4. H = {} \/ H = C
    BY <2>2, <2>3, AllOrNone
  <2> QED BY <2>4 DEF SendNeeds
<1> QED BY <1>4, <1>5, <1>6, <1>7 DEF SendNeeds, ConvertNeeds

-----------------------------------------------------------------------------
(* A program whose line was accepted has had it validated; no step changes *)
(* what it matched any more.                                               *)
Validated == \A p \in Running : verdict[p] = "parsed" => Valid(matched[p])
LineType ==
  /\ setup \in Scenarios
  /\ DOMAIN verdict = Programs /\ DOMAIN matched = Programs

(* One step of the parser of p, which says of no line that it is accepted  *)
(* but of one it has read to its end and validated.                        *)
LEMMA ParseValidates ==
  ASSUME LineType, Validated, NEW p \in Programs, Parse(p)
  PROVE  LineType' /\ Validated'
<1>1. p \in Running
  BY DEF Parse, TerminatorChunk, ParseLong, ParseShort, Positional, EndOfLine,
         NextChunk
<1>2. ASSUME NEW v, setup' = setup, verdict' = [verdict EXCEPT ![p] = v],
             DOMAIN matched' = DOMAIN matched,
             \A q \in Programs : q # p => matched'[q] = matched[q],
             v = "parsed" => Valid(matched'[p])
      PROVE  LineType' /\ Validated'
  <2>1. LineType'
    BY <1>2 DEF LineType
  <2>2. Running' = Running
    BY <1>2 DEF Running
  <2>3. ASSUME NEW q \in Running, verdict'[q] = "parsed" PROVE Valid(matched'[q])
    <3>1. q \in Programs
      BY ScenariosAssumption DEF LineType, Running
    <3>2. CASE q = p
      <4>1. verdict'[p] = v
        BY <1>2 DEF LineType
      <4> QED BY <1>2, <2>3, <3>2, <4>1
    <3>3. CASE q # p
      <4>1. verdict'[q] = verdict[q] /\ matched'[q] = matched[q]
        BY <1>2, <3>1, <3>3 DEF LineType
      <4>2. Valid(matched[q])
        BY <2>3, <4>1 DEF Validated
      <4> QED BY <4>1, <4>2
    <3> QED BY <3>2, <3>3
  <2> QED BY <2>1, <2>2, <2>3 DEF Validated
<1>3. ASSUME Refuse(p) PROVE LineType' /\ Validated'
  BY <1>2, <1>3 DEF Refuse
<1>4. ASSUME NEW flag, NEW joined, NEW canDiscard, NEW last,
             Take(p, flag, joined, canDiscard, last)
      PROVE  LineType' /\ Validated'
  <2>1. PICK v : v # "parsed" /\ verdict' = [verdict EXCEPT ![p] = v]
    <3>1. \E good \in BOOLEAN :
            verdict' = [verdict EXCEPT ![p] =
              IF ~good THEN "parse_error"
              ELSE IF IsHelp(flag) THEN "help" ELSE "parsing"]
      BY <1>4, Zenon DEF Take
    <3> QED BY <3>1
  <2>2. /\ setup' = setup /\ DOMAIN matched' = DOMAIN matched
        /\ \A q \in Programs : q # p => matched'[q] = matched[q]
    BY <1>4 DEF Take, LineType
  <2> QED BY <1>2, <2>1, <2>2
<1>5. CASE TerminatorChunk(p)
  <2>1. setup' = setup /\ verdict' = verdict /\ matched' = matched
    BY <1>5 DEF TerminatorChunk
  <2> QED BY <2>1 DEF LineType, Validated, Running
<1>6. CASE ParseLong(p)
  <2>1. \/ \E flag, joined : Take(p, flag, joined, FALSE, TRUE)
        \/ Refuse(p)
    BY <1>6 DEF ParseLong
  <2> QED BY <1>3, <1>4, <2>1
<1>7. CASE ParseShort(p)
  <2>1. \/ \E flag, joined, canDiscard, last : Take(p, flag, joined, canDiscard, last)
        \/ Refuse(p)
    BY <1>7 DEF ParseShort
  <2> QED BY <1>3, <1>4, <2>1
<1>8. CASE Positional(p)
  BY <1>3, <1>8 DEF Positional
<1>9. CASE EndOfLine(p)
  <2>1. PICK v : v = IF Valid(matched[p]) /\ ~OddSockets(p) THEN "parsed" ELSE "invalid"
    OBVIOUS
  <2>2. verdict' = [verdict EXCEPT ![p] = v] /\ setup' = setup /\ matched' = matched
    BY <1>9, <2>1, Zenon DEF EndOfLine
  <2>3. v = "parsed" => Valid(matched[p])
    BY <2>1
  <2> QED BY <1>2, <2>2, <2>3
<1> QED BY <1>5, <1>6, <1>7, <1>8, <1>9 DEF Parse

(* Whatever the command line, and whatever the other programs do, the      *)
(* parser accepts none but a whole command: the required options of either *)
(* of the two, a file or the terminate request for a send, and none that   *)
(* the other command requires (main 91-136, the validators of args.hxx).   *)
THEOREM AcceptsOneCommand == Spec => []OneCommand
<1>1. Init => LineType /\ Validated
  <2> SUFFICES ASSUME Init PROVE LineType /\ Validated
    OBVIOUS
  <2>1. /\ setup \in Scenarios /\ verdict = [p \in Programs |-> "parsing"]
        /\ matched = [p \in Programs |-> {}]
    BY DEF Init, ParserInit, NothingMatched
  <2>2. LineType
    BY <2>1 DEF LineType
  <2>3. Running \subseteq Programs
    BY <2>1, ScenariosAssumption DEF Running
  <2> QED BY <2>1, <2>2, <2>3 DEF Validated
<1>2. LineType /\ Validated /\ [Next]_vars => (LineType /\ Validated)'
  <2> SUFFICES ASSUME LineType, Validated, [Next]_vars
               PROVE  LineType' /\ Validated'
    OBVIOUS
  <2>1. ASSUME setup' = setup, verdict' = verdict, matched' = matched
        PROVE  LineType' /\ Validated'
    BY <2>1 DEF LineType, Validated, Running
  <2>2. ASSUME NEW p \in Programs, Run(p) \/ CopySome(p)
        PROVE  LineType' /\ Validated'
    <3>1. CASE ParseStep(p)
      BY <3>1, ParseValidates DEF ParseStep
    <3>2. CASE ~ParseStep(p)
      <4>1. UNCHANGED parserVars
        BY <2>2, <3>2 DEF Run, NotRun, StartHandler, CopySome, CopyStdin, Redirect,
             OpenFiles, OperationFails, WriteResult, NeverReturns, BrokenPipe,
             CloseHandler, CloseHandlerBy, Return
      <4> QED BY <2>1, <4>1 DEF parserVars
    <3> QED BY <3>1, <3>2
  <2>3. CASE UNCHANGED vars
    BY <2>1, <2>3 DEF vars
  <2> QED BY <2>2, <2>3 DEF Next
<1>3. LineType /\ Validated => OneCommand
  BY ValidIs DEF Validated, OneCommand
<1> QED BY <1>1, <1>2, <1>3, PTL DEF Spec
=============================================================================
