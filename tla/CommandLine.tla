---------------------------- MODULE CommandLine -----------------------------
(***************************************************************************)
(* How client_app reads its command line: args.hxx walks over the chunks   *)
(* of argv, one option at a time, and then validates the groups main()     *)
(* declared.  Several programs may be started side by side (a pipeline in  *)
(* one directory); each has a parser of its own.                           *)
(*                                                                         *)
(* A chunk is [dash, body]: the number of leading dashes and the rest as a *)
(* sequence of tokens (a letter of a cluster, an option name, a value).    *)
(***************************************************************************)
EXTENDS Integers, SequencesExt, FiniteSets

CONSTANTS
  Programs,     \* the programs of a pipeline
  Numerals,     \* token -> number: the tokens that read as numbers
  Scenarios     \* [lines, pipes, stale]; lines: program -> [argv, asked]

(* asked is what the user meant by argv: [flags, texts, sound], the flags, *)
(* the texts given to some of them, and whether every option is complete.  *)
(* A pipe is <<writer, reader>>; a program has one input and one output.   *)
(* Files of the directory and words of the command line are texts.         *)
Text(dash, body) == [dash |-> dash, body |-> body]
NoText == Text(0, <<>>)

ASSUME NumeralsAssumption == \A t \in DOMAIN Numerals : Numerals[t] \in Nat
ASSUME ScenariosAssumption ==
  \A s \in Scenarios :
    /\ DOMAIN s.lines \subseteq Programs
    /\ \A p \in DOMAIN s.lines :
         s.lines[p].argv \in Seq([dash : Nat, body : Seq(STRING)])
    /\ \A c, d \in s.pipes : c[1] = d[1] \/ c[2] = d[2] => c = d

VARIABLES
  setup,        \* the scenario
  at,           \* the chunk each parser has reached
  letter,       \* the letter of the cluster it has reached
  terminated,   \* "--" was seen
  matched,      \* the flags matched so far
  value,        \* flag -> text, for the flags that were given a value
  verdict       \* parsing, help, parse_error, invalid, parsed

parserVars == <<setup, at, letter, terminated, matched, value, verdict>>

-----------------------------------------------------------------------------
(* The flags main() declares.                                              *)
ShortFlags ==
  [h |-> "help", w |-> "delay_after_connect", b |-> "blockSize",
   s |-> "cmd_send", c |-> "cmd_convert", n |-> "host", p |-> "port",
   f |-> "data_file", P |-> "print", t |-> "term", i |-> "ifile",
   o |-> "ofile"]

LongFlags ==
  [help |-> "help", type |-> "type", tcp_io_block |-> "old_ignored_01",
   tcp_io_block_x2 |-> "old_ignored_02", duplex |-> "duplex",
   n_sockets |-> "nSockets", dS |-> "delaySend", dR |-> "delayReceive",
   time_out |-> "timeOut", wait_connect |-> "wait_connect",
   ifile |-> "ifile", itype |-> "itype", ofile |-> "ofile",
   otype |-> "otype", tag |-> "tag"]

Numbers == {"delay_after_connect", "blockSize", "port", "nSockets",
            "delaySend", "delayReceive", "timeOut", "wait_connect"}
Texts == {"host", "data_file", "ifile", "ofile"}
Types == {"type", "itype", "otype"}
typesOfFile == {"bin", "hex", "ds8", "mem"}

(* The groups main() declares: a validator and children, flags or groups.  *)
Group(validator, children) == [validator |-> validator, children |-> children]

Groups ==
  [g_cmds |-> Group("Xor", {"cmd_send", "cmd_convert"}),
   g_data |-> Group("AtLeastOne", {"data_file", "term"}),
   g_send_required |-> Group("AllOrNone",
      {"cmd_send", "host", "port", "g_data", "nSockets"}),
   g_send |-> Group("DontCare",
      {"type", "old_ignored_01", "old_ignored_02", "duplex", "delaySend",
       "delayReceive", "timeOut", "wait_connect", "print", "term"}),
   g_convert_required |-> Group("AllOrNone",
      {"cmd_convert", "ifile", "itype", "ofile", "otype"}),
   g_convert |-> Group("DontCare", {"tag"})]

(* The children of the parser itself that are groups.                      *)
TopGroups == {"g_cmds", "g_send_required", "g_send", "g_convert_required",
              "g_convert"}

Satisfied(validator, hits, size) ==
  CASE validator = "Xor"        -> hits = 1
    [] validator = "AtLeastOne" -> hits >= 1
    [] validator = "AllOrNone"  -> hits \in {0, size}
    [] validator = "DontCare"   -> TRUE

(* The groups that accept the flags in given.                              *)
Matched(given) ==
  LET ok[g \in DOMAIN Groups] ==
        LET hit(c) == IF c \in DOMAIN Groups THEN ok[c] ELSE c \in given
            hits   == {c \in Groups[g].children : hit(c)}
        IN  Satisfied(Groups[g].validator, Cardinality(hits),
                      Cardinality(Groups[g].children))
  IN  {g \in DOMAIN Groups : ok[g]}

(* Command::Validate asks the groups one level down only.                  *)
Valid(given) == TopGroups \subseteq Matched(given)

-----------------------------------------------------------------------------
Running == DOMAIN setup.lines

(* ParseCLI hands everything after the name of the program to the parser.  *)
Argv(p) == setup.lines[p].argv
Chunk(p) == Argv(p)[at[p]]

Terminator == Text(2, <<>>)

ParseOption(chunk) ==
  CASE chunk.dash = 2 /\ chunk.body # <<>>  -> "long"
    [] chunk.dash = 2 /\ chunk.body = <<>>  -> "short"
    [] chunk.dash = 1 /\ chunk.body # <<>>  -> "short"
    [] OTHER                                -> "positional"

(* A name is looked up in the flags of the whole tree of groups.  No two   *)
(* flags of this program share a name, so that the first match is the only *)
(* one.                                                                    *)
Matches(names, arg) == arg \in DOMAIN names
Match(names, arg) == names[arg]

NumberOfArguments(flag) ==
  IF flag \in Numbers \cup Texts \cup Types THEN 1 ELSE 0

(* Fault: what follows a letter of a cluster is never its value.           *)
ParseArgsValuesApart(p, flag, joined, canDiscard) ==
  IF joined # <<>> THEN IF canDiscard THEN <<>> ELSE joined
  ELSE SubSeq(Argv(p), at[p] + 1, at[p] + NumberOfArguments(flag))

(* The values a flag gets: the joined text (<<>> or <<text>>), or else the *)
(* next chunk, whatever it looks like.                                     *)
ParseArgsValues(p, flag, joined, canDiscard) ==
  LET n == NumberOfArguments(flag)
      discarded == canDiscard /\ n = 0
  IN  IF joined # <<>>
      THEN IF discarded THEN <<>> ELSE joined
      ELSE SubSeq(Argv(p), at[p] + 1,
                  IF at[p] + n <= Len(Argv(p)) THEN at[p] + n ELSE at[p])

(* ValueReader asks only whether a character is left behind.  An empty     *)
(* text leaves none, and the destination as it was; a sign with nothing    *)
(* after it is taken away, too, and the number is 0.                       *)
Sign == Text(1, <<>>)
Number(text) ==
  IF text = Sign THEN 0
  ELSE Numerals[text.body[1]] * (IF text.dash = 1 THEN -1 ELSE 1)
ReadsAsNumber(text) ==
  \/ text \in {NoText, Sign}
  \/ /\ text.dash \in {0, 1}
     /\ Len(text.body) = 1 /\ text.body[1] \in DOMAIN Numerals

ReadsAsType(text) ==
  text.dash = 0 /\ Len(text.body) = 1 /\ text.body[1] \in typesOfFile

(* Fault: any text is a number.                                            *)
ReadableAny(flag, text) == flag \in Types => ReadsAsType(text)

Readable(flag, text) ==
  /\ flag \in Numbers => ReadsAsNumber(text)
  /\ flag \in Types => ReadsAsType(text)

Stored(values, flag, text) ==
  IF flag \in Numbers /\ text = NoText THEN values
  ELSE [f \in DOMAIN values \cup {flag} |->
          IF f = flag THEN text ELSE values[f]]

(* The help flag ends the parsing at once, whatever was read before it.    *)
IsHelp(flag) == flag = "help"

(* A matched flag takes its values; then the parser goes on with the next  *)
(* letter of the cluster or with the next chunk.                           *)
Take(p, flag, joined, canDiscard, last) ==
  LET given == ParseArgsValues(p, flag, joined, canDiscard)
      good  == Len(given) = NumberOfArguments(flag)
      read  == good /\ \A i \in DOMAIN given : Readable(flag, given[i])
      next  == IF ~read THEN "parse_error"
               ELSE IF IsHelp(flag) THEN "help" ELSE "parsing"
  IN  /\ matched' = [matched EXCEPT ![p] = @ \cup {flag}]
      /\ verdict' = [verdict EXCEPT ![p] = next]
      /\ value' = IF next = "parsing" /\ given # <<>>
                  THEN [value EXCEPT ![p] = Stored(@, flag, given[1])]
                  ELSE value
      /\ IF given = <<>> /\ ~last
         THEN letter' = [letter EXCEPT ![p] = @ + 1] /\ UNCHANGED at
         ELSE /\ letter' = [letter EXCEPT ![p] = 1]
              /\ at' = [at EXCEPT ![p] =
                          @ + 1 + IF joined = <<>> THEN Len(given) ELSE 0]
      /\ UNCHANGED <<setup, terminated>>

Refuse(p) ==
  /\ verdict' = [verdict EXCEPT ![p] = "parse_error"]
  /\ UNCHANGED <<setup, at, letter, terminated, matched, value>>

-----------------------------------------------------------------------------
(* Reset: no flag is matched and every value is its default.               *)
NothingMatched == [p \in Programs |-> {}]
DefaultValues == [p \in Programs |-> <<>>]

ParserInit ==
  /\ setup \in Scenarios
  /\ at = [p \in Programs |-> 1]
  /\ letter = [p \in Programs |-> 1]
  /\ terminated = [p \in Programs |-> FALSE]
  /\ matched = NothingMatched
  /\ value = DefaultValues
  /\ verdict = [p \in Programs |-> "parsing"]

NextChunk(p) ==
  p \in Running /\ verdict[p] = "parsing" /\ at[p] <= Len(Argv(p))

(* Fault: the parser stays at the terminator.                              *)
TerminatorStays(p) ==
  /\ NextChunk(p) /\ Chunk(p) = Terminator
  /\ terminated' = [terminated EXCEPT ![p] = ~@]
  /\ UNCHANGED <<setup, at, letter, matched, value, verdict>>

TerminatorChunk(p) ==
  /\ NextChunk(p) /\ ~terminated[p] /\ Chunk(p) = Terminator
  /\ terminated' = [terminated EXCEPT ![p] = TRUE]
  /\ at' = [at EXCEPT ![p] = @ + 1]
  /\ UNCHANGED <<setup, letter, matched, value, verdict>>

(* --name, or --name and a value in one chunk with a space between them:   *)
(* main() set the separator to " ", so --name=value has no meaning.        *)
ParseLong(p) ==
  /\ NextChunk(p) /\ ~terminated[p] /\ Chunk(p) # Terminator
  /\ ParseOption(Chunk(p)) = "long"
  /\ LET body  == Chunk(p).body
         space == SelectInSeq(body, LAMBDA t : t = " ")
         arg   == IF space = 0 THEN body ELSE SubSeq(body, 1, space - 1)
         joined == IF space = 0 THEN <<>>
                   ELSE <<Text(0, SubSeq(body, space + 1, Len(body)))>>
     IN  IF Len(arg) = 1 /\ Matches(LongFlags, arg[1])
         THEN Take(p, Match(LongFlags, arg[1]), joined, FALSE, TRUE)
         ELSE Refuse(p)

(* One letter of a cluster: what follows it is its value if it takes one,  *)
(* and the next letter if it does not.                                     *)
ParseShort(p) ==
  /\ NextChunk(p) /\ ~terminated[p] /\ Chunk(p) # Terminator
  /\ ParseOption(Chunk(p)) = "short"
  /\ LET body == Chunk(p).body
         arg  == body[letter[p]]
         rest == SubSeq(body, letter[p] + 1, Len(body))
         joined == IF rest = <<>> THEN <<>> ELSE <<Text(0, rest)>>
     IN  IF Matches(ShortFlags, arg)
         THEN Take(p, Match(ShortFlags, arg), joined, rest # <<>>, rest = <<>>)
         ELSE Refuse(p)

(* No positional argument is declared: any other chunk is an error.        *)
Positional(p) ==
  /\ NextChunk(p)
  /\ \/ terminated[p]
     \/ Chunk(p) # Terminator /\ ParseOption(Chunk(p)) = "positional"
  /\ Refuse(p)

Get(p, flag) == IF flag \in DOMAIN value[p] THEN value[p][flag] ELSE NoText

(* main(): without --duplex an odd number of sockets cannot be paired.     *)
OddSockets(p) ==
  LET text == Get(p, "nSockets")
      n == IF text = NoText THEN 0 ELSE Number(text)
  IN  "duplex" \notin matched[p] /\ n > 1 /\ n % 2 = 1

EndOfLine(p) ==
  /\ p \in Running /\ verdict[p] = "parsing" /\ at[p] > Len(Argv(p))
  /\ verdict' = [verdict EXCEPT ![p] =
       IF Valid(matched[p]) /\ ~OddSockets(p) THEN "parsed" ELSE "invalid"]
  /\ UNCHANGED <<setup, at, letter, terminated, matched, value>>

Parse(p) ==
  \/ TerminatorChunk(p)
  \/ ParseLong(p)
  \/ ParseShort(p)
  \/ Positional(p)
  \/ EndOfLine(p)

-----------------------------------------------------------------------------
Asked(p) == setup.lines[p].asked

(* However the options of a complete line are spelled and ordered (joined  *)
(* to their values, apart from them, in clusters, repeated), the parser    *)
(* finds the flags and the values that were meant (ParseLong, ParseShort). *)
ReadsAsMeant ==
  \A p \in Running : Asked(p).sound /\ verdict[p] # "parsing" =>
    /\ verdict[p] \in {"parsed", "invalid"}
    /\ matched[p] = Asked(p).flags
    /\ value[p] = Asked(p).texts

(* What passes the validators of the nested groups is one command with     *)
(* everything it needs and nothing the other command needs (main 91-136,   *)
(* Group::Matched, Command::Validate).                                     *)
SendNeeds == {"cmd_send", "host", "port", "nSockets"}
ConvertNeeds == {"cmd_convert", "ifile", "itype", "ofile", "otype"}
OneCommand ==
  \A p \in Running : verdict[p] = "parsed" =>
    LET m == matched[p]
        what == m \cap {"data_file", "term"}
    IN  \/ SendNeeds \subseteq m /\ what # {} /\ m \cap ConvertNeeds = {}
        \/ ConvertNeeds \subseteq m /\ m \cap SendNeeds = {} /\ what = {}

(* That, and nothing was left out.  A value left out takes the next option *)
(* for a value (ParseArgsValues does not look at the dashes), which goes   *)
(* unnoticed only for a host or a file: it has the name of an option then. *)
AcceptedIsComplete ==
  /\ OneCommand
  /\ \A p \in Running : verdict[p] = "parsed" =>
       Asked(p).sound \/ \E f \in Texts \cap DOMAIN value[p] : value[p][f].dash > 0

=============================================================================
