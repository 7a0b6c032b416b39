--------------------------- MODULE MCApplication ----------------------------
(***************************************************************************)
(* Command lines, pipelines and directories for TLC.                       *)
(***************************************************************************)
EXTENDS Application

MCNumerals == [zero |-> 0, one |-> 1, two |-> 2, three |-> 3]

(* An option: its flag, the dashes and name it is written with, its value. *)
Opt(flag, dash, name, text) ==
  [flag |-> flag, dash |-> dash, name |-> name, text |-> text]

SendOpts == <<Opt("cmd_send", 1, "s", NoText),
              Opt("host", 1, "n", File("h")),
              Opt("port", 1, "p", Text(0, <<"one">>)),
              Opt("nSockets", 2, "n_sockets", Text(0, <<"two">>))>>
DataFile == Opt("data_file", 1, "f", Named)
Term == Opt("term", 1, "t", NoText)
Display == Opt("print", 1, "P", NoText)
OfType(text) == Opt("type", 2, "type", text)
ConvertOpts == <<Opt("cmd_convert", 1, "c", NoText),
                 Opt("ifile", 1, "i", Named),
                 Opt("itype", 2, "itype", File("bin")),
                 Opt("ofile", 2, "ofile", File("y")),
                 Opt("otype", 2, "otype", File("hex"))>>

(* How an option is written: apart from its value, joined to it, or with   *)
(* the value left out.                                                     *)
Written(o, how) ==
  LET valued == o.text # NoText
      joined == IF o.dash = 1 THEN <<o.name>> \o o.text.body
                ELSE <<o.name, " ">> \o o.text.body
  IN  CASE how = "joined" /\ valued -> <<Text(o.dash, joined)>>
        [] how = "apart" /\ valued  -> <<Text(o.dash, <<o.name>>), o.text>>
        [] OTHER                    -> <<Text(o.dash, <<o.name>>)>>

Meant(opts, sound) ==
  LET named == {i \in DOMAIN opts : opts[i].text # NoText}
  IN  [flags |-> {opts[i].flag : i \in DOMAIN opts},
       texts |-> IF named = {} THEN <<>>
                 ELSE [f \in {opts[i].flag : i \in named} |->
                   opts[CHOOSE i \in named :
                     /\ opts[i].flag = f
                     /\ \A j \in named : opts[j].flag = f => j <= i].text],
       sound |-> sound]

Line(opts, hows, sound) ==
  [argv |-> FlattenSeq([i \in DOMAIN opts |-> Written(opts[i], hows[i])]),
   asked |-> Meant(opts, sound)]
Apart(opts) == Line(opts, [i \in DOMAIN opts |-> "apart"], TRUE)

Rotated(s, k) == SubSeq(s, k + 1, Len(s)) \o SubSeq(s, 1, k)
Orders(s) == {Rotated(s, k) : k \in 0 .. Len(s) - 1}
             \cup {Rotated(Reverse(s), k) : k \in 0 .. Len(s) - 1}

(* Every selection of the options, complete or not.                        *)
AllOpts == SendOpts \o <<DataFile, Term>> \o ConvertOpts
Selected ==
  {Apart(SelectSeq(AllOpts, LAMBDA o : o.flag \in flags)) :
     flags \in SUBSET {AllOpts[i].flag : i \in DOMAIN AllOpts}}

(* The complete lines, in several orders and spellings.                    *)
Complete == {SendOpts \o <<DataFile, Display>>, SendOpts \o <<DataFile, Term>>,
             ConvertOpts}
Spelled ==
  UNION {{Line(o, [i \in DOMAIN o |-> IF i \in j THEN "joined" ELSE "apart"],
               TRUE) : o \in Orders(c), j \in SUBSET {2, 3, 4}} : c \in Complete}

(* One value left out.                                                     *)
Forgetful ==
  UNION {{Line(o, [i \in DOMAIN o |-> IF i = k THEN "forgotten" ELSE "apart"],
               o[k].text = NoText) : o \in Orders(c), k \in {1, 3}} :
           c \in Complete}

(* Clusters, repeated options, an odd number of sockets, and lines with a  *)
(* stray chunk, the terminator, help, an unknown option or a bad value.    *)
Odd == Opt("nSockets", 2, "n_sockets", Text(0, <<"three">>))
Duplex == Opt("duplex", 2, "duplex", NoText)
Base == SendOpts \o <<DataFile>>
Good == Apart(Base)
Unsound(argv) == [argv |-> argv, asked |-> Meant(Base, FALSE)]
Strays == {Terminator, File("x"), Text(1, <<>>), Text(1, <<"h">>),
           Text(2, <<"help">>), Text(1, <<"z">>), Text(2, <<"zz">>),
           Text(2, <<"n_sockets", "=", "two">>), Text(2, <<"duplex", " ", "x">>)}
Special ==
  {Apart(Base \o <<Odd>>), Apart(<<Odd>> \o Base),
   Apart(Base \o <<Opt("port", 1, "p", Sign)>>),
   Apart(Base \o <<Opt("nSockets", 2, "n_sockets", Sign)>>),
   Apart(Base \o <<Odd, Duplex>>), Apart(Base \o <<DataFile, Term, Term>>),
   [argv |-> <<Text(1, <<"s", "P", "t", "n", "h">>)>> \o SubSeq(Good.argv, 4, 7),
    asked |-> Meant(SendOpts \o <<Display, Term>>, TRUE)],
   Unsound(Good.argv \o <<Text(1, <<"p">>), Text(2, <<"three">>)>>),
   Unsound(Good.argv \o <<Text(1, <<"p">>), File("h")>>),
   Unsound(Good.argv \o <<Text(2, <<"type">>), File("h")>>)}
  \cup {Unsound(InsertAt(Good.argv, i, c)) : i \in 1 .. 8, c \in Strays}

Single == Selected \cup Spelled \cup Special
          \cup {l \in Forgetful : ~l.asked.sound}

(* Operations on the standard input and output.                            *)
Convert(i, o, type) ==
  Apart(<<ConvertOpts[1], Opt("ifile", 1, "i", File(i)), ConvertOpts[3],
          Opt("ofile", 1, "o", File(o)), Opt("otype", 2, "otype", File(type))>>)
Send(f, types) ==
  Apart(SendOpts \o <<Opt("data_file", 1, "f", File(f))>> \o types)
Std == {Convert("stdin", "y", "hex"), Convert("x", "STDOUT", "hex"),
        Convert("STDIN", "stdout", "hex"), Convert("STDIN", "STDOUT", "mem"),
        Convert("x", "y", "bin"), Send("STDIN", <<OfType(File("hex"))>>),
        Send("stdin", <<>>), Send("x", <<OfType(File("bin"))>>)}

Scenario(lines, pipes, stale) ==
  [lines |-> lines, pipes |-> pipes, stale |-> stale]
MCScenarios ==
  {Scenario([p \in {"a"} |-> l], {}, FALSE) : l \in Single}
  \cup {Scenario([p \in {"a"} |-> l], {}, s) : l \in Std, s \in BOOLEAN}
  \cup {Scenario([a |-> k, b |-> l], pipes, FALSE) :
          k \in Std, l \in Std, pipes \in {{}, {<<"a", "b">>}}}
=============================================================================
