---------------------------- MODULE Application -----------------------------
(***************************************************************************)
(* main() of client_app after its command line was read: which operation   *)
(* it runs, on which files, and how StdInOutHandler stands in for standard *)
(* input and output with two files of fixed names in the working           *)
(* directory.  Programs of one pipeline share that directory.              *)
(*                                                                         *)
(* A file's contents, and what a program printed, are the set of sources   *)
(* whose data they hold: a program (what came in through its standard      *)
(* input), "file" (a named file), "stale" (left by an earlier run) and     *)
(* "messages" (the texts the operations print to std::cout).  The          *)
(* operations keep the source of their input; what they do with the words  *)
(* is in Converters and BlockFraming.                                      *)
(***************************************************************************)
EXTENDS CommandLine

VARIABLES
  pc,           \* args, copy, redirect, work, write, close, exit, done;
                \* hung (in a call without end), killed (by SIGPIPE)
  dir,          \* the directory: name -> inode, for the files that exist
  data,         \* inode -> sources
  tmpIn,        \* the inode a program copies its standard input to
  source,       \* the inode the operation reads
  result,       \* the inode it writes
  error,        \* StdInOutHandler::error_
  cout,         \* where std::cout writes: stdout, buffer, dead (a buffer gone)
  printed,      \* what reached the standard output
  read,         \* history: what the operation read; <<>> or <<sources>>
  status        \* the exit status; -1 while the program runs

mainVars == <<pc, dir, data, tmpIn, source, result, error, cout, printed,
              read, status>>
vars == <<setup, at, letter, terminated, matched, value, verdict, pc, dir,
          data, tmpIn, source, result, error, cout, printed, read, status>>

None == 0
Crashed == 139
Sigpipe == 141

File(name) == Text(0, <<name>>)
StdinTmp == File("stdin.tmp")
StdoutTmp == File("stdout.tmp")
Named == File("x")                      \* the one named file that exists
WithOut(name) == Text(name.dash, Append(name.body, ".out"))

(* str_to_upper(name) = "STDIN", and the same for "STDOUT".                *)
SaysStdin(name) == name \in {File("stdin"), File("STDIN")}
SaysStdout(name) == name \in {File("stdout"), File("STDOUT")}

(* A user does not name the two files of the handler.                      *)
ASSUME NamesAssumption ==
  \A s \in Scenarios : \A p \in DOMAIN s.lines :
    LET argv == s.lines[p].argv
    IN \A i \in DOMAIN argv : \A j \in DOMAIN argv[i].body :
         argv[i].body[j] \notin {"stdin.tmp", "stdout.tmp"}

-----------------------------------------------------------------------------
Sends(p) == "cmd_send" \in matched[p]
TypeOfFile(p, flag) ==
  IF flag \in DOMAIN value[p] THEN value[p][flag].body[1] ELSE "bin"

(* The names main() hands to StdInOutHandler ...                           *)
NameIn(p) == Get(p, IF Sends(p) THEN "data_file" ELSE "ifile")
FromStdin(p) == SaysStdin(NameIn(p))
ToStdout(p) ==
  IF Sends(p) THEN FromStdin(p) ELSE SaysStdout(Get(p, "ofile"))

(* ... and the names of the files the operation works on.  Without --type  *)
(* main() does not pass the output name on to sendDS8File.                 *)
InFile(p) == IF FromStdin(p) THEN StdinTmp ELSE NameIn(p)
OutFile(p) ==
  IF ToStdout(p) /\ (Sends(p) => "type" \in matched[p]) THEN StdoutTmp
  ELSE IF Sends(p) THEN WithOut(InFile(p)) ELSE Get(p, "ofile")

SameType(p) == TypeOfFile(p, "itype") = TypeOfFile(p, "otype")
Supported(p) ==
  Sends(p) \/ "mem" \notin {TypeOfFile(p, "itype"), TypeOfFile(p, "otype")}

Upstream(p) == {q \in Running : <<q, p>> \in setup.pipes}
Readers(p) == {q \in Running : <<p, q>> \in setup.pipes}
Finished(p) == pc[p] \in {"done", "killed"}
StdinOf(p) ==
  IF Upstream(p) = {} THEN {p} ELSE UNION {printed[q] : q \in Upstream(p)}

Goto(p, where) == pc' = [pc EXCEPT ![p] = where]
Exit(p, code) ==
  Goto(p, "done") /\ status' = [status EXCEPT ![p] = code]

-----------------------------------------------------------------------------
Init ==
  /\ ParserInit
  /\ pc = [p \in Programs |-> IF p \in Running THEN "args" ELSE "done"]
  /\ dir = [f \in {Named} \cup (IF setup.stale THEN {StdinTmp, StdoutTmp}
                                 ELSE {}) |->
              CASE f = Named -> 1 [] f = StdinTmp -> 2 [] OTHER -> 3]
  /\ data = <<{"file"}, {"stale"}, {"stale"}>>
  /\ tmpIn = [p \in Programs |-> None]
  /\ source = [p \in Programs |-> None]
  /\ result = [p \in Programs |-> None]
  /\ error = [p \in Programs |-> 0]
  /\ cout = [p \in Programs |-> "stdout"]
  /\ printed = [p \in Programs |-> {}]
  /\ read = [p \in Programs |-> <<>>]
  /\ status = [p \in Programs |-> -1]

(* Opening a file to write empties it, or creates it.                      *)
OpenToWrite(name) ==
  /\ dir' = IF name \in DOMAIN dir THEN dir
            ELSE [f \in DOMAIN dir \cup {name} |->
                    IF f = name THEN Len(data) + 1 ELSE dir[f]]
  /\ data' = IF name \in DOMAIN dir THEN [data EXCEPT ![dir[name]] = {}]
             ELSE Append(data, {})

Unlink(names) == [f \in DOMAIN dir \ names |-> dir[f]]

(* Writing from the start over what another program wrote meanwhile leaves *)
(* that program's tail or nothing of it.                                   *)
Write(inode, sources) ==
  \E kept \in {{}, data[inode]} :
    data' = [data EXCEPT ![inode] = sources \cup kept]

ParseStep(p) == pc[p] = "args" /\ Parse(p) /\ UNCHANGED mainVars

(* main() after ParseCLI: exit codes, conversions into the same type, and  *)
(* send without a file, which connects and may tell the server to end.     *)
NotRun(p) ==
  /\ pc[p] = "args" /\ verdict[p] # "parsing"
  /\ CASE verdict[p] = "help"        -> Exit(p, 0)
       [] verdict[p] = "parse_error" -> Exit(p, 2)
       [] verdict[p] = "invalid"     -> Exit(p, 3)
       [] verdict[p] = "parsed"      ->
            \/ ~Sends(p) /\ SameType(p) /\ Exit(p, 3)
            \/ Sends(p) /\ "data_file" \notin matched[p] /\ Exit(p, 0)
  /\ printed' = IF verdict[p] = "help" \/ (verdict[p] = "parsed" /\ Sends(p))
                THEN [printed EXCEPT ![p] = {"messages"}] ELSE printed
  /\ UNCHANGED <<parserVars, dir, data, tmpIn, source, result, error, cout,
                 read>>

Operates(p) ==
  /\ verdict[p] = "parsed"
  /\ IF Sends(p) THEN "data_file" \in matched[p] ELSE ~SameType(p)

(* Fault: the file is opened but the standard input is not copied to it.   *)
StartHandlerOnly(p) ==
  /\ pc[p] = "args" /\ Operates(p) /\ Goto(p, "redirect")
  /\ IF FromStdin(p) THEN OpenToWrite(StdinTmp) ELSE UNCHANGED <<dir, data>>
  /\ UNCHANGED <<parserVars, tmpIn, error, source, result, cout, printed, read,
                 status>>

(* StdInOutHandler(inFile, outFile): the file for the standard input is    *)
(* opened, or cannot be created.                                           *)
StartHandler(p) ==
  /\ pc[p] = "args" /\ Operates(p)
  /\ \/ /\ ~FromStdin(p) /\ Goto(p, "redirect")
        /\ UNCHANGED <<dir, data, tmpIn, error>>
     \/ /\ FromStdin(p) /\ Goto(p, "copy")
        /\ OpenToWrite(StdinTmp)
        /\ tmpIn' = [tmpIn EXCEPT ![p] = dir'[StdinTmp]]
        /\ UNCHANGED error
     \/ /\ FromStdin(p) /\ Goto(p, "redirect")
        /\ error' = [error EXCEPT ![p] = 2]
        /\ UNCHANGED <<dir, data, tmpIn>>
  /\ UNCHANGED <<parserVars, source, result, cout, printed, read, status>>

(* ofs << std::cin.rdbuf() copies what comes as it comes ...               *)
CopySome(p) ==
  /\ pc[p] = "copy"
  /\ Write(tmpIn[p], StdinOf(p))
  /\ UNCHANGED <<parserVars, pc, dir, tmpIn, source, result, error, cout,
                 printed, read, status>>

(* ... up to the end of the standard input, which in a pipeline is the end *)
(* of the program before.                                                  *)
CopyStdin(p) ==
  /\ pc[p] = "copy" /\ \A q \in Upstream(p) : Finished(q)
  /\ Write(tmpIn[p], StdinOf(p))
  /\ Goto(p, "redirect")
  /\ UNCHANGED <<parserVars, dir, tmpIn, source, result, error, cout, printed,
                 read, status>>

(* Fault: std::cout is left alone.                                         *)
RedirectNot(p) ==
  /\ pc[p] = "redirect" /\ Goto(p, "work")
  /\ UNCHANGED <<parserVars, dir, data, tmpIn, source, result, error, cout,
                 printed, read, status>>

(* std::cout.rdbuf(tmpCoutStream_.rdbuf())                                 *)
Redirect(p) ==
  /\ pc[p] = "redirect" /\ Goto(p, "work")
  /\ cout' = IF ToStdout(p) /\ error[p] = 0
             THEN [cout EXCEPT ![p] = "buffer"] ELSE cout
  /\ UNCHANGED <<parserVars, dir, data, tmpIn, source, result, error, printed,
                 read, status>>

(* The operation opens its input and creates its output; main() asks for   *)
(* neither outcome, nor for the handler's error.                           *)
Says(p) == printed' = IF cout[p] = "stdout"
                      THEN [printed EXCEPT ![p] = @ \cup {"messages"}]
                      ELSE printed

OpenFiles(p) ==
  /\ pc[p] = "work"
  /\ Supported(p) /\ InFile(p) \in DOMAIN dir
  /\ source' = [source EXCEPT ![p] = dir[InFile(p)]]
  /\ OpenToWrite(OutFile(p))
  /\ result' = [result EXCEPT ![p] = dir'[OutFile(p)]]
  /\ Says(p) /\ Goto(p, "write")
  /\ UNCHANGED <<parserVars, tmpIn, error, cout, read, status>>

(* No such input, no connection, no output, an unsupported pair of types;  *)
(* or a failure after the output was created.  One after a part of it was  *)
(* written is a WriteResult: how much of a source there is, is left out.   *)
OperationFails(p) ==
  /\ pc[p] \in {"work", "write"} /\ Goto(p, "close")
  /\ printed' = printed \/ Says(p)
  /\ UNCHANGED <<parserVars, dir, data, tmpIn, source, result, error, cout,
                 read, status>>

WriteResult(p) ==
  /\ pc[p] = "write" /\ Goto(p, "close")
  /\ read' = [read EXCEPT ![p] = <<data[source[p]]>>]
  /\ Write(result[p], data[source[p]])
  /\ UNCHANGED <<parserVars, dir, tmpIn, source, result, error, cout, printed,
                 status>>

(* A transfer may wait without end for what does not come, or send without *)
(* end; so may file_hex_to_ds8 write, with a block of two words.  And who  *)
(* prints into a pipe waits for a reader that does not read.               *)
MayNotReturn(p) ==
  \/ Sends(p)
  \/ TypeOfFile(p, "itype") = "hex" /\ TypeOfFile(p, "otype") = "ds8"
  \/ \E q \in Readers(p) : pc[q] = "hung"

NeverReturns(p) ==
  /\ pc[p] \in {"work", "write", "close"} /\ MayNotReturn(p)
  /\ Goto(p, "hung")
  /\ UNCHANGED <<parserVars, dir, data, tmpIn, source, result, error, cout,
                 printed, read, status>>

(* A program that sends over a connection the server has closed, or prints *)
(* to a program that has ended, is killed; no destructor runs.             *)
IsConnected(p) ==
  /\ Sends(p)
  /\ \/ pc[p] \in {"work", "write", "close"}
     \/ pc[p] = "args" /\ verdict[p] = "parsed" /\ "data_file" \notin matched[p]
Prints(p) ==
  \/ pc[p] = "args" /\ verdict[p] # "parsing" /\ ~Operates(p)
  \/ pc[p] \in {"work", "write"} /\ cout[p] = "stdout"
  \/ pc[p] \in {"close", "exit"}
ReaderGone(p) == \E q \in Readers(p) : Finished(q)

BrokenPipe(p) ==
  /\ IsConnected(p) \/ (Prints(p) /\ ReaderGone(p))
  /\ Goto(p, "killed") /\ status' = [status EXCEPT ![p] = Sigpipe]
  /\ UNCHANGED <<parserVars, dir, data, tmpIn, source, result, error, cout,
                 printed, read>>

(* ~StdInOutHandler: the output file is printed and removed if there is    *)
(* one and nothing failed; std::cout is given its own buffer back in that  *)
(* case only, and is left on the handler's, which is gone, otherwise.      *)
ShowsResult(p) == ToStdout(p) /\ StdoutTmp \in DOMAIN dir /\ error[p] = 0
Shown(p) == IF ShowsResult(p) THEN {StdoutTmp} ELSE {}
Copied(p) == IF FromStdin(p) THEN {StdinTmp} ELSE {}

CloseHandlerBy(p, gone, buffer) ==
  /\ pc[p] = "close" /\ Goto(p, "exit")
  /\ error' = IF ToStdout(p) /\ StdoutTmp \notin DOMAIN dir
              THEN [error EXCEPT ![p] = 2] ELSE error
  /\ printed' = IF ShowsResult(p)
                THEN [printed EXCEPT ![p] = @ \cup data[dir[StdoutTmp]]]
                ELSE printed
  /\ cout' = [cout EXCEPT ![p] = buffer]
  /\ dir' = Unlink(gone)
  /\ UNCHANGED <<parserVars, data, tmpIn, source, result, read, status>>

(* Fault: the copy of the standard input is not removed.                   *)
CloseHandlerKeepsCopy(p) ==
  CloseHandlerBy(p, Shown(p), IF ShowsResult(p) THEN "stdout" ELSE cout[p])

CloseHandler(p) ==
  CloseHandlerBy(p, Shown(p) \cup Copied(p),
    IF cout[p] = "buffer" /\ ~ShowsResult(p) THEN "dead" ELSE "stdout")

(* main() returns 0 whatever the operation did.  At exit std::cout is      *)
(* flushed; if its buffer went with the handler, anything may happen.      *)
Return(p) ==
  /\ pc[p] = "exit"
  /\ \/ Exit(p, 0)
     \/ cout[p] = "dead" /\ Exit(p, Crashed)
  /\ UNCHANGED <<parserVars, dir, data, tmpIn, source, result, error, cout,
                 printed, read>>

Run(p) ==
  \/ ParseStep(p)
  \/ NotRun(p)
  \/ StartHandler(p)
  \/ CopyStdin(p)
  \/ Redirect(p)
  \/ OpenFiles(p)
  \/ OperationFails(p)
  \/ WriteResult(p)
  \/ NeverReturns(p)
  \/ BrokenPipe(p)
  \/ CloseHandler(p)
  \/ Return(p)

Next == \E p \in Programs : Run(p) \/ CopySome(p)
Spec == Init /\ [][Next]_vars
FairSpec == Spec /\ \A p \in Programs : WF_vars(Run(p))

-----------------------------------------------------------------------------
Others(p, Uses(_)) == {q \in Running \ {p} : Operates(q) /\ Uses(q)}
Adjacent(p, q) == <<p, q>> \in setup.pipes \/ <<q, p>> \in setup.pipes

(* The operation works on what came in through the standard input: all of  *)
(* it if no other program of the directory reads its standard input; and   *)
(* if the others that do, which share stdin.tmp, are next to it in a       *)
(* pipeline, and none was killed before it could remove the file, at least *)
(* never on what came in to one of them, but for texts it has itself       *)
(* printed to the next one by then.  (A program that could not create the  *)
(* file goes on all the same.)                                             *)
OwnInput ==
  \A p \in Running : read[p] # <<>> /\ FromStdin(p) /\ error[p] = 0 =>
    IF Others(p, FromStdin) = {} THEN read[p][1] = StdinOf(p)
    ELSE (\A q \in Others(p, FromStdin) : Adjacent(p, q) /\ pc[q] # "killed") =>
           read[p][1] \subseteq StdinOf(p) \cup {"messages"}

(* What a program asked to write to its standard output has printed when   *)
(* it returns is its result and nothing else, or nothing; the texts of the *)
(* operation only if the handler failed to start, and a file left by an    *)
(* earlier run only if the operation made none.  std::cout is left on the  *)
(* buffer of the handler, which is gone, only if there was no output file  *)
(* at all; the flush at exit is undefined then.                            *)
PrintsResult ==
  \A p \in Running :
    /\ pc[p] \in {"exit", "done"} /\ Operates(p) /\ ToStdout(p)
    /\ Others(p, ToStdout) = {}
    => LET made == result[p] # None /\ OutFile(p) = StdoutTmp
       IN  /\ cout[p] = "dead" => ~made
           /\ IF error[p] # 0 THEN printed[p] \subseteq {"messages"}
              ELSE printed[p] = IF ~made THEN {"stale"}
                                ELSE IF read[p] = <<>> THEN {} ELSE read[p][1]

(* When all programs have ended, a copy of somebody's standard input is    *)
(* left behind only by a program that was killed, and stdout.tmp by one    *)
(* that was killed or had an error.                                        *)
NothingLeft ==
  (\A p \in Running : Finished(p)) =>
    /\ StdinTmp \in DOMAIN dir =>
         LET users == {p \in Running : Operates(p) /\ FromStdin(p)}
         IN  users = {} \/ \E p \in users : pc[p] = "killed"
    /\ StdoutTmp \in DOMAIN dir =>
         \/ setup.stale
         \/ \E p \in Running : error[p] # 0
         \/ \E p \in Running :
              Operates(p) /\ ToStdout(p) /\ pc[p] = "killed"

(* A program ends whatever its command line, if the one before it in its   *)
(* pipeline does; only a call of its operation can keep it, one for which  *)
(* MayNotReturn gives the reason.                                          *)
RunsEnd ==
  \A p \in Programs :
    (\A q \in Upstream(p) : Finished(q)) ~> (Finished(p) \/ pc[p] = "hung")
=============================================================================
