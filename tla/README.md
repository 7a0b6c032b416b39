# Formal model of the TCP client library

TLA+ specifications of the TCP client in `src/src/` (`TCPClient`, `TCPClientApp`)
and of the application `src/app/client-app`, model-checked with TLC and, for the
connection, the block stream, the threads of a file transfer, the framing of blocks, the
chunked transfer, the file converters and the programs that share the handler's files,
proved with TLAPS.
Line numbers refer to the files under `src/`.

## The system

A `TCPClient` talks to a `tcp_io` server over a *bundle* of TCP sockets. Data moves
in blocks of `tcpBufSize_` bytes; each `send()` puts one block on one socket, each
`receive()` takes one block off one socket, and both go through the sockets in turn.
In duplex mode a socket is used both ways; otherwise the lower half of the bundle
sends and the upper half receives. A block starts with a header of two words (size,
data or service tag); a service block may say *terminate* or *exit*. The application
sends a file in its main thread while a second thread (`std::async`) receives the
reply; both use the same `TCPClient` object without a lock. A second format, for
programs that use the library, sends one message of any length behind one header, in
whatever portions the program has it (*chunks*).

| component | where | state it keeps | operations |
|---|---|---|---|
| connection | `tcpclient.cpp` 82-304, 695-785 | `state_`, `sockfd_`, `sockfd_send_`, `sockfd_rcv_`, `server_addr_`, `connectionInfo_`, `lastError_` | `initConnection`, `connect`, `configSocket`, `setTimeout`, `disconnect`, `set_error` |
| block stream | `tcpclient.cpp` 388-424, 552-591 | `iSocketSend_`, `iSocketRcv_`, `lastError_` | `send`, `receive` |
| file transfer | `tcpclientapp.cpp` 677-849, 912-1044; `tcpclient.cpp` 311-345 | the two threads, the output file | `sendBinFile`, `sendHexFile`, `sendDS8File`, `receiveTo...`, `send_terminate` |
| block framing | `tcpclient.cpp` 347-386, 477-550, 615-644; `tcpclientapp.cpp` 851-910, 1046-1079; `main.cpp` 19-43 | none between calls | `send_to_tcp_io`, `receive_tcp_io`, `receive_data`, `sendData`, `receiveToData`, `receiveQuickData`, `send_exit` |
| chunked transfer | `tcpclient.cpp` 426-448, 593-613, 646-693, 796-996 | sizes and status of a chunk transfer | `SendChunks`, `SendBlocks`, `ReceiveChunks`, `receive_sync` |
| file converters | `tcpclientapp.cpp` 141-605, 677-728, 912-958 | files | bin, hex and ds8 conversions, the ds8 header, `compareHexFiles`, `normalizeBufSize` |
| stdin/stdout handler | `tcpclientapp.cpp` 87-139 | two temporary files, the buffer of `std::cout` | constructor, `start`, destructor |
| command line | `app/client-app/main.cpp` | options | checks, and one call of one of the above |
| argument parser | `args.hxx` (vendored) | the flags matched and their values | `ParseCLI`, `Validate` |
| timing, status output | `tcpclientapp.cpp` 1-85, 609-665 | counters | printing |
| OSSIM image stream client | `ossimTcpStreamClient.cpp` | one socket | `connectToServer`, `open`, stub `execute` |
| build and packaging | `CMakeLists.txt`, `Dockerfile`, `scripts/` | | |

Interaction: the command line builds a `ConnectionInfo` and calls one function of
`TCPClientApp`; that connects a `TCPClient`, starts the receiving thread, sends, sends
the terminate blocks and joins. The threads share the client object. Any failed system
call leads to `set_error`, which records the error and runs `disconnect()` in the
thread that met it, while the other thread may be anywhere. Around the call the
stdin/stdout handler replaces the standard streams by files of fixed names in the
current directory, which every other instance of the application uses too.

What is hard about it:

* *connection*: failures at any point of a handshake repeated for every socket,
  partial reads, silent servers, time budgets, and descriptor numbers that the process
  reuses. Correct means: a bundle that is connected is wired as the server says and
  has the time-outs asked for; a connection that failed holds nothing; every call ends
  in time.
* *block stream*: nothing but the two turn counters keeps the blocks in order.
  Correct means: whatever arrives is a prefix of what was sent, in whole blocks, and
  nothing gets stuck while the sockets work.
* *file transfer*: two threads, one object, no lock; errors are passed on by
  `lastError_` and by closing sockets under the other thread's feet. Correct means: no
  file is cut short without an error, nothing but sockets is closed, both threads end.
* *block framing, chunked transfer, converters*: sizes at the boundaries of blocks and
  words, last blocks, padding, buffers that keep old data. Correct means: what comes
  out is what went in, no buffer is overrun, and the loop ends.
* *stdin/stdout handler, command line*: options read one for another, programs of a
  pipeline that share temporary files, a handler that failed. Correct means: one
  complete command is carried out on its own input, its own result comes out, and
  nothing is left behind.

## Modules

| module | models | kind |
|---|---|---|
| `TcpConnect` | connection | detailed |
| `BlockFifo` | what the block stream promises | abstract |
| `StripedStream` | block stream, in parts of blocks | detailed; implements `BlockFifo` |
| `TcpSession` | file transfer, in whole blocks, with `set_error` and `disconnect` step by step | detailed; implements `StripedStream` |
| `BlockFraming` | block framing, in bytes, over a FIFO of blocks | detailed; its block stream is what `BlockFifo` promises |
| `Words` | the words of headers and files: numbers as bytes, lowest first | operators, for the next two |
| `Chunks` | chunked transfer, in bytes, over a bundle of sockets | detailed; a sender and a receiver composed |
| `Converters` | file converters, in bytes and words, and the ds8 transfer | algorithms, in rounds of their loops |
| `CommandLine` | the argument parser and the groups `main` declares | component of `Application` |
| `Application` | `main` and the stdin/stdout handler, several programs in a directory | composes `CommandLine` with files and streams |
| `MCTcpConnect`, `MCTcpSession`, `MCChunks`, `MCConverters`, `MCApplication` | | the instances for TLC |
| `TcpConnectProofs`, `StripedStreamProofs`, `TcpSessionProofs`, `BlockFramingProofs`, `WordsProofs`, `ChunksProofs`, `ConvertersProofs`, `ApplicationProofs` | | theorems and proofs |

Operators preceded by a comment that begins with `Fault:` are variants of a definition
with an error put in. They are not part of the specifications; each serves to see that
a property notices the error.

### TcpConnect

One thread calls the operations one at a time (`pc` says where in `connect()` it is):
`InitConnection`, `Connect`, `Disconnect`, and inside a connect `OpenSocket`,
`TcpRefused`/`TcpConnected` (the `::connect` loop), `ControlTimeout`,
`ControlRejected`, `ControlRead(w)` (the control block loop and what `configSocket`
makes of `w` words), `RestTimeout`/`RestRejected`/`RestRead` (the padding, and
`TakeSlot`). `set_error` is `FailWithError`, with its `disconnect()`, and is a part of
every action whose code calls it. The control block is eight words and the model keeps
what the words that were read decide: words a `::recv` did not deliver are zero, as in
the buffer of the code. The process has descriptors `0 .. MaxFd`, handed out lowest
first; 0 is the standard input. `peer` is what the server knows of a socket: its slot.
`waited`, `tries`, `calls`, `cuts`, `skewed` and `given` are there for the properties.
One `::connect` may block for any of `TryTimes` seconds, up to `LongestTry` (`Try`): no
time-out is set for it, so on a host that does not answer it takes as long as the system
tries, often minutes, and the loop takes nothing off its budget for that.

`resolved` is whether the address in `server_addr_` is that of a host: it is set by
every `initConnection`, also by one that changes nothing else (`GetHostByName`), and
without it `::connect` can only be refused. `rcvTimeo` is the receive time-out of each
descriptor: `configSocket` sets it to `WaitStep` for the handshake (138), and
`connect()` to what the program asked for on every receiving socket at the end (279);
a negative one is refused by the system and leaves the other in place. A receive can
time out only where one is set.

A first control block with a missing number of sockets makes the code size its
vectors to 0 and then write slot 0 (`tcpclient.cpp` 184, 216): that is outside of
what C++ defines, the model ends there (`pc = "undefined"`).

### StripedStream and BlockFifo

`SendCall`, `SendUnit`, `SendFails` are `send()`; `ReceiveCall`, `ReceiveUnit`,
`ReceiveFails` are `receive()`. A block has `L` units; `::send` and `::recv` move one
unit per step, so that every division of a block among system calls is covered. Path
`i` leads from sending socket `i` through the server, which returns on receiving
socket `i` what it gets on sending socket `i`, to receiving socket `i`. That is the
server this client is written for; it is not in the repository and is modelled by how
the client uses it. `Break` loses the end of what a path holds and all that is put on
it later. A variable in the code that holds a number of bytes is a number of units
here; the content of a block is its number.

`BlockFifo` has the blocks accepted and the blocks delivered; `StripedStream` maps
`sent` to the blocks given to `send()` (from `started`) and `delivered` to itself.

### TcpSession

`S` is the thread in `sendBinFile`, `R` the one in `receiveToBin`. One step per point
at which the other thread can interfere: the check of `lastError_` (`SendCheck`,
`ReceiveCheck`), the entry into the system call with the socket that the vectors hold
(`SendEnter`, `ReceiveEnter`), its end (`SendIn`, `ReceiveIn`), and for every socket
of a `disconnect()` the `close` (`CloseSlot`) and the `sock = 0` (`ZeroSlot`).
`kind` says what a descriptor of the process is, so that a number can be closed
twice, or closed when it has become the output file. `line` is what a socket has
seen: `"fin"` (the server closed), `"rst"` (reset, not yet reported), `"dead"`
(reported), `"stall"` (nothing comes through). A system call that is under way when
its socket is closed by the other thread stays under way, as it does on Linux.
Standard output and error and the input file are left out: nothing opens or closes
them during a transfer. The blocks `0 .. Blocks-1` are data, the rest terminate blocks.
`AfterSend` and `AfterReceive` are the loops of the application: on an error the
sender goes to the join directly from the file loop, and through the remaining calls
from `send_terminate`. `setup` is the session looked at: duplex or not, with time-outs
or not, and which faults it may meet.

`sendHexFile`/`receiveToHex` and `sendDS8File`/`receiveToDs8` have the same loops
(a ds8 file ends in one terminate block: `Terminates = 1`). A write error of the
output file ends `receiveToHex` early; that is not modelled here.

### BlockFraming

An exchange is one call of a sending function and one of the receiving function that
goes with it: `send_to_tcp_io` and `receive_tcp_io` (`kind = "tcpio"`), `sendData` and
`receiveToData` (`"data"`) or `receiveQuickData` (`"quick"`), `sendBinFile` and
`receiveToBin` (`"bin"`), `sendHexFile` and `receiveToHex` (`"hex"`; `"badHex"` when
the file has something in it that is not a word). One step is one round of a loop. The
sending loops that share a shape are `SendBlock`; they differ in whether the buffer is
cleared before the last block and in what an empty input does (`SendEmptyFile`).
`SendHexBlock` fills a block with words until one cannot be read, and meets the end of
the file a word later when a newline follows the last one (`newline`); a malformed word
is never the end, and the rounds go on with empty blocks (`MaxPipe` bounds them).
`SendTerminate` is a round of `send_terminate`. `TcpIo`, `ReceiveToData`,
`ReceiveQuickData` and `ReceiveToFile` are the rounds of the receivers; `Enlarged` is
the vector of `receiveToData` before `receive_data` is called.

A byte is the number of its exchange and its place in the string, so that a byte that
is lost, repeated, moved, or left over from before shows. A block carries what the
sender's buffer holds behind the data. A file of hex numbers is the words that it
stands for: the program writes and reads them with the same stream operators. The
blocks are in one FIFO, which is what `StripedStream` is proved to implement, and
`Break` loses its end. A second exchange over the same client begins with whatever the
first has left there.

### Chunks

A sending program and a receiving program, each as the examples in `tcpclient.h`
(366-380, 437-450) have it: the first reads a file in portions of `sendBuf` bytes and
gives them to `SendChunks::send_data_block`, once or twice over; the second calls
`receive_data_block` with a buffer of `rcvBuf` bytes, or `receive_sync` (`setup.sync`)
with a vector of a given size. Every `send_need` and every round of `receive_need` is a
step: `SendNeed` puts bytes on the socket of its turn, `ReceiveBlock` is one
`receive()`, which takes `tcpBufSize_` bytes off the socket of its turn or, asked for
less, returns 0. `sendPc` and `rcvPc` say which of them a program is in; the actions
named `...Read` are what the code does with what it has got. `SendBlocks` differs from
`SendChunks` in its constructor only. The server passes on what it gets and ends the
stream with its terminate message (`ServerEnds`). Bytes are numbers below `Base`; a
word is `Word` of them, lowest first, each with its `Weight`, and `ToWord` and `ToNumber`
are `uInt64ToChar8` and `char8ToUint64` (module `Words`). A size fits into a word
(`SizeAssumption`), as it is a `uint64_t` in the code.

### Converters

`Open...`, `...Round` and `Finish` are the beginning, one round of the loop and the
end of the six conversions; `OpenTransfer`, `SendDs8Block` and `ReceiveDs8Block` are
`sendDS8File` and `receiveToDs8` with a server that has its own block size. A transfer does
not look at its reads: after one that fails (`ReadsFail`) the buffer goes out with what it
held before. `files` are
the files there are, each one converted from the last, and `made` says how (by which
operation, with or without an error, whole or cut). The buffer of a conversion is kept
from round to round (`data`), because the last round does not fill it. A write can
fail, and a file can lose its end without anybody noticing (`FinishLosesEnd`), as no
`ofstream` is asked at its end. A size for which the code writes outside of its buffer
ends the model (`op = "undefined"`). `NormalizeBufSize` and the
files of type ds8 (`Ds8`, `BlockOf`, `TerminateBlock`) are operators. Bytes and words are
those of `Words`, and a `DS8WORD` is one word. The files to begin with are of bytes or of
words, and those of type ds8 are well formed (`FilesAssumption`).

### CommandLine and Application

`CommandLine` is what `args.hxx` does with the groups `main` declares (`ShortFlags`,
`LongFlags`, `Groups`): one step per chunk of the line (`ParseLong`, `ParseShort`,
letter by letter, `Positional`, `TerminatorChunk`), then the validators (`Valid`) and
the check of `main` for odd numbers of sockets. A chunk is its number of dashes and its
tokens, so that it can be joined (`-p80`, `--type=hex`), clustered (`-st`) or mistaken
for a value. A sign alone reads as the number 0, as the reader of `args.hxx` only asks
whether the whole text was used. `asked` says what the user meant by the line.

`Application` goes on from there: `StartHandler`, `CopySome`, `CopyStdin` and `Redirect`
are the constructor of `StdInOutHandler`, `OpenFiles`, `OperationFails`, `WriteResult` and
`NeverReturns` the operation, `CloseHandler` the destructor, `Return` the end of `main`.
What comes in through the standard input is copied as it comes (`CopySome`), so that a
program has some of it in `stdin.tmp` while the one before it in the pipeline is still
printing, and has all of it when that one has ended (`CopyStdin`). An operation may stay in
a call that does not return, for one of the reasons in `MayNotReturn`: a transfer whose
reply does not come or whose file does not end, `file_hex_to_ds8` with a block of two words
(its loop reads no word and never meets the end of the file, `tcpclientapp.cpp` 316), or a reader that hangs
itself. `BrokenPipe` is SIGPIPE, from a connection the server has closed or a reader that
has ended: the program is gone and its handler is never destroyed. Up to two
programs run, side by side or as a pipeline, in one directory `dir` of names and inodes:
a file that is removed while another program has it open lives on, one that is opened
by name is whoever's it is by then. `data` is where the bytes of an inode come from. The
operations are kept to what the directory and the streams see of them. No line names
`stdin.tmp` or `stdout.tmp` (`NamesAssumption`): these are the handler's own. A pipe leads
from one program to one other (`ScenariosAssumption`). A set of sources does not tell a part
of some input from the whole; the order in which a copy was emptied and filled again by two
programs is kept only as far as whose data is in it. A user who interrupts a program, and
how much a pipe holds before its writer waits, are left out.

## Runs

| run | instance | shows |
|---|---|---|
| `connect` | 5 kinds of server (one outdated, one whose control blocks may be cut after 1 to 7 words), any of them silent, 2 connects, 5 descriptors, budget 7 s in steps of 5 s, a `::connect` of 0 or 30 s | `TypeOK`, `Wired`, `WaitBudget`, `SlotsReleased`, `LeakBound`; `ConnectReturns` |
| `stream` | 3 sockets, 2 units per block, 4 blocks | `TypeOK`, `InOrder`, `StreamInv`, `ImplementsFifo`; `AllArrive` |
| `session` | 2 data and 2 terminate blocks over 2 duplex sockets with time-outs, a reset or a silence, and a file that may fail; or over 2 + 2 sockets without time-outs and any 2 of close, reset, silence | `NoSilentTruncation`, `OutputFileStaysOpen`, `ErrorClosesAll`, `ImplementsStream`; `SessionEnds`, `TransferCompletes` |
| `framing` | words of 2 bytes, blocks of 4 words, 1 or 2 sockets, 2 exchanges of the 6 kinds, strings of 0 to 10 bytes, buffers of 3 to 18 | `RoundTrip`, `NoOverrun`, `LeftOver`, `MalformedHex`; `ExchangeEnds` |
| `chunks` | words of 4 bytes, 2 files of 0 to 9 bytes, blocks of 1 to 32 bytes, 1 or 2 sockets, portions of 2 to 16 bytes | `SenderStream`, `DeliveredInOrder`, `NothingReceived`, `NeedSpins`; `SendEnds` |
| `convert` | words of 2 bytes, chains of up to 3 files from bin, hex (2 of them malformed) and ds8 files of 0 to 12 bytes, conversions with blocks of 4, 8, 9 bytes, servers with 8 and 16 | `Faithful`, `Ds8WellFormed`, `NoOverrun`, `NoFalseEnd`; `ConversionEnds`, `TransferEnds` |
| `application` | every selection of 11 options; complete lines in several orders and spellings; incomplete and unsound ones; pairs of programs, piped or not | `ReadsAsMeant`, `AcceptedIsComplete`, `OwnInput`, `PrintsResult`, `NothingLeft`; `RunsEnd` |

and five runs that end in a violation, one for each disagreement between the code and
what its comments say (see below). Two of the passing runs check a type invariant:
that of `TcpConnect`, because its proof rests on it, and that of `StripedStream`.

The bounds: two connects are needed for what a failed connect leaves to the next one;
two sockets for everything that depends on the order of slots, two pairs for halves
with an order; a budget of a step and a part lets a loop repeat and run out, with a rest that is not
used; five descriptors
are fewer than two connects of a leaking client want. Three sockets and four blocks
make both threads wrap around, at different times. In a session two sockets let the
threads be on different ones and on the same one, and two faults let both threads fail;
four blocks wrap both around. A path of one block makes the sender wait. A block of
`framing` has room for 4 bytes of data: the lengths are nothing, less than a word, less
than a block, a block, a byte more, two blocks, two blocks and a word; the buffers hold
less than a block, one, one and some data, two, two and a word. Two exchanges are what
leftovers need, and a vector of `receiveToData` that begins with two blocks (ten in the
code) lets a block that was left over end within a word of it. In `chunks` a block is less than a word, a word, a header, and eight words, as in a control
block: all a connected client can have are of this last kind;
files are empty, within a word, whole words, and not; portions are smaller and larger
than all of these. In `convert` a block has room for no data, for two words, or (of a
server) for more; 9 is no multiple of a word; files are empty, fill some words and a part of
one, fill blocks, and go over them; the ds8 file to begin with holds what looks like the end
of a transfer, and a server with other blocks can spoil it before it is converted. Two programs are what it takes to share a file. Nothing in the code
compares counts with other constants, so larger instances repeat the same cases.

Deadlock is not checked where the system may stop: a session, a conversion, an exchange
or a program ends, a stream ends after `MaxBlocks` blocks, a receiver may wait for
bytes that do not come, and a killed process or an undefined access ends the model.

Fairness:

* `TcpConnect` assumes that a call in progress takes the steps that need nobody else:
  a system call that fails or times out by itself returns (`Alone`: `socket()`, a
  refused `::connect`, a receive whose time-out is set); with a host that never answers
  it is the system that gives up. Nothing is assumed of the
  server, which may accept and then say nothing: `ConnectReturns` rests on the time-out
  of the handshake.
* `StripedStream` assumes that a unit that can be moved is moved, and that the receiver
  calls `receive()` again, as the loops do; nothing is assumed about `SendCall`.
* `TcpSession` assumes that each thread runs; a system call that cannot complete has no
  step, so nothing is assumed about the network.
* `BlockFraming` assumes that both functions run until they return; `Chunks`, that both
  programs run, and not that any of their calls fails.
* `Converters` assumes that a conversion goes on; that a file fails or loses its end is
  never assumed.
* `Application` assumes that each program runs (`Run`), and so that standard input, where
  it is not another program, ends some time. Whether an operation returns is left open:
  `NeverReturns` is a step like the others and `hung` a state in which the program stays.
  Nothing is assumed of `CopySome`.

### Where the code and its documentation part

| run | what happens |
|---|---|
| `connect_stdin` | `disconnect()` closes descriptor 0 for every empty slot |
| `connect_error` | a successful `connect()` after a failed one gives a client that refuses to work |
| `session_fin` | `receive()` spins when the server has closed |
| `session_wait` | without time-outs an error of the sender leaves the receiver waiting forever |
| `framing_example` | the documented example gets -2: `receive_tcp_io` wants room for a whole block, and again for the terminate block |

Some properties of the passing runs state other such things as facts:

* `LeakBound`: a socket whose set-up fails is never closed, one for each failed
  `connect()`.
* `LeftOver`: `send_terminate` sends a block for every socket, the receivers stop at
  the first, and with more than one socket the next exchange over the same client
  receives an empty string. `RoundTrip` therefore speaks of exchanges that begin with
  nothing left over (`clean`).
* `MalformedHex`: a hex file with something in it that is not a word is sent as empty
  blocks without end. (A number that is too long, or a sign alone, as the very last thing in
  a file without a newline at its end is read up to the end of the file, and that transfer
  does end; the model's malformed word has something behind it.)
* `NeedSpins`: `receive_need` never returns from a length that the block size does not
  divide. A connected client has blocks of 64 bytes or more (`tcpclient.cpp` 208 takes the
  control block of 64 bytes off `tcpBufSize_`), and the first `receive_need` of
  `ReceiveChunks` and `receive_sync` asks for 16: so with any connected client both hang
  there, and nothing is ever delivered (`NothingReceived`). What these two classes do
  behind the header can only be seen with blocks no larger than it. The instance has such
  blocks too, for the sake of the code that follows; `DeliveredInOrder` says something of
  these alone, and holds over one socket only, or where every call moves one
  block: otherwise the parts of a message leave on different sockets.
* `Faithful` makes exceptions for what a conversion loses: the last block of a ds8 file that does
  not end in a terminate block and the bytes after its last whole word when it becomes
  hex, a hex file from its first malformed word on, and everything when the output is
  the input; and a transfer to a server with other blocks, or one that could not read its
  file, of which nothing is promised. `NoOverrun` needs a block size that `normalizeBufSize` would let through;
  `-b` is not passed through it (`main.cpp` 236).
* `NoFalseEnd`: when `sendDS8File` cannot read its file it sends the block before again, in
  place of what it could not read (`tcpclientapp.cpp` 721). Then no terminate block goes
  out, the receiver goes on waiting, and `f_rcv.get()` (727) with it. What this property
  says is that the receiver takes nothing else for the end, so that the stale blocks are
  never part of a transfer that returns by itself; `TransferEnds` needs the reads.
* `AcceptedIsComplete`: an option whose value was forgotten takes the next option for
  its value; for a host or a file name nothing else notices.
* `PrintsResult`: a send from STDIN without `--type` does not print its result: `main`
  does not pass on the name of the output file (`main.cpp` 202), and `std::cout` is left
  on a buffer that is gone.
* `OwnInput`: programs of one directory that read STDIN share one `stdin.tmp` and may
  work on each other's input. Where each of the others is a neighbour in a pipeline, so
  that one waits for the other, a program may find its input gone, but not that of another
  in its place, with two exceptions. What a program prints before it opens its input, the
  texts of the operation, may already have been copied over its own input by the next one.
  And a neighbour that was killed has not removed the file: a program that had opened it
  before writes its own input over the beginning, and reads the rest of the other's behind.
* `NothingLeft`: a program that is killed by SIGPIPE leaves `stdin.tmp`, and `stdout.tmp` if
  it had one; one whose handler failed leaves `stdout.tmp`.
* `RunsEnd`: a program ends when those before it in its pipeline have ended, unless it is in a
  call of its operation that does not return, for one of the reasons in `MayNotReturn`:
  `MalformedHex` (`tcpclientapp.cpp` 828), `session_fin` (`tcpclient.cpp` 579),
  `session_wait`, the failed read of `NoFalseEnd`, a block of two words. What it says is that
  neither the parser, nor the handler, nor `main` ever adds another reason.

Others were met on the way and have no property: half a control block, cut short by
the receive time-out, is taken for a whole one (`tcpclient.cpp` 151), and its socket
gets slot 0 whatever the server said; a send to a connection that was reset ends the
process by SIGPIPE (`alive` in `TcpSession`, `BrokenPipe` in `Application`) where -1 is
promised (`tcpclient.cpp` 404); descriptor 0 is also
closed when both threads of a transfer run into an error, because the second
`disconnect()` finds only zeros; `send_terminate()` returns a sum of byte counts and
error codes (`tcpclient.cpp` 320-327) where its comment promises -1; a failed look-up
of the host is not reported (`tcpclient.cpp` 96), and `initConnection` with the same
endpoint as before ignores all other settings that are new (104); `send_exit` compares
what the sending sockets took with a block for every socket, so that it reports an
error unless the bundle is duplex (`tcpclientapp.cpp` 902); `compareHexFiles` stops at the
end of the shorter file, so that one which lost its end passes (`tcpclientapp.cpp` 158); the first example of
`app/client-app/README.md` (72) has no `--n_sockets`, without which the line is
refused; its "Default is 12340" for the port (15) cannot apply, the option being
required.

## Proofs

Eight modules hold proofs: one with what two of the others need of `Words`, and seven that
are each about one component, for all values of its constants under the assumption stated
with them.

`StripedStreamProofs`, for every number of sockets `N > 0`, every block size `L > 0`
and every `MaxBlocks` (`StreamAssumption`; `MaxBlocks` only bounds how much is sent):

* `TypeCorrect`, `PathsAgree`, `BlocksInOrder`: `Spec => []TypeOK`, `[]StreamInv`,
  `[]InOrder`;
* `Refinement`: `Spec => ImplementsFifo`.

`InOrder` is not inductive: it says nothing of what is under way. `StreamInv` adds for
each path (`PathInv`) that the units on it follow each other (`Succ`), that the first
is what the receiver will want from that path next (`NextOut`), that the last is
followed by what the sender will put on it next (`NextIn`), and that the two are equal
when the path is empty. `NextIn` and `NextOut` are computed from a thread's counters
by the number of turns to the path (`Turns`): the lemmas about `Turns` carry the
argument that turning once changes them for the one path whose call begins, and for no
other. After an error the two threads need not agree any more and the conditions lapse
(`Sending`, `Receiving`), but what has been delivered stays in order. The theorem has
one step for each action; the refinement maps `SendCall` to `Accept`, the `ReceiveUnit`
that completes a block to `Deliver`, and everything else to a stutter.

`TcpConnectProofs`, for every set of servers, endpoints and time-outs, every number of
descriptors and calls, every budget and every step greater than 0
(`ConnectAssumption`; the bundles come in pairs unless they are duplex):

* `TypeCorrect`, `BudgetKept`, `SlotsAreReleased`, `WiredAsAnnounced`:
  `Spec => []TypeOK`, `[]WaitBudget`, `[]SlotsReleased`, `[]Wired`; `WaitBudget` counts the
  time in `::connect` apart, by the number of tries;
* `LeaksAreBounded`: `Spec => []LeakBound`.

The invariant `IInv` adds to these what holds during a call. `BudgetInv`: what may
still be waited for is paid for by `secLeft`, but for `LongestTry` a try, and every try
but the last has cost a step. `SlotInv`: the slots are empty until the
first socket has its own, which is why the `disconnect()` of an early failure may leave
them. `WireInv`, as long as no control block was cut short: as many slots are done as
sockets were set up, each of them `InPlace` (the socket in it is open, is not the one in
hand, is the one the server put there, and is in the half or halves it belongs to), so
that when the count reaches the number announced, all are.

`LeakBound` is not inductive for two reasons. A socket can get descriptor 0, once
`disconnect()` has closed that for an empty slot, and then a slot that is 0 does not say
whether it is filled; and a socket whose control block was cut short sits in a slot that
is another's, who will displace it. `LeakInv` therefore says that there is a set `H` of
slots that are really filled for which the books are in order: the sockets that are in
none of them (`Lost`) and the filled slots whose owner is still to come together are no
more than the failures and cuts so far.

`TcpSessionProofs`, for every number of sockets, data and terminate blocks, every
capacity of a path and every kind of session (`SessionAssumption`):

* `FileStaysOpen`, `AllClosed`: `Spec => []OutputFileStaysOpen`, `[]ErrorClosesAll`;
* `SessionRefines`: `Spec => ImplementsStream`, and `TransferIsWhole`:
  `Spec => []NoSilentTruncation`.

The code takes no lock in `disconnect()`. `CloseInv` says what the order of its two
statements guarantees all the same: a slot is zeroed only after its socket is closed,
whoever closed it; a thread leaves only zeros behind it; and once an error is on record
either some thread is still at it or every slot is zero. `FileInv` handles the one case
in which the output file gets the number of a socket: the sender has closed that socket
(`Early`), the receiver has seen the error and does no more than to close its file, and
the sender, which goes through the slots once, does not come to that number again.

`ImplementsStream` maps two clients that move whole blocks, close each other's sockets
and go through the loops of the application to one `StripedStream` of blocks of one unit
(`Units`, `Begun`, `Delivered`, `RcvFailed` in `TcpSession`). `MapInv` is what the
mapping needs: a thread that is in a system call is on the socket of its turn, a block is
counted once between the call that takes it and the return, what is on a path that can
still be read is what was put on it, and a thread that has seen an error puts or takes
nothing more. With it every step is one of `StripedStream` or a stutter, and an instance
of `StripedStreamProofs` through the mapping hands on its invariant: the blocks arrive
in order. `TransferIsWhole` then follows, as the receiving loop is left without an error
only at a terminate block, before which all data blocks have come.

`BlockFramingProofs`, for every size of a word, every block of four words or more, every
number of sockets, all kinds of exchange, strings of any length, any buffer and any
number of exchanges (`FramingAssumption`):

* `RoundTrips`, `NoBufferOverrun`, `LeftOverKnown`, `MalformedHexNeverEnds`:
  `Spec => []RoundTrip`, `[]NoOverrun`, `[]LeftOver`, `[]MalformedHex`.

These speak of the end of an exchange or of the receiver alone. `FlowInv` says what is
under way: data blocks first, each with its place in the string (`Covers`), so that the
first begins where the receiver has got to, each where the one before it ends, and the
last ends where the sender has got to; behind them terminate blocks, as many as there are
sockets, less those received and those still to be sent. `SendInv` says that a block which is
not full ends the string, and that for strings of whole words the sender is always at
the beginning of a word; from that and the lemma `RoundUpIs` the receivers that count
words (`receiveToData`, `receiveToHex`, `receiveQuickData`) lose nothing and add
nothing. The proof found one claim of `NoOverrun` that only held for the sizes then
checked: `pDataChar` and `rcvDataSize * 8` are at the same place only where no block was
left over, and the property now says so. The offset stays within the vector either way.

`ChunksProofs`, for any number and size of files, words and bytes of any size, portions,
buffers and blocks of any size, any number of sockets, files shorter than announced and
vectors of any size (`ChunksAssumption`, `SizeAssumption`):

* `SendsTheMessages`, `DeliversInOrder`: `Spec => []SenderStream`, `[]DeliveredInOrder`;
* `SpinsForEver`: `Spec => NeedSpins`;
* `NothingIsReceived`: `Spec => []NothingReceived`.

The first two compare what a program has with whole files, and no step sees more than a piece
of one. The invariant places both programs in one stream of bytes. `StreamInv` says that
what was sent is `Messages` as far as it goes, and then a message of the server;
`SendInv`, for each place of the sender, how far into the message under way that is, as
`needBytesSend_`, the portion and the rest of the file tell. The receiver is at byte `t`,
in message `m`. `Place` says for each `receive_need` where it began, that its buffer is
what the stream has from there to `t`, that what it still wants (`stay`, `needRcv`) leads
exactly to the next place, and how much of the files the program has by then (`Got`).
`WireInv` says that the sockets hold what lies between `t` and the sender. Over several
sockets it is there in blocks of two words, one in turn on each (`PathInv`, with the turns
counted from the receiver by `Turns`), and only the last of them may be short, when a file
ends early or the server has sent its message. A header that is read at the beginning of
message `m` is therefore the one that was sent for that file, and `dataSize_` its size
(`HeaderIsRead`, from `WordIs`: a number survives `ToWord` and
`ToNumber`). An error loses
the place in the stream, but leads to nothing that is given to the program.
`SpinsForEver` holds over any sockets, in order or not, and needs only that no
`receive_need` asks for less than nothing (`NeedInv`). `NothingIsReceived` is what a
connected client has of it: with a block larger than a header the receiver is in the
`receive_need` it begins with until an error ends it (`StuckInv`).

What is a sum of digits or a concatenation of any number of messages is a recursive
function here, and its values are proved from the well-foundedness of the numbers:
`WordsProofs` shows that a function that is defined by recursion exists (`Recursion`,
`UpTo`), and with that `WeightIs`, `WordIs` and `FlattenIs` say what these three are, byte
by byte.

`ConvertersProofs`, for any files to begin with, words, bytes, buffers and blocks of any
size, any number of sockets and any length of the chain (`WordsAssumption`,
`ConvertersAssumption`, `FilesAssumption`; a byte has more than 32 values, and a block size
fits into a word):

* `WordsAreKept`, `MakesWellFormed`, `StaysInBuffers`:
  `Spec => []Faithful`, `[]Ds8WellFormed`, `[]NoOverrun`.

`Faithful` compares the last file of a chain with the first, and looks at nothing in
between. Two preorders on payloads make it inductive. A payload is `From` another if it
has only bytes of that in their places, up to a last word that is not complete; it `Keeps`
the other if it is the same, or that without its last part of a word, or with that word
filled. `FilesInv` says of every file that it is `From` the first, that it `Keeps` it where
nothing failed, and that its blocks are full of data but the last. Each conversion has its
own description of how far it has got (`ProgressInv`): how much of the input is in the
output, block by block, and what the buffer still holds of the round before (`data`),
with which the last word of a hex file and the last block of a ds8 file are filled. That
an output which a failure or a lost end cuts short is still `From` the input is `Partial`,
that a finished one `Keeps` it is `Entire`, and `ReturnKeeps` hands both on along the
chain. In a transfer
`TransferInv` says which blocks of the file are on which socket: to socket `s` go the
blocks `Turn(k, s)`, of which so many have been sent and so many received (`ShareOf`), so
that the receiver, taking them in turn, gets the next block of the file until the
terminate block. All this holds as long as the file can be read (`input = Source.data`): of
the order after that nothing is known. `NoOverrun` rests on `NormalIs`: a size that `normalizeBufSize` lets
through is a multiple of a word and has room for three. TLC found the invariant to hold
on the instance of `convert` before it was proved.

`ApplicationProofs`, for any number of programs, any command lines in which the two names
of the handler do not occur (`NamesAssumption`, `ScenariosAssumption`), any pipes between
the programs, and with or without a file of an earlier run:

* `ReadsItsInput`, `ShowsItsResult`, `LeavesNothing`: `Spec => []OwnInput`,
  `[]PrintsResult`, `[]NothingLeft`;
* `AcceptsOneCommand`: `Spec => []OneCommand`, the part of `AcceptedIsComplete` that does
  not depend on what the user meant.

The first three speak of a program that has read, or has ended, and not of how the others
got there. The programs know each other only by two names in a directory, and anyone may remove the
file behind a name or create another. `InodeInv` and `ResultInv` say which inodes can be
reached by which name, so that what is done to `stdin.tmp` does not touch an output file,
nor the other way round. `MixInv` says whose input can be in `stdin.tmp`: that of programs
which have copied of theirs and have yet to remove the file, the hung and the killed among
them; where nobody else uses it that is one's own (`SoleInv`). In a pipeline a program has
all of its input only when those before it have ended (`FedInv`), so that of two neighbours
that were not killed one has no more from the other than the texts that one has printed by
then (`BesideInv`); there a pipe must lead from one program to one other.
`StaleInv`, `CoutInv`, `OutputInv` and `ShownInv` follow `stdout.tmp`, the result in it and
the buffer of `std::cout` from the constructor of the handler to the exit of the program;
`LeftInv` says who still has a file to remove. That no option can bring one of the two
names into play by the way it is written is a matter of the parser: by `ParseKeeps` it
stores nothing but pieces of the line, whichever option takes which chunk. The proof found
that the alternatives of `PrintsResult` once overlapped, where the handler had failed to
start and the operation still had made its file; they are ordered now.

`AcceptsOneCommand` rests on what the validators of the nested groups amount to: `MatchedIs`
shows that the groups can be asked one after the other, the one inside another first, and
`ValidIs` that a set of flags all of them accept has what one of the two commands requires,
and nothing the other requires. No step changes the flags of a line that was accepted
(`Validated`).

Only model-checked:

* `NoFalseEnd` of `Converters`;
* liveness (`ConnectReturns`, `AllArrive`, `SessionEnds`, `TransferCompletes`,
  `ExchangeEnds`, `SendEnds`, `ConversionEnds`, `TransferEnds`,
  `RunsEnd`), which is outside of what the prover does;
* `ReadsAsMeant` and the second half of `AcceptedIsComplete` of `CommandLine`: they compare
  the parser with `asked`, what the user meant, and that is a part of the instance.

## Not modelled

* Timing, statistics, formatting of messages, help texts: nothing depends on them.
* Buffer sizes of the sockets, delays between blocks, the Windows branches.
* The rest of the vendored argument parser: completion, positional arguments, lists,
  commands with children. The application has none of them.
* `send_exit` with its `disconnect`, `connect` and `send_terminate_exit` in a row:
  `TcpConnect` covers the connection, `BlockFraming` the terminate blocks.
* The OSSIM image stream client: an unfinished client of another protocol on top of an
  imaging library that is not in the repository; `execute()` is a stub.
* Build files and the start script.

## Plan

Done: `TcpConnect`, `StripedStream`, `BlockFifo`, `TcpSession`, `BlockFraming`,
`Words`, `Chunks`, `Converters`, `CommandLine`, `Application`, and the proofs above. To
come, in order of importance:

1. A definition of what a line means, for any line, and `ReadsAsMeant` from it.
2. `connectToServer` and `open` of the OSSIM stream client.
