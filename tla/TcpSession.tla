----------------------------- MODULE TcpSession -----------------------------
(***************************************************************************)
(* A whole transfer of TCPClientApp over a connected TCPClient: the thread *)
(* of sendBinFile sends the blocks of a file and then the terminate        *)
(* blocks, a second thread started with std::async runs receiveToBin and   *)
(* writes what comes back to the output file.  Both use one TCPClient with *)
(* no lock: lastError_, the slots of sockfd_ that disconnect() closes, and *)
(* sockfd_send_ and sockfd_rcv_, which keep their values when it does.     *)
(*                                                                         *)
(* Blocks are moved whole here (StripedStream divides them).  Path i leads *)
(* from sending socket i through the server to receiving socket i and      *)
(* holds at most Cap blocks.  The first Blocks blocks are data.            *)
(***************************************************************************)
EXTENDS Integers, Sequences

CONSTANTS
  N,            \* sockfd_send_.size(), which is sockfd_rcv_.size()
  Blocks,       \* data blocks in the file
  Terminates,   \* terminate blocks: N in send_terminate, 1 in a ds8 file
  Cap,          \* blocks that fit between the two threads on one path
  Setups        \* the sessions to look at: records [duplex, timeOut,
                \* fileMayFail, faults, maxFaults]

AllFaults == {"fin", "rst", "stall"}

ASSUME SessionAssumption ==
  /\ N \in Nat \ {0} /\ Blocks \in Nat /\ Terminates \in Nat \ {0}
  /\ Cap \in Nat \ {0}
  /\ Setups \subseteq [duplex : BOOLEAN, timeOut : BOOLEAN,
                       fileMayFail : BOOLEAN, faults : SUBSET AllFaults,
                       maxFaults : Nat]

VARIABLES
  setup,        \* the session this is, one of Setups
  \* the client object
  lastError,    \* lastError_ # 0
  sockfd,       \* connection_.sockfd_
  iSocketSend,  \* connection_.iSocketSend_
  iSocketRcv,   \* connection_.iSocketRcv_
  \* the two threads
  pc,           \* where each of them is
  idx,          \* idxSocket of its send() or receive()
  slot,         \* where its disconnect() has got to
  asked,        \* send() calls that have returned
  started,      \* send() calls that went on to ::send
  received,     \* the blocks that receive() has returned
  rcvEnd,       \* how receiveToBin ended
  fileFd,       \* descriptor of the output file
  \* the process and the network
  alive,        \* the process has not been killed by a signal
  kind,         \* what each descriptor is
  line,         \* what has become of the connection of each socket
  wire,         \* the blocks on each path
  cut,          \* paths that take nothing any more
  faults        \* sockets to which something has happened

sender == <<asked, started, iSocketSend>>
output == <<received, rcvEnd, fileFd>>
net    == <<line, wire, cut, faults>>
vars == <<setup, lastError, sockfd, iSocketRcv, pc, idx, slot, sender, output,
          alive, kind, net>>

S == "sender"
R == "receiver"
Thread == {S, R}
Path   == 0 .. N - 1

(* connectionInfo_.isDuplexSockets_, connectionInfo_.timeOut_ > 0, whether *)
(* the output file may turn out not to be creatable, what may happen to a  *)
(* connection, and the bound on how many sockets it happens to.            *)
Duplex      == setup.duplex
TimeOut     == setup.timeOut
FileMayFail == setup.fileMayFail
Faults      == setup.faults
MaxFaults   == setup.maxFaults

Count  == IF Duplex THEN N ELSE 2 * N   \* sockfd_.size()
Stdin  == 0
Fd     == Stdin .. Count + 1            \* standard input, sockets, output file

(* Calls of send() in a transfer.                                          *)
Total == Blocks + Terminates

(* The vectors as connect() leaves them: duplex sockets are in both, else  *)
(* the lower half of the bundle sends and the upper half receives.         *)
Bundle       == [i \in 0 .. Count - 1 |-> i + 1]
sockfdSend   == [i \in Path |-> Bundle[i]]
sockfdRcv    == [i \in Path |-> Bundle[i + Count - N]]
Ends(fd)     == {i \in Path : fd \in {sockfdSend[i], sockfdRcv[i]}}

(* The socket after socket i, as send() and receive() count.               *)
Turn(i) == IF i + 1 = N THEN 0 ELSE i + 1

InSend  == pc[S] \in {"call", "in"}
InRcv   == pc[R] \in {"call", "in"}

Init ==
  /\ setup \in Setups
  /\ lastError = FALSE
  /\ sockfd = Bundle /\ iSocketSend = 0 /\ iSocketRcv = 0
  /\ pc = [t \in Thread |-> IF t = S THEN "check" ELSE "open"]
  /\ idx = [t \in Thread |-> 0] /\ slot = [t \in Thread |-> 0]
  /\ asked = 0 /\ started = 0
  /\ received = <<>> /\ rcvEnd = "none" /\ fileFd = Stdin
  /\ alive = TRUE
  /\ kind = [fd \in Fd |-> CASE fd = Stdin -> "stdin"
                             [] fd \in 1 .. Count -> "socket"
                             [] OTHER -> "free"]
  /\ line = [fd \in 1 .. Count |-> "up"]
  /\ wire = [i \in Path |-> <<>>] /\ cut = {} /\ faults = 0

-----------------------------------------------------------------------------
(* set_error and the disconnect() it calls, by either thread.              *)

Goto(t, place) == pc' = [pc EXCEPT ![t] = place]

(* Fault: set_error forgets to set lastError_.                             *)
FailUnnoticed(t) ==
  /\ Goto(t, "close")
  /\ slot' = [slot EXCEPT ![t] = 0]
  /\ cut' = IF t = S THEN Path
                     ELSE cut \cup {i \in Path : ~(InSend /\ idx[S] = i)}
  /\ UNCHANGED <<lastError, sockfd, iSocketRcv, idx, sender, output, alive,
                 kind, wire, faults>>

(* lastError_ is set first, then the sockets are closed.  A ::send of the  *)
(* other thread that is under way keeps its socket until it is through.    *)
Fail(t) ==
  /\ lastError' = TRUE
  /\ Goto(t, "close")
  /\ slot' = [slot EXCEPT ![t] = 0]
  /\ cut' = IF t = S THEN Path
                     ELSE cut \cup {i \in Path : ~(InSend /\ idx[S] = i)}
  /\ UNCHANGED <<sockfd, iSocketRcv, idx, sender, output, alive, kind, wire,
                 faults>>

(* close(sock): whatever the number stands for by now is closed.           *)
CloseSlot(t) ==
  /\ pc[t] = "close"
  /\ kind' = [kind EXCEPT ![sockfd[slot[t]]] = "free"]
  /\ Goto(t, "zero")
  /\ UNCHANGED <<lastError, sockfd, iSocketRcv, idx, slot, sender, output,
                 alive, net>>

(* Fault: the loop stops one short.                                        *)
ZeroSlotButLast(t) ==
  /\ pc[t] = "zero"
  /\ sockfd' = [sockfd EXCEPT ![slot[t]] = 0]
  /\ slot' = [slot EXCEPT ![t] = @ + 1]
  /\ Goto(t, IF slot[t] + 1 >= Count - 1 THEN "failed" ELSE "close")
  /\ UNCHANGED <<lastError, iSocketRcv, idx, sender, output, alive, kind, net>>

(* sock = 0, and on to the next one.                                       *)
ZeroSlot(t) ==
  /\ pc[t] = "zero"
  /\ sockfd' = [sockfd EXCEPT ![slot[t]] = 0]
  /\ slot' = [slot EXCEPT ![t] = @ + 1]
  /\ Goto(t, IF slot[t] + 1 = Count THEN "failed" ELSE "close")
  /\ UNCHANGED <<lastError, iSocketRcv, idx, sender, output, alive, kind, net>>

-----------------------------------------------------------------------------
(* The sending thread.                                                     *)

(* Fault: a block whose send() failed is sent again.                       *)
AfterSendRetries(ok) ==
  /\ asked' = IF ok THEN asked + 1 ELSE asked
  /\ Goto(S, IF ok /\ asked + 1 = Total THEN "join" ELSE "check")

(* send() has returned, with an error unless ok.  An error ends the loop   *)
(* over the file, send_terminate goes on to its next socket in any case.   *)
(* Either way the thread ends up waiting for the receiver (the future of   *)
(* std::async).                                                            *)
AfterSend(ok) ==
  /\ asked' = asked + 1
  /\ Goto(S, IF (~ok /\ asked < Blocks) \/ asked + 1 = Total
               THEN "join" ELSE "check")

(* send() is entered: -2 if an error is on record, else the next socket.   *)
SendCheck ==
  /\ pc[S] = "check"
  /\ \/ /\ lastError
        /\ AfterSend(FALSE)
        /\ UNCHANGED <<started, iSocketSend, idx>>
     \/ /\ ~lastError
        /\ started' = started + 1
        /\ idx' = [idx EXCEPT ![S] = iSocketSend]
        /\ iSocketSend' = Turn(iSocketSend)
        /\ Goto(S, "call")
        /\ UNCHANGED asked
  /\ UNCHANGED <<lastError, sockfd, iSocketRcv, slot, output, alive, kind, net>>

(* ::send on sockfd_send_[idxSocket], which may have been closed by now    *)
(* (EBADF), or be another file (ENOTSOCK).                                 *)
SendEnter ==
  /\ pc[S] = "call"
  /\ \/ /\ kind[sockfdSend[idx[S]]] = "socket"
        /\ Goto(S, "in")
        /\ UNCHANGED <<lastError, sockfd, iSocketRcv, idx, slot, sender, output,
                       alive, kind, net>>
     \/ /\ kind[sockfdSend[idx[S]]] # "socket"
        /\ Fail(S)
        /\ UNCHANGED line

(* Inside ::send.                                                          *)
SendIn ==
  LET i == idx[S]
      fd == sockfdSend[i]
  IN /\ pc[S] = "in"
     /\ \/ /\ line[fd] \in {"up", "stall"}      \* it is taken
           /\ \/ /\ i \notin cut /\ Len(wire[i]) < Cap
                 /\ wire' = [wire EXCEPT ![i] = Append(@, started - 1)]
              \/ /\ i \in cut
                 /\ UNCHANGED wire
           /\ AfterSend(TRUE)
           /\ UNCHANGED <<lastError, sockfd, iSocketRcv, idx, slot, started,
                          iSocketSend, output, alive, kind, line, cut, faults>>
        \/ /\ line[fd] = "fin"                  \* taken, answered by a reset
           /\ line' = [line EXCEPT ![fd] = "dead"]
           /\ AfterSend(TRUE)
           /\ UNCHANGED <<lastError, sockfd, iSocketRcv, idx, slot, started,
                          iSocketSend, output, alive, kind, wire, cut, faults>>
        \/ /\ line[fd] = "rst"                  \* ECONNRESET, once
           /\ line' = [line EXCEPT ![fd] = "dead"]
           /\ Fail(S)
        \/ /\ line[fd] = "dead"                 \* EPIPE, with SIGPIPE
           /\ alive' = FALSE
           /\ UNCHANGED <<lastError, sockfd, iSocketRcv, pc, idx, slot, sender,
                          output, kind, net>>
        \/ /\ TimeOut                           \* EAGAIN after timeOut_
           /\ line[fd] \in {"up", "stall"} /\ i \notin cut /\ Len(wire[i]) = Cap
           /\ Fail(S)
           /\ UNCHANGED line

(* send() returns -1.                                                      *)
SendFailed ==
  /\ pc[S] = "failed"
  /\ AfterSend(FALSE)
  /\ UNCHANGED <<lastError, sockfd, iSocketRcv, idx, slot, started, iSocketSend,
                 output, alive, kind, net>>

(* f_rcv.get(), or the destructor of f_rcv: wait for the other thread.     *)
Join ==
  /\ pc[S] = "join" /\ pc[R] = "done"
  /\ Goto(S, "done")
  /\ UNCHANGED <<lastError, sockfd, iSocketRcv, idx, slot, sender, output,
                 alive, kind, net>>

-----------------------------------------------------------------------------
(* The receiving thread.                                                   *)

(* The output file gets the lowest descriptor that is free.                *)
OpenFile ==
  /\ pc[R] = "open"
  /\ \/ /\ FileMayFail
        /\ Goto(R, "done") /\ rcvEnd' = "noFile"
        /\ UNCHANGED <<fileFd, kind>>
     \/ /\ \E fd \in Fd :
             /\ kind[fd] = "free"
             /\ \A g \in Fd : kind[g] = "free" => fd <= g
             /\ fileFd' = fd
             /\ kind' = [kind EXCEPT ![fd] = "file"]
        /\ Goto(R, "check")
        /\ UNCHANGED rcvEnd
  /\ UNCHANGED <<lastError, sockfd, iSocketRcv, idx, slot, sender, received,
                 alive, net>>

(* Fault: receive() does not ask for an error on record.                   *)
ReceiveUnchecked ==
  /\ pc[R] = "check"
  /\ idx' = [idx EXCEPT ![R] = iSocketRcv]
  /\ iSocketRcv' = Turn(iSocketRcv)
  /\ Goto(R, "call")
  /\ UNCHANGED <<lastError, sockfd, slot, sender, output, alive, kind, net>>

(* receive() is entered: -2 if an error is on record, else the next socket. *)
ReceiveCheck ==
  /\ pc[R] = "check"
  /\ \/ /\ lastError
        /\ Goto(R, "finish") /\ rcvEnd' = "error"
        /\ UNCHANGED <<iSocketRcv, idx>>
     \/ /\ ~lastError
        /\ idx' = [idx EXCEPT ![R] = iSocketRcv]
        /\ iSocketRcv' = Turn(iSocketRcv)
        /\ Goto(R, "call")
        /\ UNCHANGED rcvEnd
  /\ UNCHANGED <<lastError, sockfd, slot, sender, received, fileFd, alive, kind,
                 net>>

(* ::recv on sockfd_rcv_[idxSocketRcv].                                    *)
ReceiveEnter ==
  /\ pc[R] = "call"
  /\ \/ /\ kind[sockfdRcv[idx[R]]] = "socket"
        /\ Goto(R, "in")
        /\ UNCHANGED <<lastError, sockfd, iSocketRcv, idx, slot, sender, output,
                       alive, kind, net>>
     \/ /\ kind[sockfdRcv[idx[R]]] # "socket"
        /\ Fail(R)
        /\ UNCHANGED line

(* Fault: a terminate block is not looked for.                             *)
AfterReceiveNoTerminate(b) ==
  /\ received' = Append(received, b)
  /\ Goto(R, "check")
  /\ UNCHANGED rcvEnd

(* receive() has returned block b: data is written to the file, the first  *)
(* terminate ends the loop.                                                *)
AfterReceive(b) ==
  /\ received' = Append(received, b)
  /\ \/ /\ b < Blocks
        /\ Goto(R, "check")
        /\ UNCHANGED rcvEnd
     \/ /\ b >= Blocks
        /\ Goto(R, "finish") /\ rcvEnd' = "terminate"

(* Inside ::recv.  A zero from it (the other end has closed) only sends    *)
(* the loop of receive() into ::recv again.                                *)
ReceiveIn ==
  LET i == idx[R]
      fd == sockfdRcv[i]
  IN /\ pc[R] = "in"
     /\ \/ /\ line[fd] # "stall" /\ wire[i] # <<>>
           /\ wire' = [wire EXCEPT ![i] = Tail(@)]
           /\ AfterReceive(Head(wire[i]))
           /\ UNCHANGED <<lastError, sockfd, iSocketRcv, idx, slot, sender,
                          fileFd, alive, kind, line, cut, faults>>
        \/ /\ line[fd] \in {"fin", "dead"} /\ wire[i] = <<>>
           /\ Goto(R, "call")
           /\ UNCHANGED <<lastError, sockfd, iSocketRcv, idx, slot, sender,
                          output, alive, kind, net>>
        \/ /\ line[fd] = "rst" /\ wire[i] = <<>>
           /\ line' = [line EXCEPT ![fd] = "dead"]
           /\ Fail(R)
        \/ /\ TimeOut
           /\ line[fd] = "stall" \/ (line[fd] = "up" /\ wire[i] = <<>>)
           /\ Fail(R)
           /\ UNCHANGED line

(* receive() returns -1 and receiveToBin leaves its loop.                  *)
ReceiveFailed ==
  /\ pc[R] = "failed"
  /\ Goto(R, "finish") /\ rcvEnd' = "error"
  /\ UNCHANGED <<lastError, sockfd, iSocketRcv, idx, slot, sender, received,
                 fileFd, alive, kind, net>>

(* ofs.close()                                                             *)
CloseFile ==
  /\ pc[R] = "finish"
  /\ kind' = [kind EXCEPT ![fileFd] = "free"]
  /\ Goto(R, "done")
  /\ UNCHANGED <<lastError, sockfd, iSocketRcv, idx, slot, sender, output,
                 alive, net>>

-----------------------------------------------------------------------------
(* Something happens to the connection of socket fd: the server closes it, *)
(* it is reset, or nothing comes through any more.  What was under way may *)
(* be lost from some place on.                                             *)
Fault(fd) ==
  /\ faults < MaxFaults /\ line[fd] = "up"
  /\ faults' = faults + 1
  /\ \E f \in Faults :
       /\ line' = [line EXCEPT ![fd] = f]
       /\ \/ /\ f = "stall"
             /\ UNCHANGED <<wire, cut>>
          \/ /\ f # "stall"
             /\ cut' = cut \cup Ends(fd)
             /\ \E i \in Ends(fd) : \E k \in 0 .. Len(wire[i]) :
                  wire' = [wire EXCEPT ![i] = SubSeq(@, 1, k)]
  /\ UNCHANGED <<lastError, sockfd, iSocketRcv, pc, idx, slot, sender, output,
                 alive, kind>>

SenderStep ==
  /\ alive
  /\ \/ SendCheck \/ SendEnter \/ SendIn \/ SendFailed \/ Join
     \/ CloseSlot(S) \/ ZeroSlot(S)
  /\ UNCHANGED setup

ReceiverStep ==
  /\ alive
  /\ \/ OpenFile \/ ReceiveCheck \/ ReceiveEnter \/ ReceiveIn
     \/ ReceiveFailed \/ CloseFile \/ CloseSlot(R) \/ ZeroSlot(R)
  /\ UNCHANGED setup

FaultStep ==
  /\ alive
  /\ \E fd \in 1 .. Count : Fault(fd)
  /\ UNCHANGED setup

Next == SenderStep \/ ReceiverStep \/ FaultStep

(* Each thread runs: it is a thread of the operating system, and waits     *)
(* only in ::send, in ::recv and for the other thread.                     *)
Spec == Init /\ [][Next]_vars /\ WF_vars(SenderStep) /\ WF_vars(ReceiverStep)

-----------------------------------------------------------------------------
(* A transfer is never cut short unnoticed: when receiveToBin is through,  *)
(* it has written every block of the file or there is an error on record   *)
(* (receiveToBin 1026-1037, receive 552-591, set_error 770-780).           *)
NoSilentTruncation ==
  pc[R] = "done" /\ rcvEnd # "noFile" =>
    \/ received = [k \in 1 .. Blocks + 1 |-> k - 1]
    \/ rcvEnd = "error" /\ lastError

(* Whatever the other thread closes, it is not the output file, even if    *)
(* the file has the number of a socket that has just been closed: an error *)
(* is on record before the first socket is closed (set_error 772-779), so  *)
(* the receiver does not get as far as a disconnect() of its own.          *)
OutputFileStaysOpen ==
  pc[R] \notin {"open", "done"} => kind[fileFd] = "file"

(* After an error all sockets of the bundle are closed when the threads    *)
(* have come together, whichever of them closed which (disconnect 290-304). *)
ErrorClosesAll ==
  pc[S] = "done" /\ lastError => \A fd \in Fd : kind[fd] # "socket"

(* With timeOut_ set every transfer comes to an end: whatever is reset or  *)
(* goes silent, both threads get out of their system calls and the sender  *)
(* finds the receiver finished (send 402-411, receive 566-578, the future  *)
(* of std::async).                                                         *)
SessionEnds == TimeOut => <>(pc[S] = "done" \/ ~alive)

(* While nothing happens to the connection or to the output file the       *)
(* transfer needs no time-out to end: although either thread waits on one  *)
(* socket at a time, and a path may hold one block only, the receiver gets *)
(* to the terminate block and the sender to the join (sendBinFile 767-792, *)
(* receiveToBin).                                                          *)
TransferCompletes ==
  ~TimeOut =>
    <>((pc[S] = "done" /\ rcvEnd = "terminate") \/ rcvEnd = "noFile"
         \/ faults > 0)

(* The client in a session is a StripedStream of whole blocks: the races   *)
(* of two disconnect()s and of what either thread still does after one add *)
(* nothing to what that module allows.  A receive() that has failed began, *)
(* although no block came of it; one that returned -2 did not begin.       *)
Unit(b)      == [blk |-> b, off |-> 1]
Units(s)     == [k \in DOMAIN s |-> Unit(s[k])]
RcvFailed    == \/ pc[R] \in {"close", "zero", "failed"}
                \/ rcvEnd = "error" /\ slot[R] = Count
Begun        == Len(received) + (IF InRcv \/ RcvFailed THEN 1 ELSE 0)
Delivered    == [k \in DOMAIN received |-> <<Unit(received[k])>>]
UnitsOnWire  == [i \in Path |-> Units(wire[i])]
Stream == INSTANCE StripedStream WITH
  L          <- 1,
  MaxBlocks  <- Total,
  inSend     <- InSend,
  sendSocket <- idx[S],
  bytesSent  <- 0,
  begun      <- Begun,
  inRcv      <- InRcv,
  rcvSocket  <- idx[R],
  buffer     <- <<>>,
  delivered  <- Delivered,
  wire       <- UnitsOnWire,
  broken     <- cut
ImplementsStream == Stream!Spec

-----------------------------------------------------------------------------
(* tcp_client_library.md:510, tcpclient.h:257 receive() returns "-1 - if   *)
(* error, else counter of the received bytes": it returns.                 *)
ReceiveReturns == InRcv ~> (~InRcv \/ ~alive)

(* tcpclient.h:257 receive() returns -1 "if error": an error of the other  *)
(* thread, whose disconnect() has closed the socket, gets it to return.    *)
ErrorReachesReceiver == lastError ~> (~InRcv \/ ~alive)
=============================================================================
