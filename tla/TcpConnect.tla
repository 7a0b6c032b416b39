----------------------------- MODULE TcpConnect -----------------------------
(***************************************************************************)
(* How a TCPClient gets and gives up its connection: initConnection,       *)
(* connect with the handshake of configSocket on every socket, set_error   *)
(* and disconnect.  One thread calls them, one call at a time; what        *)
(* interleaves with it is the server and the clock.                        *)
(*                                                                         *)
(* A connection is a bundle of sockets.  On each one the server first      *)
(* sends a control block of eight words:                                   *)
(*   1 size  2 service tag  3 socketconfig tag  4 version                  *)
(*   5 socket ID  6 block size  7 number of sockets  8 duplex flag         *)
(* padded to the block size.  The first block configures the client, and   *)
(* each block says which slot of the bundle its socket takes.              *)
(***************************************************************************)
EXTENDS Integers, FiniteSets

CONSTANTS
  Endpoints,    \* the <host, port> pairs initConnection may be given
  Configs,      \* the servers: what each announces, [n, duplex, current], and
                \* cut: how many words of a control block a recv that times
                \* out may have read
  MaxFd,        \* the largest descriptor number the process may have
  MaxCalls,     \* bound: how often connect() is called
  WaitConnect,  \* connectionInfo_.waitConnect_, seconds
  WaitStep,     \* wait_step_sec: one sleep, one receive timeout
  TryTimes,     \* how long one ::connect may block, seconds, and
  LongestTry,   \* the longest of these: the system decides, not the code
  TimeOuts      \* values of the option --time_out, seconds; 0 is no end

Fd == 0 .. MaxFd
Stdin == 0      \* descriptor 0 is the process's standard input at start
NoFd  == -1     \* what socket() returns when every descriptor is in use
CtrlWords == 8

(* The duplex flag is set or sockets come in send/receive pairs: the       *)
(* command line refuses anything else (client-app/main.cpp:151,182) and    *)
(* the server is started with the same numbers.                            *)
ASSUME ConnectAssumption ==
  /\ Configs \subseteq [n : Nat \ {0}, duplex : BOOLEAN, current : BOOLEAN,
                        cut : SUBSET (1 .. CtrlWords - 1)]
  /\ \A c \in Configs : c.duplex \/ c.n % 2 = 0
  /\ MaxFd \in Nat /\ MaxCalls \in Nat
  /\ WaitConnect \in Nat /\ WaitStep \in Nat \ {0}
  /\ LongestTry \in Nat /\ TryTimes \subseteq 0 .. LongestTry
  /\ TimeOuts \subseteq Int

VARIABLES
  \* the client object
  state,        \* connection_.state_
  endpoint,     \* connectionInfo_.remoteAddress_ and port_
  resolved,     \* server_addr_ is the address of a host
  nSockets,     \* connectionInfo_.nSockets_
  duplex,       \* connectionInfo_.isDuplexSockets_
  timeOut,      \* connectionInfo_.timeOut_
  sockfd,       \* connection_.sockfd_, a function on 0..size-1
  sockfdSend,   \* connection_.sockfd_send_
  sockfdRcv,    \* connection_.sockfd_rcv_
  lastError,    \* lastError_ # 0
  \* the call in progress
  pc,           \* where the call is
  result,       \* what the last call returned
  idx,          \* count_sockets: sockets configured so far
  sock,         \* the socket being set up
  secLeft,      \* sec_left of the loop the call is in
  socketID,     \* out parameter of configSocket
  \* the process and the other end
  open,         \* descriptors that are open
  peer,         \* slot the server gave to the socket of a descriptor
  skewed,       \* sockets whose stream no longer starts at a block
  rcvTimeo,     \* SO_RCVTIMEO of the socket of a descriptor, 0: none
  cfg,          \* what the server announces to this connect()
  given,        \* slots the server has given out to this connect()
  waited,       \* seconds spent waiting for the current socket
  tries,        \* ::connect calls on it
  calls,        \* connect() calls so far
  failures,     \* how many of them returned false
  cuts          \* control blocks that were used although they were cut short

client == <<state, endpoint, resolved, nSockets, duplex, timeOut,
            sockfd, sockfdSend, sockfdRcv, lastError>>
config == <<nSockets, duplex, sockfdSend, sockfdRcv>>
server == <<cfg, given>>
clock  == <<waited, tries>>
history == <<failures, cuts>>
vars == <<client, pc, result, idx, sock, secLeft, socketID, open, peer, skewed,
          rcvTimeo, server, clock, calls, history>>

NoEndpoint == "none"  \* port 0, empty address: a fresh ConnectionInfo
NotSocket  == -2      \* peer of a descriptor that is not a socket
NoPeer     == -1      \* peer of a socket that is not connected

States == {"Undefined", "Initialized", "Connected", "Disconnected"}
InCall == {"socket", "tcp", "control", "rest"}

(* The vectors of the bundle have these sizes (configSocket 184-191).      *)
Sizes     == {0} \cup {c.n : c \in Configs} \cup {c.n \div 2 : c \in Configs}
Vector    == UNION {[0 .. k - 1 -> Fd] : k \in Sizes}
Values(v) == {v[i] : i \in DOMAIN v}
Sockets   == {fd \in open : peer[fd] # NotSocket}

Empty == [i \in 0 .. -1 |-> 0]

(* setTimeout: what recv on these sockets waits for at most.  On anything  *)
(* that is no socket setsockopt fails and that is all.                     *)
SetTimeout(fds, seconds) ==
  rcvTimeo' = [fd \in Fd |->
                 IF fd \in fds \cap Sockets THEN seconds ELSE rcvTimeo[fd]]

(* std::vector::resize(k, 0)                                               *)
Resize(v, k) == [i \in 0 .. k - 1 |-> IF i \in DOMAIN v THEN v[i] ELSE 0]

Init ==
  /\ state = "Undefined" /\ endpoint = NoEndpoint
  /\ resolved = FALSE
  /\ nSockets = 1 /\ duplex = FALSE /\ timeOut = 0
  /\ sockfd = Empty /\ sockfdSend = Empty /\ sockfdRcv = Empty
  /\ lastError = FALSE
  /\ pc = "idle" /\ result = "none"
  /\ idx = 0 /\ sock = 0 /\ secLeft = 0 /\ socketID = 0
  /\ open = {Stdin}
  /\ peer = [fd \in Fd |-> NotSocket]
  /\ skewed = {} /\ rcvTimeo = [fd \in Fd |-> 0]
  /\ cfg \in Configs /\ given = {}
  /\ waited = 0 /\ tries = 0 /\ calls = 0 /\ failures = 0 /\ cuts = 0

-----------------------------------------------------------------------------
(* Fault: the slots keep their descriptors.                                *)
CloseSocketsKeepSlots ==
  /\ open' = open \ Values(sockfd)
  /\ state' = "Disconnected"
  /\ UNCHANGED sockfd

(* Fault: the loop over sockfd_ stops one short.                           *)
CloseSocketsButLast ==
  /\ LET kept == {j \in DOMAIN sockfd : j + 1 \notin DOMAIN sockfd}
     IN open' = open \ {sockfd[i] : i \in DOMAIN sockfd \ kept}
  /\ sockfd' = [i \in DOMAIN sockfd |-> 0]
  /\ state' = "Disconnected"

(* disconnect(): close every entry of sockfd_, also an entry that is 0.    *)
CloseSockets ==
  /\ open' = open \ Values(sockfd)
  /\ sockfd' = [i \in DOMAIN sockfd |-> 0]
  /\ state' = "Disconnected"

Return(value) ==
  /\ pc' = "idle"
  /\ result' = value
  /\ failures' = failures + (IF value = "false" THEN 1 ELSE 0)
  /\ UNCHANGED <<calls, cuts, server>>

(* set_error and "return false": the socket in hand is in no slot yet.     *)
FailWithError ==
  /\ lastError' = TRUE
  /\ CloseSockets
  /\ Return("false")
  /\ UNCHANGED <<endpoint, resolved, config, timeOut, idx, sock, socketID,
                 peer, skewed, rcvTimeo>>

(* getHostByName and inet_addr: a host that is not found is 255.255.255.255*)
GetHostByName == resolved' \in BOOLEAN

(* initConnection(info): info is taken over, and true returned, only when  *)
(* its endpoint is a new one; c holds the number and kind of sockets that  *)
(* the caller asks for, which the first control block overrides, and t its *)
(* time-out.  The address is looked up anew in any case; if that fails it  *)
(* is one that nobody can connect to, and nobody is told.  The code        *)
(* has no guard on the state: a program does not initialise or connect a   *)
(* client that is connected.                                               *)
InitConnection(e, c, t) ==
  /\ pc = "idle" /\ state # "Connected"
  /\ GetHostByName
  /\ \/ /\ endpoint # e
        /\ endpoint' = e /\ nSockets' = c.n /\ duplex' = c.duplex
        /\ timeOut' = t
        /\ state' = "Initialized"
        /\ result' = "true"
     \/ /\ endpoint = e
        /\ result' = "false"
        /\ UNCHANGED <<endpoint, nSockets, duplex, timeOut, state>>
  /\ UNCHANGED <<sockfd, sockfdSend, sockfdRcv, lastError, pc, idx, sock,
                 secLeft, socketID, open, peer, skewed, rcvTimeo, server,
                 clock, calls, history>>

(* disconnect() called by the program, as TCPClientApp::send_exit does.    *)
Disconnect ==
  /\ pc = "idle" /\ state # "Undefined"
  /\ CloseSockets
  /\ result' = "true"
  /\ UNCHANGED <<endpoint, resolved, config, timeOut, lastError, pc, idx, sock,
                 secLeft, socketID, peer, skewed, rcvTimeo, server, clock,
                 calls, history>>

(* connect() is entered.                                                   *)
Connect ==
  /\ pc = "idle" /\ state \in {"Initialized", "Disconnected"}
  /\ calls < MaxCalls
  /\ pc' = "socket" /\ result' = "none"
  /\ idx' = 0 /\ calls' = calls + 1
  /\ cfg' \in Configs /\ given' = {}
  /\ UNCHANGED <<client, sock, secLeft, socketID, open, peer, skewed,
                 rcvTimeo, clock, history>>

(* socket(): the kernel hands out the lowest number that is free.  When    *)
(* none is, connect() goes on with -1, on which ::connect keeps failing.   *)
OpenSocket ==
  /\ pc = "socket"
  /\ \/ \E fd \in Fd \ open :
          /\ \A g \in Fd \ open : fd <= g
          /\ sock' = fd
          /\ open' = open \cup {fd}
          /\ peer' = [peer EXCEPT ![fd] = NoPeer]
          /\ skewed' = skewed \ {fd}
          /\ rcvTimeo' = [rcvTimeo EXCEPT ![fd] = 0]
     \/ /\ open = Fd
        /\ sock' = NoFd
        /\ UNCHANGED <<open, peer, skewed, rcvTimeo>>
  /\ secLeft' = WaitConnect /\ waited' = 0 /\ tries' = 0
  /\ pc' = "tcp"
  /\ UNCHANGED <<client, result, idx, socketID, server, calls, history>>

(* One ::connect.  No time-out is set for it: how long it blocks on a host *)
(* that does not answer is nothing that the budget is charged with.        *)
Try(rest) ==
  /\ tries' = tries + 1
  /\ \E t \in TryTimes : waited' = waited + t + rest

(* Fault: the budget is not looked at.                                     *)
TcpRefusedNoBudget ==
  /\ pc = "tcp"
  /\ secLeft' = secLeft - WaitStep
  /\ Try(WaitStep)
  /\ UNCHANGED <<client, pc, result, idx, sock, socketID, open, peer, skewed,
                 rcvTimeo, server, calls, history>>

(* ::connect fails: sleep and try again while the budget lasts.            *)
TcpRefused ==
  /\ pc = "tcp"
  /\ \/ /\ secLeft >= WaitStep
        /\ secLeft' = secLeft - WaitStep
        /\ Try(WaitStep)
        /\ UNCHANGED <<client, pc, result, idx, sock, socketID, open, peer,
                       skewed, rcvTimeo, server, calls, history>>
     \/ /\ secLeft < WaitStep
        /\ Try(0)
        /\ FailWithError
        /\ UNCHANGED secLeft

(* Fault: the time-out is not set.                                         *)
TcpConnectedPatient ==
  /\ pc = "tcp" /\ sock # NoFd /\ resolved
  /\ \E id \in (0 .. cfg.n - 1) \ given :
       /\ given' = given \cup {id}
       /\ peer' = [peer EXCEPT ![sock] = id]
  /\ pc' = "control"
  /\ Try(0)
  /\ secLeft' = WaitConnect
  /\ UNCHANGED <<client, result, idx, sock, socketID, open, skewed, rcvTimeo,
                 cfg, calls, history>>

(* ::connect succeeds: the server accepts and picks a slot for the socket. *)
(* configSocket begins with the time-out of its receives.                  *)
TcpConnected ==
  /\ pc = "tcp" /\ sock # NoFd /\ resolved
  /\ \E id \in (0 .. cfg.n - 1) \ given :
       /\ given' = given \cup {id}
       /\ peer' = [peer EXCEPT ![sock] = id]
  /\ pc' = "control"
  /\ Try(0)
  /\ secLeft' = WaitConnect
  /\ SetTimeout({sock}, WaitStep)
  /\ UNCHANGED <<client, result, idx, sock, socketID, open, skewed, cfg, calls,
                 history>>

-----------------------------------------------------------------------------
(* Fault: a receive that timed out takes nothing off the budget.           *)
ControlTimeoutUncounted ==
  /\ pc = "control"
  /\ waited' = waited + WaitStep
  /\ UNCHANGED <<client, pc, result, idx, sock, secLeft, socketID, open, peer,
                 skewed, rcvTimeo, server, tries, calls, history>>

(* configSocket.  recv times out with nothing read (rBytes = -1).          *)
ControlTimeout ==
  /\ pc = "control" /\ rcvTimeo[sock] > 0
  /\ waited' = waited + WaitStep /\ UNCHANGED tries
  /\ \/ /\ secLeft >= WaitStep
        /\ secLeft' = secLeft - WaitStep
        /\ UNCHANGED <<client, pc, result, idx, sock, socketID, open, peer,
                       skewed, rcvTimeo, server, calls, history>>
     \/ /\ secLeft < WaitStep
        /\ FailWithError
        /\ UNCHANGED secLeft

(* The server closes, or what it sends is not a control block.             *)
ControlRejected ==
  /\ pc = "control"
  /\ FailWithError
  /\ UNCHANGED <<secLeft, clock>>

(* What configSocket makes of a control block of which it has w words; the *)
(* words it has not read are zero.                                         *)
ReadSlot(w)    == IF w >= 5 THEN peer[sock] ELSE 0
ReadSockets(w) == IF w >= 7 THEN cfg.n ELSE 0
ReadDuplex(w)  == w >= 8 /\ cfg.duplex
VersionOk(w)   == w >= 4 /\ cfg.current

(* The first control block sets the parameters and sizes the vectors.      *)
Configure(w) ==
  LET n == ReadSockets(w)
      k == IF ReadDuplex(w) THEN n ELSE n \div 2
  IN /\ nSockets' = n
     /\ duplex' = ReadDuplex(w)
     /\ sockfd' = Resize(sockfd, n)
     /\ sockfdSend' = Resize(sockfdSend, k)
     /\ sockfdRcv' = Resize(sockfdRcv, k)

(* recv returned w > 0 words.  Fewer than CtrlWords of them end the loop   *)
(* like a complete block does (the loop repeats only on rBytes < 0), after *)
(* taking one step off the budget.                                         *)
ControlRead(w) ==
  /\ pc = "control"
  /\ waited' = waited + (IF w < CtrlWords THEN WaitStep ELSE 0)
  /\ UNCHANGED tries
  /\ \/ /\ w < CtrlWords /\ secLeft < WaitStep  \* no budget: "Error connecting"
        /\ FailWithError
        /\ UNCHANGED secLeft
     \/ /\ w = CtrlWords \/ secLeft >= WaitStep
        /\ secLeft' = secLeft - (IF w < CtrlWords THEN WaitStep ELSE 0)
        /\ \/ /\ w < 3                          \* tags missing
              /\ FailWithError
           \/ /\ w >= 3 /\ idx = 0 /\ ~VersionOk(w)
              /\ Return("false")                \* no set_error on this path
              /\ socketID' = ReadSlot(w)
              /\ UNCHANGED <<client, idx, sock, open, peer, skewed, rcvTimeo>>
           \/ /\ w >= 3 /\ idx = 0 /\ VersionOk(w) /\ w < 7
              /\ pc' = "undefined"              \* sizes read as zero: memory
              /\ UNCHANGED <<client, result, idx, sock, socketID, open, peer,
                             skewed, rcvTimeo, server, calls, history>>
           \/ /\ w >= 3 /\ (idx > 0 \/ (VersionOk(w) /\ w >= 7))
              /\ pc' = "rest"
              /\ socketID' = ReadSlot(w)
              /\ skewed' = skewed \cup (IF w < CtrlWords THEN {sock} ELSE {})
              /\ cuts' = cuts + (IF w < CtrlWords THEN 1 ELSE 0)
              /\ IF idx = 0 THEN Configure(w) ELSE UNCHANGED <<config, sockfd>>
              /\ UNCHANGED <<state, endpoint, resolved, timeOut, lastError,
                             result, idx, sock, open, peer, rcvTimeo, server,
                             calls, failures>>

(* The rest of the block does not come, or not all of it.                  *)
RestMissing ==
  /\ pc = "rest"
  /\ FailWithError
  /\ UNCHANGED secLeft

RestTimeout ==
  /\ RestMissing /\ rcvTimeo[sock] > 0
  /\ waited' = waited + WaitStep /\ UNCHANGED tries

RestRejected == RestMissing /\ UNCHANGED clock

(* Fault: the socket takes the slot of its turn, not the announced one.    *)
TakeSlotOfTurn ==
  LET first == IF duplex THEN 0 ELSE nSockets \div 2
  IN /\ sockfd' = [sockfd EXCEPT ![idx] = sock]
     /\ sockfdSend' = [sockfdSend EXCEPT ![idx] = sock]
     /\ sockfdRcv' = [sockfdRcv EXCEPT ![idx - first] = sock]

(* The socket takes its slot.  EXCEPT leaves a vector alone at an index    *)
(* that is not its own: the lower half of the bundle only sends, the upper *)
(* half only receives, a duplex socket does both.                          *)
TakeSlot ==
  LET first == IF duplex THEN 0 ELSE nSockets \div 2
  IN /\ sockfd' = [sockfd EXCEPT ![socketID] = sock]
     /\ sockfdSend' = [sockfdSend EXCEPT ![socketID] = sock]
     /\ sockfdRcv' = [sockfdRcv EXCEPT ![socketID - first] = sock]

(* The rest of the block is read: the socket takes its slot, and connect   *)
(* goes on to the next socket or is done.  Then the sockets that receive   *)
(* get the time-out that was asked for; a negative one leaves them theirs. *)
RestRead ==
  /\ pc = "rest"
  /\ TakeSlot
  /\ idx' = idx + 1
  /\ \/ /\ idx + 1 \in DOMAIN sockfd
        /\ pc' = "socket"
        /\ UNCHANGED <<state, result, rcvTimeo, calls, server, history>>
     \/ /\ idx + 1 \notin DOMAIN sockfd
        /\ state' = "Connected"
        /\ IF timeOut >= 0 THEN SetTimeout(Values(sockfdRcv'), timeOut)
                           ELSE UNCHANGED rcvTimeo
        /\ Return("true")
  /\ UNCHANGED <<endpoint, resolved, nSockets, duplex, timeOut, lastError,
                 sock, secLeft, socketID, open, peer, skewed, clock>>

-----------------------------------------------------------------------------
(* Steps that need nothing from the server.                                *)
Alone == OpenSocket \/ TcpRefused \/ ControlTimeout \/ RestTimeout

InConnect ==
  \/ Alone \/ TcpConnected
  \/ ControlRejected
  \/ \E w \in cfg.cut \cup {CtrlWords} : ControlRead(w)
  \/ RestRejected \/ RestRead

Next ==
  \/ \E e \in Endpoints, c \in Configs, t \in TimeOuts : InitConnection(e, c, t)
  \/ Connect \/ Disconnect
  \/ InConnect

(* ::connect returns, and a receive for which a time-out is set times out; *)
(* whether a server answers, and what, is its own affair.                  *)
Spec == Init /\ [][Next]_vars
FairSpec == Spec /\ WF_vars(Alone)

-----------------------------------------------------------------------------
(* The variables hold values of their types.                               *)
TypeOK ==
  /\ state \in States /\ endpoint \in Endpoints \cup {NoEndpoint}
  /\ nSockets \in Nat /\ duplex \in BOOLEAN
  /\ resolved \in BOOLEAN /\ timeOut \in TimeOuts \cup {0}
  /\ rcvTimeo \in [Fd -> {0, WaitStep} \cup TimeOuts]
  /\ sockfd \in Vector /\ sockfdSend \in Vector /\ sockfdRcv \in Vector
  /\ lastError \in BOOLEAN
  /\ pc \in InCall \cup {"idle", "undefined"}
  /\ result \in {"none", "true", "false"}
  /\ idx \in Nat /\ sock \in Fd \cup {NoFd}
  /\ secLeft \in Nat /\ socketID \in Nat
  /\ open \subseteq Fd /\ skewed \subseteq Fd
  /\ peer \in [Fd -> Int]
  /\ cfg \in Configs /\ given \subseteq 0 .. cfg.n - 1
  /\ waited \in Nat /\ tries \in Nat /\ calls \in 0 .. MaxCalls
  /\ failures \in Nat /\ cuts \in Nat

(* Once connect() has returned true every slot of the bundle holds an open *)
(* socket, the one to which the server gave that slot, and its stream      *)
(* starts at a block; the send and receive vectors are the same sockets    *)
(* (duplex) or the lower and the upper half of them, and those that receive*)
(* have the time-out the program asked for and not that of the handshake   *)
(* (connect, configSocket, setTimeout).  A control block that a time-out   *)
(* cut short is the exception: what it announced is not what was read.     *)
Wired ==
  state = "Connected" /\ cuts = 0 =>
    /\ DOMAIN sockfd = 0 .. cfg.n - 1
    /\ \A i \in DOMAIN sockfd :
         /\ sockfd[i] \in open \ skewed
         /\ peer[sockfd[i]] = i
    /\ LET k == IF cfg.duplex THEN cfg.n ELSE cfg.n \div 2
       IN /\ DOMAIN sockfdSend = 0 .. k - 1 /\ DOMAIN sockfdRcv = 0 .. k - 1
          /\ \A i \in 0 .. k - 1 :
               /\ sockfdSend[i] = sockfd[i]
               /\ sockfdRcv[i] = sockfd[i + cfg.n - k]
               /\ timeOut >= 0 => rcvTimeo[sockfdRcv[i]] = timeOut

(* For one socket connect() sleeps and waits in receives no longer than the*)
(* budget of the ::connect loop, that of the control block loop and one    *)
(* receive time-out more, and it calls ::connect no more often than the    *)
(* budget has steps, and once more.  Each of these calls may block for as  *)
(* long as the system tries, minutes for a host that is silent, which no   *)
(* budget covers (connect 249-264, configSocket 135-151, 208).             *)
WaitBudget ==
  /\ waited <= 2 * WaitConnect + WaitStep + tries * LongestTry
  /\ tries > 0 => (tries - 1) * WaitStep <= WaitConnect

(* However connect() fails, no slot is left pointing at a socket, so that  *)
(* a later disconnect() cannot close a descriptor the process has reused   *)
(* (set_error calls disconnect, disconnect zeroes every slot).             *)
SlotsReleased ==
  pc = "idle" /\ state # "Connected" => \A i \in DOMAIN sockfd : sockfd[i] = 0

(* A failed connect() leaves at most one socket behind, the one it was     *)
(* setting up, and a control block that was cut short costs at most one    *)
(* more, the one whose slot is taken a second time; everything else that   *)
(* is open is in a slot.                                                   *)
LeakBound ==
  LET inHand == IF pc = "idle" THEN {} ELSE {sock}
  IN Cardinality(Sockets \ (Values(sockfd) \cup inHand)) <= failures + cuts

(* connect() comes to an end, whatever the server does or does not do:     *)
(* it is also right with one that accepts and says nothing (connect 249,   *)
(* configSocket 138).                                                      *)
ConnectReturns == pc \in InCall ~> pc \notin InCall

(* tcpclient.h:213 "Close TCP connection with server": disconnect() closes *)
(* sockets of the connection and nothing else, so standard input stays     *)
(* open.                                                                   *)
StdinStaysOpen == Stdin \in open

(* tcpclient.h:209 connect() returns "true if conect is on": the client    *)
(* can be used, which send() and receive() refuse while lastError_ is set. *)
ConnectedIsUsable == state = "Connected" => ~lastError
=============================================================================
