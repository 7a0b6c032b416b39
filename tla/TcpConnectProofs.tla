-------------------------- MODULE TcpConnectProofs --------------------------
(***************************************************************************)
(* For any servers, any number of descriptors and of calls, and any time   *)
(* budget: connect() tries and waits no more than its budget allows, a     *)
(* bundle that is connected is wired as the server announced it, and one   *)
(* that fails leaves no slot behind.  The argument is one inductive        *)
(* invariant, IInv, in parts for the call, its clock, the slots and the    *)
(* wiring.  What connect() loses track of all the same is bounded by       *)
(* another, LeakInv, which keeps the books of the sockets that are open    *)
(* and in no slot.                                                         *)
(***************************************************************************)
EXTENDS TcpConnect, FiniteSetTheorems, TLAPS

(* A call in progress: the client is not connected; once ::connect has     *)
(* succeeded there is a socket, and it has a slot (connect 244-268).       *)
CallInv ==
  /\ pc \in InCall => state # "Connected"
  /\ pc \in {"tcp", "control", "rest"} => sock \in open \cup {NoFd}
  /\ pc \in {"control", "rest"} => sock # NoFd /\ peer[sock] \in given

(* What may still be waited for is paid for by secLeft, but for the time in*)
(* ::connect, of which every try may take its own; and every try but the   *)
(* last has cost a step.                                                   *)
Blocked == tries * LongestTry
BudgetInv ==
  /\ waited <= 2 * WaitConnect + WaitStep + Blocked
  /\ tries > 0 => (tries - 1) * WaitStep <= WaitConnect
  /\ pc = "tcp" => /\ waited + secLeft <= WaitConnect + Blocked
                   /\ tries * WaitStep + secLeft <= WaitConnect
  /\ pc \in {"control", "rest"} => waited + secLeft <= 2 * WaitConnect + Blocked

(* What the clock says of it, wherever the call is.                        *)
Clock == /\ waited \in Nat /\ tries \in Nat
         /\ waited <= 2 * WaitConnect + WaitStep + Blocked
         /\ tries > 0 => (tries - 1) * WaitStep <= WaitConnect

(* Until the first socket has its slot every slot is empty.                *)
SlotInv ==
  /\ SlotsReleased
  /\ pc \in InCall /\ idx = 0 => \A i \in DOMAIN sockfd : sockfd[i] = 0

(* The slots whose sockets are set up: not that of the one in hand.        *)
Done == IF pc \in {"control", "rest"} THEN given \ {peer[sock]} ELSE given

(* The vectors have the sizes the server announced.                        *)
Half == IF cfg.duplex THEN cfg.n ELSE cfg.n \div 2
Shape ==
  /\ nSockets = cfg.n /\ duplex = cfg.duplex
  /\ DOMAIN sockfd = 0 .. cfg.n - 1
  /\ DOMAIN sockfdSend = 0 .. Half - 1 /\ DOMAIN sockfdRcv = 0 .. Half - 1

(* Slot i holds its socket, and so does the half or the halves it is in.   *)
InPlace(i) ==
  /\ sockfd[i] \in open /\ peer[sockfd[i]] = i
  /\ pc # "socket" => sockfd[i] # sock
  /\ i < Half => sockfdSend[i] = sockfd[i]
  /\ i >= cfg.n - Half => sockfdRcv[i - (cfg.n - Half)] = sockfd[i]

(* As long as no control block was cut short: as many slots are done as    *)
(* sockets were set up, and each of them is in place.                      *)
WireInv ==
  cuts = 0 =>
    /\ skewed = {}
    /\ pc \in InCall =>
         /\ Cardinality(Done) = idx
         /\ idx > 0 \/ pc = "rest" => Shape
         /\ \A i \in Done : InPlace(i)
    /\ pc = "rest" => socketID = peer[sock]

(* TypeOK and the parts together are inductive (initConnection, connect,   *)
(* configSocket, disconnect, tcpclient.cpp:82-304).                        *)
IInv == TypeOK /\ CallInv /\ BudgetInv /\ SlotInv /\ WireInv /\ Wired

-----------------------------------------------------------------------------
(* What a server announces, and the halves of its bundle.                  *)
LEMMA ConfigType ==
  ASSUME cfg \in Configs
  PROVE  /\ cfg.n \in Nat \ {0} /\ cfg.duplex \in BOOLEAN
         /\ cfg.cut \subseteq 1 .. CtrlWords - 1
         /\ Half \in 1 .. cfg.n /\ Half \in Nat
         /\ ~cfg.duplex => Half = cfg.n \div 2 /\ cfg.n = 2 * Half
<1>1. cfg \in [n : Nat \ {0}, duplex : BOOLEAN, current : BOOLEAN,
               cut : SUBSET (1 .. CtrlWords - 1)]
  BY ConnectAssumption
<1>2. cfg.duplex \/ cfg.n % 2 = 0
  BY ConnectAssumption
<1>3. cfg.n \in Nat \ {0}
  BY <1>1
<1>4. ~cfg.duplex => cfg.n = 2 * (cfg.n \div 2) /\ cfg.n \div 2 \in Nat \ {0}
  BY <1>2, <1>3
<1> QED
  BY <1>1, <1>3, <1>4 DEF Half

(* Vectors stay vectors when they are filled, emptied and resized.         *)
LEMMA VectorKept ==
  ASSUME NEW v \in Vector, NEW fd \in Fd, NEW i
  PROVE  /\ [v EXCEPT ![i] = fd] \in Vector
         /\ [j \in DOMAIN v |-> 0] \in Vector
<1>1. PICK k \in Sizes : v \in [0 .. k - 1 -> Fd]
  BY DEF Vector
<1>2. 0 \in Fd
  BY ConnectAssumption DEF Fd
<1>3. /\ [v EXCEPT ![i] = fd] \in [0 .. k - 1 -> Fd]
      /\ [j \in DOMAIN v |-> 0] \in [0 .. k - 1 -> Fd]
  BY <1>1, <1>2
<1> QED
  BY <1>1, <1>3 DEF Vector

LEMMA ResizeType ==
  ASSUME NEW v \in Vector, NEW k \in Sizes
  PROVE  /\ Resize(v, k) \in Vector
         /\ DOMAIN Resize(v, k) = 0 .. k - 1
<1>1. PICK j \in Sizes : v \in [0 .. j - 1 -> Fd]
  BY DEF Vector
<1>2. 0 \in Fd
  BY ConnectAssumption DEF Fd
<1>3. Resize(v, k) \in [0 .. k - 1 -> Fd]
  BY <1>1, <1>2 DEF Resize
<1> QED
  BY <1>3 DEF Vector

(* An entry of a vector is a descriptor; so is what TakeSlot puts there.   *)
LEMMA ConfigureType ==
  ASSUME TypeOK, NEW w \in Nat, w >= 7, Configure(w)
  PROVE  /\ nSockets' \in Nat /\ duplex' \in BOOLEAN
         /\ sockfd' \in Vector /\ sockfdSend' \in Vector /\ sockfdRcv' \in Vector
<1> USE DEF TypeOK
<1>1. cfg.n \in Nat /\ cfg.n \in Sizes /\ cfg.n \div 2 \in Sizes
      /\ cfg.duplex \in BOOLEAN
  BY ConfigType DEF Sizes
<1>2. ReadSockets(w) = cfg.n /\ ReadDuplex(w) \in BOOLEAN
  BY <1>1 DEF ReadSockets, ReadDuplex
<1> DEFINE k == IF ReadDuplex(w) THEN cfg.n ELSE cfg.n \div 2
<1>3. k \in Sizes
  BY <1>1
<1>4. /\ nSockets' = cfg.n /\ duplex' = ReadDuplex(w)
      /\ sockfd' = Resize(sockfd, cfg.n)
      /\ sockfdSend' = Resize(sockfdSend, k)
      /\ sockfdRcv' = Resize(sockfdRcv, k)
  BY <1>2 DEF Configure
<1> QED
  BY <1>1, <1>2, <1>3, <1>4, ResizeType

(* The initial states satisfy the invariant.                               *)
LEMMA InitInv == Init => IInv
<1> SUFFICES ASSUME Init PROVE IInv
  OBVIOUS
<1> USE DEF Init
<1>1. TypeOK
  <2>1. 0 \in Fd /\ NoFd \notin Fd
    BY ConnectAssumption DEF Fd, NoFd
  <2>2. Empty \in Vector
    BY DEF Empty, Vector, Sizes
  <2>3. open \subseteq Fd /\ peer \in [Fd -> Int]
        /\ rcvTimeo \in [Fd -> {0, WaitStep} \cup TimeOuts]
    BY <2>1 DEF Stdin, NotSocket
  <2>4. cfg \in Configs /\ given \subseteq 0 .. cfg.n - 1
    OBVIOUS
  <2>5. /\ state \in States /\ endpoint \in Endpoints \cup {NoEndpoint}
        /\ resolved \in BOOLEAN /\ duplex \in BOOLEAN /\ lastError \in BOOLEAN
        /\ pc \in InCall \cup {"idle", "undefined"}
        /\ result \in {"none", "true", "false"}
    BY DEF States, InCall
  <2>6. /\ nSockets \in Nat /\ timeOut \in TimeOuts \cup {0}
        /\ idx \in Nat /\ sock \in Fd \cup {NoFd}
        /\ secLeft \in Nat /\ socketID \in Nat
        /\ skewed \subseteq Fd
        /\ waited \in Nat /\ tries \in Nat /\ calls \in 0 .. MaxCalls
        /\ failures \in Nat /\ cuts \in Nat
    BY <2>1, ConnectAssumption
  <2>7. sockfd \in Vector /\ sockfdSend \in Vector /\ sockfdRcv \in Vector
    BY <2>2
  <2> QED
    BY <2>3, <2>4, <2>5, <2>6, <2>7 DEF TypeOK
<1>2. CallInv /\ BudgetInv /\ SlotInv /\ WireInv /\ Wired
  BY ConnectAssumption
  DEF CallInv, BudgetInv, SlotInv, WireInv, Wired, Blocked, SlotsReleased,
      InCall, Empty
<1> QED
  BY <1>1, <1>2 DEF IInv

-----------------------------------------------------------------------------
(* The units of the clock, and what a try adds to the time in ::connect.   *)
LEMMA ClockFacts ==
  ASSUME TypeOK
  PROVE  /\ secLeft \in Nat /\ waited \in Nat /\ tries \in Nat
         /\ WaitStep \in Nat \ {0} /\ WaitConnect \in Nat /\ LongestTry \in Nat
         /\ Blocked \in Nat
         /\ tries' = tries => Blocked' = Blocked
         /\ tries' = tries + 1 => Blocked' = Blocked + LongestTry
<1>1. /\ secLeft \in Nat /\ waited \in Nat /\ tries \in Nat
      /\ WaitStep \in Nat \ {0} /\ WaitConnect \in Nat /\ LongestTry \in Nat
  BY ConnectAssumption DEF TypeOK
<1>2. tries * LongestTry \in Nat
  BY <1>1
<1>3. (tries + 1) * LongestTry = tries * LongestTry + LongestTry
  BY <1>1
<1> QED
  BY <1>1, <1>2, <1>3 DEF Blocked

(* set_error and disconnect on a failed call.                              *)
LEMMA FailKeeps ==
  ASSUME IInv, FailWithError, secLeft' \in Nat, Clock'
  PROVE  IInv'
<1> USE DEF IInv, FailWithError, Return, CloseSockets
<1>1. TypeOK'
  <2>1. sockfd' \in Vector
    <3>1. 0 \in Fd
      BY ConnectAssumption DEF Fd
    <3> QED
      BY <3>1, VectorKept DEF TypeOK
  <2>2. failures' \in Nat
    BY DEF TypeOK
  <2> QED
    BY <2>1, <2>2 DEF TypeOK, config, history, server, States, InCall, Clock
<1>2. pc' = "idle" /\ state' = "Disconnected" /\ cuts' = cuts
      /\ skewed' = skewed /\ Clock'
      /\ \A i \in DOMAIN sockfd' : sockfd'[i] = 0
  OBVIOUS
<1>3. CallInv' /\ BudgetInv' /\ SlotInv' /\ WireInv' /\ Wired'
  BY <1>2 DEF CallInv, BudgetInv, SlotInv, WireInv, Wired, Clock, Blocked,
              SlotsReleased, InCall
<1> QED
  BY <1>1, <1>3

(* The calls of the program outside of connect().                          *)
LEMMA InitConnectionKeeps ==
  ASSUME IInv, NEW e \in Endpoints, NEW c \in Configs, NEW t \in TimeOuts,
         InitConnection(e, c, t)
  PROVE  IInv'
<1> USE DEF IInv, InitConnection, GetHostByName
<1>1. TypeOK'
  <2>1. c.n \in Nat /\ c.duplex \in BOOLEAN
    BY ConnectAssumption
  <2> QED
    BY <2>1 DEF TypeOK, server, history, clock, States, InCall
<1>2. /\ pc' = pc /\ pc = "idle" /\ sockfd' = sockfd /\ state # "Connected"
      /\ state' # "Connected" /\ waited' = waited /\ tries' = tries
      /\ skewed' = skewed /\ cuts' = cuts
  BY DEF history, clock
<1>3. CallInv' /\ BudgetInv' /\ SlotInv' /\ WireInv' /\ Wired'
  BY <1>2 DEF CallInv, BudgetInv, SlotInv, WireInv, Wired, Clock, Blocked,
              SlotsReleased, InCall
<1> QED
  BY <1>1, <1>3

LEMMA DisconnectKeeps ==
  ASSUME IInv, Disconnect
  PROVE  IInv'
<1> USE DEF IInv, Disconnect, CloseSockets
<1>1. TypeOK'
  <2>1. sockfd' \in Vector
    <3>1. 0 \in Fd
      BY ConnectAssumption DEF Fd
    <3> QED
      BY <3>1, VectorKept DEF TypeOK
  <2> QED
    BY <2>1 DEF TypeOK, config, history, server, clock, States, InCall
<1>2. /\ pc' = "idle" /\ state' = "Disconnected" /\ cuts' = cuts
      /\ skewed' = skewed /\ waited' = waited /\ tries' = tries
      /\ \A i \in DOMAIN sockfd' : sockfd'[i] = 0
  BY DEF history, clock
<1>3. CallInv' /\ BudgetInv' /\ SlotInv' /\ WireInv' /\ Wired'
  BY <1>2 DEF CallInv, BudgetInv, SlotInv, WireInv, Wired, Clock, Blocked,
              SlotsReleased, InCall
<1> QED
  BY <1>1, <1>3

(* connect() is entered: nothing is given out or done yet.                 *)
LEMMA ConnectKeeps ==
  ASSUME IInv, Connect
  PROVE  IInv'
<1> USE DEF IInv, Connect
<1>1. TypeOK'
  <2>1. calls' \in 0 .. MaxCalls
    BY ConnectAssumption DEF TypeOK
  <2>2. cfg' \in Configs /\ given' \subseteq 0 .. cfg'.n - 1
    OBVIOUS
  <2> QED
    BY <2>1, <2>2 DEF TypeOK, client, config, history, clock, States, InCall
<1>2. /\ pc' = "socket" /\ idx' = 0 /\ state' = state /\ state # "Connected"
      /\ sockfd' = sockfd /\ waited' = waited /\ tries' = tries
      /\ skewed' = skewed /\ cuts' = cuts /\ pc = "idle" /\ given' = {}
  BY DEF client, history, clock
<1>3. CallInv' /\ BudgetInv' /\ SlotInv' /\ Wired'
  BY <1>2 DEF CallInv, BudgetInv, SlotInv, Wired, Blocked, SlotsReleased,
              InCall
<1>4. Done' = {} /\ Cardinality(Done') = 0
  BY <1>2, FS_EmptySet DEF Done
<1>5. WireInv'
  BY <1>2, <1>4 DEF WireInv, InCall
<1> QED
  BY <1>1, <1>3, <1>5

-----------------------------------------------------------------------------
(* A new socket is none of those that are done: they are open.             *)
LEMMA OpenSocketKeeps ==
  ASSUME IInv, OpenSocket
  PROVE  IInv'
<1> USE DEF IInv, OpenSocket
<1>1. TypeOK'
  BY ConnectAssumption
  DEF TypeOK, client, server, history, InCall, NoPeer
<1>2. /\ pc = "socket" /\ pc' = "tcp" /\ state' = state /\ sockfd' = sockfd
      /\ sockfdSend' = sockfdSend /\ sockfdRcv' = sockfdRcv
      /\ nSockets' = nSockets /\ duplex' = duplex
      /\ idx' = idx /\ cfg' = cfg /\ given' = given /\ cuts' = cuts
      /\ waited' = 0 /\ tries' = 0 /\ secLeft' = WaitConnect
      /\ skewed' \subseteq skewed
  BY DEF client, server, history
<1>3. CallInv' /\ SlotInv' /\ Wired'
  BY <1>2 DEF CallInv, SlotInv, Wired, SlotsReleased, InCall
<1>7. BudgetInv'
  <2>1. Blocked' = 0
    BY <1>2, ConnectAssumption DEF Blocked
  <2> QED
    BY <1>2, <2>1, ConnectAssumption DEF BudgetInv
<1>4. Done' = Done /\ Half' = Half
  BY <1>2 DEF Done, Half
<1>5. ASSUME cuts = 0, NEW i \in Done PROVE InPlace(i)'
  <2>1. InPlace(i)
    BY <1>2, <1>5 DEF WireInv, InCall
  <2>3. sockfd[i] \in open /\ sockfd[i] \in Fd
    BY <2>1 DEF InPlace, TypeOK
  <2>4. sock' # sockfd[i] /\ sockfd[i] \in open'
        /\ peer'[sockfd[i]] = peer[sockfd[i]]
    <3>1. CASE open = Fd /\ sock' = NoFd /\ UNCHANGED <<open, peer>>
      <4>1. NoFd \notin Fd
        BY DEF NoFd, Fd
      <4> QED
        BY <2>3, <3>1, <4>1
    <3>2. ASSUME NEW fd \in Fd \ open, sock' = fd, open' = open \cup {fd},
                 peer' = [peer EXCEPT ![fd] = NoPeer]
          PROVE  /\ sock' # sockfd[i] /\ sockfd[i] \in open'
                 /\ peer'[sockfd[i]] = peer[sockfd[i]]
      BY <2>3, <3>2 DEF TypeOK
    <3> QED
      BY <3>1, <3>2
  <2> QED
    BY <1>2, <1>4, <2>1, <2>4 DEF InPlace
<1>6. WireInv'
  BY <1>2, <1>4, <1>5 DEF WireInv, InCall, Shape
<1> QED
  BY <1>1, <1>3, <1>6, <1>7

(* ::connect: a refusal costs its part of the budget, or the call.         *)
LEMMA TcpRefusedKeeps ==
  ASSUME IInv, TcpRefused
  PROVE  IInv'
<1>0. /\ secLeft \in Nat /\ waited \in Nat /\ tries \in Nat
      /\ WaitStep \in Nat \ {0} /\ WaitConnect \in Nat /\ LongestTry \in Nat
      /\ Blocked \in Nat
  BY ClockFacts DEF IInv
<1>1. /\ pc = "tcp" /\ waited + secLeft <= WaitConnect + Blocked
      /\ tries * WaitStep + secLeft <= WaitConnect
  BY DEF TcpRefused, IInv, BudgetInv
<1>2. PICK w \in Nat : w = tries * WaitStep
  BY <1>0
<1>3. CASE secLeft < WaitStep
  <2>1. /\ FailWithError /\ secLeft' = secLeft
        /\ tries' = tries + 1 /\ \E t \in TryTimes : waited' = waited + t + 0
    BY <1>0, <1>3 DEF TcpRefused, Try
  <2>2. PICK t \in Nat : t <= LongestTry /\ waited' = waited + t
    BY <1>0, <2>1, ConnectAssumption
  <2>3. Blocked' = Blocked + LongestTry
    BY <2>1, ClockFacts DEF IInv
  <2>4. waited' \in Nat /\ waited' <= 2 * WaitConnect + WaitStep + Blocked'
    BY <1>0, <1>1, <2>2, <2>3
  <2>5. tries' \in Nat /\ (tries' - 1) * WaitStep = w
    BY <1>0, <1>2, <2>1
  <2>6. w <= WaitConnect
    BY <1>0, <1>1, <1>2
  <2> QED
    BY <1>0, <2>1, <2>4, <2>5, <2>6, FailKeeps DEF Clock
<1>4. CASE secLeft >= WaitStep
  <2>1. /\ secLeft' = secLeft - WaitStep /\ secLeft' \in Nat
        /\ tries' = tries + 1
        /\ \E t \in TryTimes : waited' = waited + t + WaitStep
        /\ UNCHANGED <<client, pc, result, idx, sock, socketID, open, peer,
                       skewed, rcvTimeo, server, calls, history>>
    BY <1>0, <1>4 DEF TcpRefused, Try
  <2>2. PICK t \in Nat : t <= LongestTry /\ waited' = waited + t + WaitStep
    BY <1>0, <2>1, ConnectAssumption
  <2>3. Blocked' = Blocked + LongestTry
    BY <2>1, ClockFacts DEF IInv
  <2>4. /\ waited' \in Nat /\ tries' \in Nat
        /\ waited' + secLeft' <= WaitConnect + Blocked'
        /\ waited' <= 2 * WaitConnect + WaitStep + Blocked'
    BY <1>0, <1>1, <2>1, <2>2, <2>3
  <2>5. tries' * WaitStep = w + WaitStep /\ (tries' - 1) * WaitStep = w
    BY <1>0, <1>2, <2>1
  <2>6. w <= WaitConnect /\ w + WaitStep + secLeft' <= WaitConnect
    BY <1>0, <1>1, <1>2, <2>1
  <2>7. TypeOK'
    BY <2>1, <2>4 DEF IInv, TypeOK, client, config, server, history
  <2>8. pc' = "tcp"
    BY <1>1, <2>1
  <2>9. BudgetInv'
    BY <2>4, <2>5, <2>6, <2>8 DEF BudgetInv
  <2>10. CallInv' /\ SlotInv' /\ Wired' /\ WireInv'
    BY <2>1 DEF IInv, client, config, server, history, CallInv, SlotInv, Wired,
                WireInv, SlotsReleased, Done, Shape, InPlace, Half
  <2> QED
    BY <2>7, <2>9, <2>10 DEF IInv
<1> QED
  BY <1>0, <1>3, <1>4

(* ::connect succeeds: the server gives the socket a slot that is free, so *)
(* what is done stays the same.                                            *)
LEMMA TcpConnectedKeeps ==
  ASSUME IInv, TcpConnected
  PROVE  IInv'
<1> USE DEF IInv, TcpConnected
<1>1. PICK id \in (0 .. cfg.n - 1) \ given :
        given' = given \cup {id} /\ peer' = [peer EXCEPT ![sock] = id]
  OBVIOUS
<1>2. /\ pc = "tcp" /\ pc' = "control" /\ state' = state /\ sockfd' = sockfd
      /\ sockfdSend' = sockfdSend /\ sockfdRcv' = sockfdRcv
      /\ nSockets' = nSockets /\ duplex' = duplex /\ open' = open
      /\ idx' = idx /\ cfg' = cfg /\ cuts' = cuts /\ sock' = sock
      /\ tries' = tries + 1 /\ secLeft' = WaitConnect
      /\ skewed' = skewed /\ sock # NoFd
      /\ \E t \in TryTimes : waited' = waited + t + 0
  BY DEF client, history, Try
<1>3. sock \in Fd /\ sock \in open /\ peer'[sock] = id /\ id \in Nat
      /\ \A fd \in Fd : fd # sock => peer'[fd] = peer[fd]
  BY <1>1, <1>2, ConfigType DEF TypeOK, CallInv
<1>10. /\ waited \in Nat /\ secLeft \in Nat /\ tries \in Nat
       /\ WaitStep \in Nat \ {0} /\ WaitConnect \in Nat /\ LongestTry \in Nat
       /\ Blocked \in Nat /\ Blocked' = Blocked + LongestTry
  BY <1>2, ClockFacts
<1>11. PICK t \in Nat : t <= LongestTry /\ waited' = waited + t
  BY <1>2, <1>10, ConnectAssumption
<1>4. TypeOK'
  <2>1. rcvTimeo' \in [Fd -> {0, WaitStep} \cup TimeOuts]
    BY DEF TypeOK, SetTimeout
  <2>2. peer' \in [Fd -> Int] /\ given' \subseteq 0 .. cfg'.n - 1
    BY <1>1, <1>2, <1>3 DEF TypeOK
  <2>3. secLeft' \in Nat /\ tries' \in Nat
    BY <1>2, <1>10, ConnectAssumption
  <2> QED
    BY <1>2, <1>11, <2>1, <2>2, <2>3 DEF TypeOK, client, history, InCall
<1>5. CallInv' /\ SlotInv' /\ Wired'
  BY <1>1, <1>2, <1>3 DEF CallInv, SlotInv, Wired, SlotsReleased, InCall
<1>6. BudgetInv'
  <2>1. /\ waited + secLeft <= WaitConnect + Blocked
        /\ tries * WaitStep + secLeft <= WaitConnect
    BY <1>2 DEF BudgetInv
  <2>2. PICK w \in Nat : w = tries * WaitStep
    BY <1>10
  <2>3. waited' + secLeft' <= 2 * WaitConnect + Blocked'
    BY <1>2, <1>10, <1>11, <2>1
  <2>4. (tries' - 1) * WaitStep = w /\ w <= WaitConnect
    BY <1>2, <1>10, <2>1, <2>2
  <2>5. waited' <= 2 * WaitConnect + WaitStep + Blocked'
    BY <1>2, <1>10, <1>11, <2>3
  <2> QED
    BY <1>2, <2>3, <2>4, <2>5 DEF BudgetInv
<1>7. Done' = Done /\ Half' = Half
  BY <1>1, <1>2, <1>3 DEF Done, Half
<1>8. ASSUME cuts = 0, NEW i \in Done PROVE InPlace(i)'
  <2>1. InPlace(i)
    BY <1>2, <1>8 DEF WireInv, InCall
  <2>2. sockfd[i] \in Fd /\ sockfd[i] # sock
    BY <1>2, <2>1 DEF InPlace, TypeOK
  <2>3. peer'[sockfd[i]] = peer[sockfd[i]]
    BY <1>3, <2>2
  <2> QED
    BY <1>2, <1>7, <2>1, <2>2, <2>3 DEF InPlace
<1>9. WireInv'
  BY <1>2, <1>7, <1>8 DEF WireInv, InCall, Shape
<1> QED
  BY <1>4, <1>5, <1>6, <1>9

(* The control block and the rest of it fail: for want of time, or because *)
(* of the server.                                                          *)
LEMMA ControlTimeoutKeeps ==
  ASSUME IInv, ControlTimeout
  PROVE  IInv'
<1>0. /\ secLeft \in Nat /\ waited \in Nat /\ tries \in Nat
      /\ WaitStep \in Nat /\ WaitConnect \in Nat /\ Blocked \in Nat
  BY ClockFacts DEF IInv
<1>1. /\ pc = "control" /\ waited + secLeft <= 2 * WaitConnect + Blocked
      /\ tries > 0 => (tries - 1) * WaitStep <= WaitConnect
      /\ waited' = waited + WaitStep /\ tries' = tries
  BY DEF ControlTimeout, IInv, BudgetInv
<1>2. Blocked' = Blocked
  BY <1>1 DEF Blocked
<1>3. Clock'
  BY <1>0, <1>1, <1>2 DEF Clock
<1>4. CASE secLeft < WaitStep
  <2>1. FailWithError /\ secLeft' = secLeft
    BY <1>0, <1>4 DEF ControlTimeout
  <2> QED
    BY <1>0, <1>3, <2>1, FailKeeps
<1>5. CASE secLeft >= WaitStep
  <2>1. /\ secLeft' = secLeft - WaitStep /\ secLeft' \in Nat
        /\ UNCHANGED <<client, pc, result, idx, sock, socketID, open, peer,
                       skewed, rcvTimeo, server, calls, history>>
    BY <1>0, <1>5 DEF ControlTimeout
  <2>2. TypeOK'
    BY <1>3, <2>1 DEF IInv, Clock, TypeOK, client, config, server, history
  <2>3. pc' = "control" /\ waited' + secLeft' <= 2 * WaitConnect + Blocked'
    BY <1>0, <1>1, <1>2, <2>1
  <2>4. BudgetInv'
    BY <1>3, <2>3 DEF BudgetInv, Clock
  <2>5. CallInv' /\ SlotInv' /\ Wired' /\ WireInv'
    BY <2>1 DEF IInv, client, config, server, history, CallInv, SlotInv, Wired,
                WireInv, SlotsReleased, Done, Shape, InPlace, Half
  <2> QED
    BY <2>2, <2>4, <2>5 DEF IInv
<1> QED
  BY <1>0, <1>4, <1>5

LEMMA RejectedKeeps ==
  ASSUME IInv, ControlRejected \/ RestRejected \/ RestTimeout
  PROVE  IInv'
<1>0. /\ secLeft \in Nat /\ waited \in Nat /\ tries \in Nat
      /\ WaitStep \in Nat /\ WaitConnect \in Nat /\ Blocked \in Nat
  BY ClockFacts DEF IInv
<1>1. /\ FailWithError /\ secLeft' = secLeft /\ tries' = tries
      /\ \/ waited' = waited
         \/ waited' = waited + WaitStep /\ pc = "rest"
  BY DEF ControlRejected, RestRejected, RestTimeout, RestMissing, clock
<1>2. /\ waited <= 2 * WaitConnect + WaitStep + Blocked
      /\ tries > 0 => (tries - 1) * WaitStep <= WaitConnect
      /\ pc = "rest" => waited + secLeft <= 2 * WaitConnect + Blocked
  BY DEF IInv, BudgetInv
<1>3. Blocked' = Blocked
  BY <1>1 DEF Blocked
<1>4. Clock'
  BY <1>0, <1>1, <1>2, <1>3 DEF Clock
<1> QED
  BY <1>0, <1>1, <1>4, FailKeeps

-----------------------------------------------------------------------------
(* A control block is read: what it costs of the budget, and its branches. *)
Cost(w) == IF w < CtrlWords THEN WaitStep ELSE 0

LEMMA ReadTime ==
  ASSUME IInv, NEW w \in Nat, ControlRead(w), w = CtrlWords \/ secLeft >= WaitStep
  PROVE  secLeft' \in Nat /\ Clock'
         /\ waited' + secLeft' <= 2 * WaitConnect + Blocked'
<1>1. /\ secLeft \in Nat /\ waited \in Nat /\ tries \in Nat
      /\ WaitStep \in Nat /\ WaitConnect \in Nat /\ Blocked \in Nat
  BY ClockFacts DEF IInv
<1>2. /\ waited + secLeft <= 2 * WaitConnect + Blocked
      /\ tries > 0 => (tries - 1) * WaitStep <= WaitConnect
  BY DEF ControlRead, IInv, BudgetInv
<1>3. waited' = waited + Cost(w) /\ tries' = tries
  BY DEF ControlRead, Cost
<1>4. Blocked' = Blocked
  BY <1>3 DEF Blocked
<1>5. /\ secLeft' \in Nat /\ waited' \in Nat
      /\ waited' + secLeft' <= 2 * WaitConnect + Blocked
  <2>1. CASE w < CtrlWords
    <3>1. Cost(w) = WaitStep /\ secLeft >= WaitStep
      BY <2>1 DEF Cost, CtrlWords
    <3>2. secLeft' = secLeft - WaitStep
      BY <1>1, <2>1, <3>1 DEF ControlRead, CtrlWords
    <3> QED
      BY <1>1, <1>2, <1>3, <3>1, <3>2
  <2>2. CASE ~(w < CtrlWords)
    <3>1. Cost(w) = 0
      BY <2>2 DEF Cost
    <3>2. secLeft' = secLeft
      BY <1>1, <2>2 DEF ControlRead
    <3> QED
      BY <1>1, <1>2, <1>3, <3>1, <3>2
  <2> QED
    BY <2>1, <2>2
<1>6. Clock'
  BY <1>1, <1>2, <1>3, <1>4, <1>5 DEF Clock
<1> QED
  BY <1>4, <1>5, <1>6

(* An outdated server: connect() returns false without set_error, but that *)
(* is the first socket, and no slot is taken.                              *)
ReadOutdated(w) ==
  /\ idx = 0 /\ Return("false")
  /\ socketID' = ReadSlot(w)
  /\ UNCHANGED <<client, idx, sock, open, peer, skewed, rcvTimeo>>

LEMMA SlotType ==
  ASSUME IInv, pc = "control", NEW w \in Nat
  PROVE  ReadSlot(w) \in Nat
BY ConfigType DEF IInv, TypeOK, CallInv, ReadSlot

LEMMA OutdatedKeeps ==
  ASSUME IInv, NEW w \in Nat, pc = "control", ReadOutdated(w), secLeft' \in Nat,
         Clock'
  PROVE  IInv'
<1> USE DEF IInv, ReadOutdated, Return
<1>1. TypeOK'
  <2>1. socketID' \in Nat
    BY SlotType
  <2>2. failures' \in Nat
    BY DEF TypeOK
  <2> QED
    BY <2>1, <2>2 DEF TypeOK, Clock, client, config, server, States, InCall
<1>2. /\ pc' = "idle" /\ state' = state /\ state # "Connected"
      /\ sockfd' = sockfd /\ skewed' = skewed /\ cuts' = cuts
      /\ \A i \in DOMAIN sockfd : sockfd[i] = 0
  BY DEF client, CallInv, SlotInv, InCall
<1>4. CallInv' /\ BudgetInv' /\ SlotInv' /\ WireInv' /\ Wired'
  BY <1>2 DEF CallInv, BudgetInv, SlotInv, WireInv, Wired, Clock, Blocked,
              SlotsReleased, InCall
<1> QED
  BY <1>1, <1>4

(* The first control block without a number of sockets ends the model.     *)
ReadUndefined ==
  /\ pc' = "undefined"
  /\ UNCHANGED <<client, result, idx, sock, socketID, open, peer, skewed,
                 rcvTimeo, server, calls, history>>

LEMMA UndefinedKeeps ==
  ASSUME IInv, pc = "control", ReadUndefined, secLeft' \in Nat, Clock'
  PROVE  IInv'
<1> USE DEF IInv, ReadUndefined
<1>1. TypeOK'
  BY DEF TypeOK, Clock, client, config, server, history
<1>2. /\ pc' = "undefined" /\ state' = state /\ state # "Connected"
      /\ skewed' = skewed /\ cuts' = cuts
  BY DEF client, history, CallInv, InCall
<1>4. CallInv' /\ BudgetInv' /\ SlotInv' /\ WireInv' /\ Wired'
  BY <1>2 DEF CallInv, BudgetInv, SlotInv, WireInv, Wired, Clock, Blocked,
              SlotsReleased, InCall
<1> QED
  BY <1>1, <1>4

(* The control block is used; the first one sizes the vectors, while no    *)
(* slot is taken.                                                          *)
ReadUsed(w) ==
  /\ pc' = "rest" /\ socketID' = ReadSlot(w)
  /\ skewed' = skewed \cup (IF w < CtrlWords THEN {sock} ELSE {})
  /\ cuts' = cuts + (IF w < CtrlWords THEN 1 ELSE 0)
  /\ IF idx = 0 THEN w >= 7 /\ Configure(w) ELSE UNCHANGED <<config, sockfd>>
  /\ UNCHANGED <<state, endpoint, resolved, timeOut, lastError, result, idx,
                 sock, open, peer, rcvTimeo, server, calls, failures>>

LEMMA UsedKeeps ==
  ASSUME IInv, NEW w \in Nat, pc = "control", ReadUsed(w), w <= CtrlWords,
         secLeft' \in Nat, Clock',
         waited' + secLeft' <= 2 * WaitConnect + Blocked'
  PROVE  IInv'
<1> USE DEF IInv, ReadUsed
<1>0. idx \in Nat /\ cuts \in Nat /\ sock \in Fd /\ CtrlWords = 8
  BY DEF TypeOK, CallInv, CtrlWords
<1>1. TypeOK'
  <2>1. socketID' \in Nat
    BY SlotType
  <2>2. /\ nSockets' \in Nat /\ duplex' \in BOOLEAN /\ sockfd' \in Vector
        /\ sockfdSend' \in Vector /\ sockfdRcv' \in Vector
    <3>1. CASE idx = 0
      BY <3>1, ConfigureType
    <3>2. CASE idx # 0
      BY <3>2 DEF TypeOK, config
    <3> QED
      BY <3>1, <3>2
  <2>3. cuts' \in Nat /\ skewed' \subseteq Fd
    BY <1>0 DEF TypeOK
  <2> QED
    BY <2>1, <2>2, <2>3 DEF TypeOK, Clock, server, InCall
<1>2. state # "Connected" /\ state' = state
  BY DEF CallInv, InCall
<1>3. CallInv'
  BY <1>2 DEF CallInv, InCall, server
<1>4. BudgetInv'
  BY DEF BudgetInv, Clock
<1>5. SlotInv'
  <2>1. ASSUME idx = 0 PROVE \A i \in DOMAIN sockfd' : sockfd'[i] = 0
    <3>1. \A i \in DOMAIN sockfd : sockfd[i] = 0
      BY <2>1 DEF SlotInv, InCall
    <3>2. sockfd' = Resize(sockfd, ReadSockets(w))
      BY <2>1 DEF Configure
    <3> QED
      BY <3>1, <3>2 DEF Resize
  <2> QED
    BY <2>1 DEF SlotInv, SlotsReleased, InCall
<1>6. ASSUME cuts' = 0 PROVE w = CtrlWords /\ cuts = 0 /\ skewed' = skewed
  BY <1>0, <1>6
<1>7. WireInv'
  <2> SUFFICES ASSUME cuts' = 0
               PROVE  /\ skewed' = {}
                      /\ Cardinality(Done') = idx' /\ Shape'
                      /\ \A i \in Done' : InPlace(i)'
                      /\ socketID' = peer'[sock']
    BY DEF WireInv
  <2>1. w = CtrlWords /\ cuts = 0 /\ skewed' = skewed
    BY <1>6
  <2>2. Done' = Done /\ Half' = Half /\ idx' = idx
    BY DEF Done, Half, server
  <2>3. /\ skewed = {} /\ Cardinality(Done) = idx
        /\ idx > 0 => Shape
        /\ \A i \in Done : InPlace(i)
    BY <2>1 DEF WireInv, InCall
  <2>4. socketID' = peer'[sock']
    BY <1>0, <2>1 DEF ReadSlot
  <2>5. CASE idx = 0
    <3>1. IsFiniteSet(0 .. cfg.n - 1) /\ given \subseteq 0 .. cfg.n - 1
      <4>1. cfg \in Configs /\ given \subseteq 0 .. cfg.n - 1
        BY DEF TypeOK
      <4>2. cfg.n - 1 \in Int /\ 0 \in Int
        BY <4>1, ConfigType
      <4> QED
        BY <4>1, <4>2, FS_Interval
    <3>2. IsFiniteSet(Done)
      BY <3>1, FS_Subset DEF Done
    <3>3. Done = {}
      BY <2>3, <2>5, <3>2, FS_EmptySet
    <3>4. cfg.n \in Nat \ {0} /\ cfg.n \in Sizes /\ cfg.n \div 2 \in Sizes
          /\ cfg.duplex \in BOOLEAN
      BY ConfigType DEF Sizes, TypeOK
    <3>5. ReadSockets(w) = cfg.n /\ ReadDuplex(w) = cfg.duplex
      BY <1>0, <2>1, <3>4 DEF ReadSockets, ReadDuplex
    <3>6. /\ nSockets' = cfg.n /\ duplex' = cfg.duplex
          /\ sockfd' = Resize(sockfd, cfg.n)
          /\ sockfdSend' = Resize(sockfdSend, Half)
          /\ sockfdRcv' = Resize(sockfdRcv, Half)
      BY <2>5, <3>5 DEF Configure, Half
    <3>7. Half \in Sizes
      BY <3>4 DEF Half
    <3>8. Shape'
      BY <2>2, <3>4, <3>6, <3>7, ResizeType DEF Shape, TypeOK, server
    <3> QED
      BY <2>1, <2>2, <2>3, <2>4, <3>3, <3>8
  <2>6. CASE idx # 0
    <3>1. Shape' /\ \A i \in Done : InPlace(i)'
      BY <1>0, <2>2, <2>3, <2>6 DEF Shape, InPlace, config, server
    <3> QED
      BY <2>1, <2>2, <2>3, <2>4, <3>1
  <2> QED
    BY <2>5, <2>6
<1>8. Wired'
  BY <1>2 DEF Wired
<1> QED
  BY <1>1, <1>3, <1>4, <1>5, <1>7, <1>8

LEMMA ControlReadKeeps ==
  ASSUME IInv, NEW w \in cfg.cut \cup {CtrlWords}, ControlRead(w)
  PROVE  IInv'
<1>0. w \in Nat /\ w <= CtrlWords /\ pc = "control"
  BY ConfigType DEF IInv, TypeOK, CtrlWords, ControlRead
<1>1. CASE w < CtrlWords /\ secLeft < WaitStep
  <2>0. /\ secLeft \in Nat /\ waited \in Nat /\ tries \in Nat
        /\ WaitStep \in Nat /\ WaitConnect \in Nat /\ Blocked \in Nat
    BY ClockFacts DEF IInv
  <2>1. FailWithError /\ secLeft' = secLeft /\ waited' = waited + WaitStep
        /\ tries' = tries
    BY <1>0, <1>1, <2>0 DEF ControlRead, CtrlWords
  <2>2. /\ waited + secLeft <= 2 * WaitConnect + Blocked
        /\ tries > 0 => (tries - 1) * WaitStep <= WaitConnect
    BY <1>0 DEF IInv, BudgetInv
  <2>3. Blocked' = Blocked
    BY <2>1 DEF Blocked
  <2>4. Clock'
    BY <2>0, <2>1, <2>2, <2>3 DEF Clock
  <2> QED
    BY <2>0, <2>1, <2>4, FailKeeps
<1>2. CASE w = CtrlWords \/ secLeft >= WaitStep
  <2>1. /\ secLeft' \in Nat /\ Clock'
        /\ waited' + secLeft' <= 2 * WaitConnect + Blocked'
    BY <1>0, <1>2, ReadTime
  <2>2. \/ FailWithError
        \/ ReadOutdated(w)
        \/ ReadUndefined
        \/ ReadUsed(w)
    BY <1>0, <1>2
    DEF ControlRead, ReadOutdated, ReadUndefined, ReadUsed, CtrlWords
  <2> QED
    BY <1>0, <2>1, <2>2, FailKeeps, OutdatedKeeps, UndefinedKeeps, UsedKeeps
<1> QED
  <2>1. secLeft \in Nat /\ WaitStep \in Nat
    BY ClockFacts DEF IInv
  <2> QED
    BY <1>0, <1>1, <1>2, <2>1 DEF CtrlWords

-----------------------------------------------------------------------------
(* The socket in hand is put in its place, and disturbs none of the others.*)
LEMMA TakeSlotPlaces ==
  ASSUME IInv, pc = "rest", cuts = 0, TakeSlot, UNCHANGED <<cfg, open, peer>>,
         NEW i \in given
  PROVE  /\ sockfd'[i] \in open /\ peer[sockfd'[i]] = i
         /\ i # peer[sock] => sockfd'[i] = sockfd[i]
         /\ i < Half => sockfdSend'[i] = sockfd'[i]
         /\ i >= cfg.n - Half => sockfdRcv'[i - (cfg.n - Half)] = sockfd'[i]
<1> USE DEF IInv
<1>0. /\ cfg.n \in Nat \ {0} /\ Half \in Nat /\ Half <= cfg.n
      /\ ~cfg.duplex => Half = cfg.n \div 2 /\ cfg.n = 2 * Half
      /\ cfg.duplex => Half = cfg.n
      /\ i \in 0 .. cfg.n - 1
  BY ConfigType DEF TypeOK, Half
<1>1. /\ Shape /\ socketID = peer[sock] /\ peer[sock] \in given
      /\ sock \in open
  BY DEF WireInv, CallInv, InCall
<1>2. peer[sock] \in 0 .. cfg.n - 1
  BY <1>1 DEF TypeOK
<1> DEFINE first == cfg.n - Half
<1>8. first \in Nat /\ (i >= first => i - first \in 0 .. Half - 1)
  <2>1. cfg.n \in Nat /\ Half \in Nat /\ Half <= cfg.n /\ i \in Nat
        /\ i <= cfg.n - 1
    BY <1>0
  <2>2. cfg.n - Half \in Nat
    BY <2>1
  <2>3. i >= cfg.n - Half =>
          i - (cfg.n - Half) >= 0 /\ i - (cfg.n - Half) <= Half - 1
    BY <2>1
  <2> QED
    BY <2>1, <2>2, <2>3
<1>3. (IF duplex THEN 0 ELSE nSockets \div 2) = first
  BY <1>0, <1>1 DEF Shape
<1>4. /\ sockfd' = [sockfd EXCEPT ![peer[sock]] = sock]
      /\ sockfdSend' = [sockfdSend EXCEPT ![peer[sock]] = sock]
      /\ sockfdRcv' = [sockfdRcv EXCEPT ![peer[sock] - first] = sock]
  BY <1>1, <1>3 DEF TakeSlot
<1>5. CASE i = peer[sock]
  <2>1. sockfd'[i] = sock
    BY <1>0, <1>1, <1>4, <1>5 DEF Shape
  <2>2. i < Half => sockfdSend'[i] = sock
    BY <1>0, <1>1, <1>4, <1>5 DEF Shape
  <2>3. i >= first => sockfdRcv'[i - first] = sock
    <3>1. i >= first => i - first \in DOMAIN sockfdRcv
      BY <1>1, <1>8 DEF Shape
    <3> QED
      BY <1>4, <1>5, <3>1
  <2> QED
    BY <1>1, <1>5, <2>1, <2>2, <2>3
<1>6. CASE i # peer[sock]
  <2>1. i \in Done
    BY <1>6 DEF Done
  <2>2. InPlace(i)
    BY <2>1 DEF WireInv, InCall
  <2>3. sockfd'[i] = sockfd[i]
    BY <1>0, <1>1, <1>4, <1>6 DEF Shape
  <2>4. i < Half => sockfdSend'[i] = sockfdSend[i]
    BY <1>0, <1>1, <1>4, <1>6 DEF Shape
  <2>5. i >= first => sockfdRcv'[i - first] = sockfdRcv[i - first]
    <3>1. i >= first => i - first \in DOMAIN sockfdRcv
      BY <1>1, <1>8 DEF Shape
    <3>2. i - first # peer[sock] - first
      BY <1>0, <1>2, <1>6
    <3> QED
      BY <1>4, <3>1, <3>2
  <2> QED
    BY <2>2, <2>3, <2>4, <2>5 DEF InPlace
<1> QED
  BY <1>5, <1>6

(* All slots that were given out are as many as the sockets set up, the    *)
(* one in hand included.                                                   *)
LEMMA GivenCount ==
  ASSUME IInv, pc = "rest", cuts = 0
  PROVE  /\ Cardinality(given) = idx + 1
         /\ idx + 1 \in 1 .. cfg.n
         /\ idx + 1 = cfg.n => given = 0 .. cfg.n - 1
<1> USE DEF IInv
<1>1. cfg.n \in Nat \ {0} /\ given \subseteq 0 .. cfg.n - 1 /\ idx \in Nat
  BY ConfigType DEF TypeOK
<1>2. IsFiniteSet(0 .. cfg.n - 1) /\ Cardinality(0 .. cfg.n - 1) = cfg.n
  <2>1. cfg.n - 1 \in Int /\ 0 \in Int /\ 0 <= cfg.n - 1
    BY <1>1
  <2> QED
    BY <1>1, <2>1, FS_Interval
<1>3. IsFiniteSet(given) /\ Cardinality(given) <= cfg.n
      /\ (Cardinality(given) = cfg.n => given = 0 .. cfg.n - 1)
  BY <1>1, <1>2, FS_Subset
<1>4. Done = given \ {peer[sock]} /\ peer[sock] \in given
      /\ Cardinality(Done) = idx
  BY DEF Done, CallInv, WireInv, InCall
<1>5. Cardinality(Done) = Cardinality(given) - 1 /\ Cardinality(given) \in Nat
  BY <1>3, <1>4, FS_RemoveElement, FS_CardinalityType
<1> QED
  BY <1>1, <1>3, <1>4, <1>5

(* The last step of a socket, and of connect() if it is the last one.      *)
LEMMA RestReadKeeps ==
  ASSUME IInv, RestRead
  PROVE  IInv'
<1> USE DEF IInv, RestRead
<1>0. sock \in Fd /\ idx \in Nat /\ pc = "rest"
  BY DEF TypeOK, CallInv
<1>1. /\ sockfd' \in Vector /\ sockfdSend' \in Vector /\ sockfdRcv' \in Vector
      /\ DOMAIN sockfd' = DOMAIN sockfd
      /\ DOMAIN sockfdSend' = DOMAIN sockfdSend
      /\ DOMAIN sockfdRcv' = DOMAIN sockfdRcv
  BY <1>0, VectorKept DEF TakeSlot, TypeOK
<1>2. /\ nSockets' = nSockets /\ duplex' = duplex /\ open' = open
      /\ peer' = peer /\ cfg' = cfg /\ given' = given /\ cuts' = cuts
      /\ skewed' = skewed /\ waited' = waited /\ tries' = tries
      /\ timeOut' = timeOut /\ idx' = idx + 1 /\ sock' = sock
  BY DEF server, history, clock, Return
<1>3. \/ /\ pc' = "socket" /\ state' = state /\ rcvTimeo' = rcvTimeo
         /\ idx + 1 \in DOMAIN sockfd
      \/ /\ pc' = "idle" /\ state' = "Connected"
         /\ idx + 1 \notin DOMAIN sockfd
         /\ IF timeOut >= 0 THEN SetTimeout(Values(sockfdRcv'), timeOut)
                            ELSE UNCHANGED rcvTimeo
  BY DEF Return
<1>4. TypeOK'
  <2>1. rcvTimeo' \in [Fd -> {0, WaitStep} \cup TimeOuts]
    BY <1>3 DEF SetTimeout, TypeOK
  <2>2. failures' \in Nat /\ calls' = calls /\ result' \in {"none", "true", "false"}
    BY DEF TypeOK, Return, history
  <2> QED
    BY <1>0, <1>1, <1>2, <1>3, <2>1, <2>2 DEF TypeOK, States, InCall
<1>5. CallInv' /\ SlotInv'
  BY <1>0, <1>2, <1>3 DEF CallInv, SlotInv, SlotsReleased, InCall
<1>6. BudgetInv'
  <2>1. Blocked' = Blocked
    BY <1>2 DEF Blocked
  <2> QED
    BY <1>2, <1>3, <2>1 DEF BudgetInv
<1>7. ASSUME cuts = 0
      PROVE  /\ Shape' /\ Cardinality(given) = idx + 1 /\ skewed = {}
             /\ idx + 1 \in 1 .. cfg.n
             /\ idx + 1 = cfg.n => given = 0 .. cfg.n - 1
             /\ Half' = Half
             /\ \A i \in given :
                  /\ sockfd'[i] \in open /\ peer[sockfd'[i]] = i
                  /\ i < Half => sockfdSend'[i] = sockfd'[i]
                  /\ i >= cfg.n - Half =>
                       sockfdRcv'[i - (cfg.n - Half)] = sockfd'[i]
  <2>1. Shape /\ skewed = {}
    BY <1>0, <1>7 DEF WireInv, InCall
  <2>2. Half' = Half
    BY <1>2 DEF Half
  <2> QED
    BY <1>0, <1>1, <1>2, <1>7, <2>1, <2>2, GivenCount, TakeSlotPlaces DEF Shape
<1>8. WireInv'
  <2>1. CASE pc' = "idle"
    BY <1>2, <1>7, <2>1 DEF WireInv, InCall
  <2>2. CASE pc' = "socket"
    <3>1. Done' = given
      BY <1>2, <2>2 DEF Done
    <3> QED
      BY <1>2, <1>7, <2>2, <3>1 DEF WireInv, InPlace
  <2> QED
    BY <1>3, <2>1, <2>2
<1>9. Wired'
  <2> SUFFICES ASSUME state' = "Connected", cuts = 0 PROVE Wired'
    BY <1>2 DEF Wired
  <2>0. state # "Connected"
    BY <1>0 DEF CallInv, InCall
  <2>1. idx + 1 \notin DOMAIN sockfd
        /\ IF timeOut >= 0 THEN SetTimeout(Values(sockfdRcv'), timeOut)
                           ELSE UNCHANGED rcvTimeo
    BY <1>3, <2>0
  <2>2. cfg.n \in Nat \ {0} /\ Half \in Nat /\ Half <= cfg.n
    BY ConfigType DEF TypeOK
  <2>3. DOMAIN sockfd' = 0 .. cfg.n - 1 /\ DOMAIN sockfdSend' = 0 .. Half - 1
        /\ DOMAIN sockfdRcv' = 0 .. Half - 1
    BY <1>2, <1>7 DEF Shape
  <2>4. given = 0 .. cfg.n - 1
    BY <1>0, <1>1, <1>7, <2>1, <2>2, <2>3
  <2>5. \A i \in 0 .. Half - 1 :
          /\ sockfdSend'[i] = sockfd'[i]
          /\ sockfdRcv'[i] = sockfd'[i + cfg.n - Half]
    <3> TAKE i \in 0 .. Half - 1
    <3>1. i \in given /\ i < Half /\ i + cfg.n - Half \in given
          /\ i + cfg.n - Half >= cfg.n - Half
          /\ (i + cfg.n - Half) - (cfg.n - Half) = i
      BY <2>2, <2>4
    <3>2. sockfdRcv'[(i + cfg.n - Half) - (cfg.n - Half)]
            = sockfd'[i + cfg.n - Half]
      BY <1>7, <3>1
    <3> QED
      BY <1>7, <3>1, <3>2
  <2>6. \A i \in 0 .. Half - 1 :
          timeOut >= 0 => rcvTimeo'[sockfdRcv'[i]] = timeOut
    <3> TAKE i \in 0 .. Half - 1
    <3> HAVE timeOut >= 0
    <3>1. i + cfg.n - Half \in given
      BY <2>2, <2>4
    <3>2. /\ sockfdRcv'[i] \in open /\ peer[sockfdRcv'[i]] = i + cfg.n - Half
          /\ i + cfg.n - Half \in Nat
      BY <1>7, <2>2, <2>5, <3>1
    <3>3. sockfdRcv'[i] \in Sockets /\ sockfdRcv'[i] \in Fd
      BY <3>2 DEF Sockets, NotSocket, TypeOK
    <3>4. sockfdRcv'[i] \in Values(sockfdRcv')
      BY <2>3 DEF Values
    <3> QED
      BY <2>1, <3>3, <3>4 DEF SetTimeout
  <2>7. \A i \in DOMAIN sockfd' : sockfd'[i] \in open' \ skewed'
                                  /\ peer'[sockfd'[i]] = i
    BY <1>2, <1>7, <2>3, <2>4
  <2> QED
    BY <1>2, <2>3, <2>5, <2>6, <2>7 DEF Wired, Half
<1> QED
  BY <1>4, <1>5, <1>6, <1>8, <1>9

-----------------------------------------------------------------------------
LEMMA NextInv == IInv /\ [Next]_vars => IInv'
<1> SUFFICES ASSUME IInv, [Next]_vars PROVE IInv'
  OBVIOUS
<1>1. CASE \E e \in Endpoints, c \in Configs, t \in TimeOuts :
             InitConnection(e, c, t)
  BY <1>1, InitConnectionKeeps
<1>2. CASE Connect
  BY <1>2, ConnectKeeps
<1>3. CASE Disconnect
  BY <1>3, DisconnectKeeps
<1>4. CASE Alone
  BY <1>4, OpenSocketKeeps, TcpRefusedKeeps, ControlTimeoutKeeps,
     RejectedKeeps DEF Alone
<1>5. CASE TcpConnected
  BY <1>5, TcpConnectedKeeps
<1>6. CASE ControlRejected \/ RestRejected
  BY <1>6, RejectedKeeps
<1>7. CASE \E w \in cfg.cut \cup {CtrlWords} : ControlRead(w)
  BY <1>7, ControlReadKeeps
<1>8. CASE RestRead
  BY <1>8, RestReadKeeps
<1>9. CASE UNCHANGED vars
  BY <1>9
  DEF IInv, TypeOK, CallInv, BudgetInv, SlotInv, WireInv, Wired, Blocked,
      SlotsReleased, Done, Half, Shape, InPlace, vars, client, config, server,
      clock, history
<1> QED
  BY <1>1, <1>2, <1>3, <1>4, <1>5, <1>6, <1>7, <1>8, <1>9 DEF Next, InConnect

(* IInv always holds (all of initConnection, connect and disconnect).      *)
THEOREM Invariance == Spec => []IInv
  BY InitInv, NextInv, PTL DEF Spec

(* The variables always hold values of their types: a slot never holds what*)
(* is no descriptor, and no loop counts below zero (configSocket).         *)
THEOREM TypeCorrect == Spec => []TypeOK
<1>1. IInv => TypeOK
  BY DEF IInv
<1> QED
  BY <1>1, Invariance, PTL

(* No socket keeps connect() sleeping and receiving for longer than its two*)
(* loops and one receive may, nor has it try more often, whatever the      *)
(* server does; the time of each try in ::connect, which no time-out is set*)
(* for, comes on top of it (connect 249, configSocket 135).                *)
THEOREM BudgetKept == Spec => []WaitBudget
<1>1. IInv => WaitBudget
  BY DEF IInv, BudgetInv, Blocked, WaitBudget
<1> QED
  BY <1>1, Invariance, PTL

(* Outside of a call a client that is not connected has empty slots only,  *)
(* however the call before failed (set_error, disconnect).                 *)
THEOREM SlotsAreReleased == Spec => []SlotsReleased
<1>1. IInv => SlotsReleased
  BY DEF IInv, SlotInv
<1> QED
  BY <1>1, Invariance, PTL

(* Whatever the order in which the server gives out the slots, a connected *)
(* bundle is wired as it said, as long as no control block was cut short   *)
(* (connect, configSocket 160-231).                                        *)
THEOREM WiredAsAnnounced == Spec => []Wired
<1>1. IInv => Wired
  BY DEF IInv
<1> QED
  BY <1>1, Invariance, PTL

-----------------------------------------------------------------------------
(***************************************************************************)
(* What connect() leaves open: for any servers, any number of descriptors  *)
(* and of calls, no more sockets than calls that failed and control blocks *)
(* that were cut short.                                                    *)
(*                                                                         *)
(* LeakBound alone is not inductive.  A socket can get descriptor 0, once  *)
(* disconnect() has closed that for an empty slot, and a slot that is 0    *)
(* says nothing then.  And a socket whose control block was cut short sits *)
(* in a slot that is another's, who will displace it later.  LeakInv says  *)
(* that the books can be kept all the same: there is a set H of slots that *)
(* are really filled, such that the sockets that are in none of them, and  *)
(* those that sit where another one is still to come, are paid for.        *)
(***************************************************************************)

(* The socket that connect() is setting up.                                *)
InHand  == IF pc \in {"idle", "socket"} THEN {} ELSE {sock}

(* The sockets that nobody will close if H are the slots that are filled,  *)
(* and with them those that will be displaced.                             *)
Lost(H) == Sockets \ ({sockfd[i] : i \in H} \cup InHand)
Owed(H) == Cardinality(Lost(H)) + Cardinality(H \ Done)

(* No slot is filled.                                                      *)
NoneTaken == \/ pc = "idle" /\ state # "Connected"
             \/ pc \in InCall /\ idx = 0

(* A control block that was cut short is paid for before its socket takes  *)
(* the slot, which may be any.                                             *)
Accounts(H) ==
  /\ Owed(H) <= failures + cuts
  /\ pc = "rest" /\ socketID # peer[sock] => Owed(H) + 1 <= failures + cuts
  /\ NoneTaken => H = {}

(* From the first control block on the vectors have the size announced,    *)
(* cut short or not.                                                       *)
SizeInv ==
  /\ pc = "rest" => socketID \in 0 .. cfg.n - 1
  /\ pc = "rest" \/ (pc \in InCall /\ idx > 0) => DOMAIN sockfd = 0 .. cfg.n - 1

(* Inductive with IInv (connect, configSocket, set_error, disconnect).     *)
LeakInv == SizeInv /\ \E H \in SUBSET DOMAIN sockfd : Accounts(H)

-----------------------------------------------------------------------------
(* The sets that are counted are finite.                                   *)
LEMMA Counted ==
  ASSUME TypeOK, NEW H \in SUBSET DOMAIN sockfd
  PROVE  /\ IsFiniteSet(Sockets) /\ IsFiniteSet(Lost(H)) /\ IsFiniteSet(H \ Done)
         /\ Cardinality(Lost(H)) \in Nat /\ Cardinality(H \ Done) \in Nat
         /\ Owed(H) \in Nat
<1>1. IsFiniteSet(Fd)
  <2>1. 0 \in Int /\ MaxFd \in Int
    BY ConnectAssumption
  <2> QED
    BY <2>1, FS_Interval DEF Fd
<1>2. IsFiniteSet(Sockets) /\ IsFiniteSet(Lost(H))
  <2>1. Sockets \subseteq Fd /\ Lost(H) \subseteq Fd
    BY DEF Sockets, Lost, TypeOK
  <2> QED
    BY <1>1, <2>1, FS_Subset
<1>3. IsFiniteSet(H \ Done)
  <2>1. PICK k \in Sizes : sockfd \in [0 .. k - 1 -> Fd]
    BY DEF TypeOK, Vector
  <2>2. k \in Nat
    <3>1. \A c \in Configs : c.n \in Nat
      BY ConnectAssumption
    <3> QED
      BY <3>1 DEF Sizes
  <2>3. IsFiniteSet(0 .. k - 1)
    <3>1. 0 \in Int /\ k - 1 \in Int
      BY <2>2
    <3> QED
      BY <3>1, FS_Interval
  <2>4. H \ Done \subseteq 0 .. k - 1
    BY <2>1
  <2> QED
    BY <2>3, <2>4, FS_Subset
<1>4. Cardinality(Lost(H)) \in Nat /\ Cardinality(H \ Done) \in Nat
  BY <1>2, <1>3, FS_CardinalityType
<1> QED
  BY <1>2, <1>3, <1>4 DEF Owed

(* One element more counts one more.                                       *)
LEMMA OneMore ==
  ASSUME NEW A, IsFiniteSet(A), NEW x, NEW B, B \subseteq A \cup {x}
  PROVE  /\ IsFiniteSet(B)
         /\ Cardinality(A) \in Nat /\ Cardinality(B) \in Nat
         /\ Cardinality(B) <= Cardinality(A) + 1
<1>1. /\ IsFiniteSet(A \cup {x})
      /\ Cardinality(A \cup {x}) = Cardinality(A)
         \/ Cardinality(A \cup {x}) = Cardinality(A) + 1
  BY FS_AddElement
<1>2. /\ IsFiniteSet(B) /\ Cardinality(B) <= Cardinality(A \cup {x})
  BY <1>1, FS_Subset
<1>3. Cardinality(A) \in Nat /\ Cardinality(B) \in Nat
  BY <1>2, FS_CardinalityType
<1> QED
  BY <1>1, <1>2, <1>3

(* A step that loses nothing owes no more.                                 *)
LEMMA NoMoreOwed ==
  ASSUME TypeOK, NEW H \in SUBSET DOMAIN sockfd, NEW G,
         Lost(G)' \subseteq Lost(H), (G \ Done)' \subseteq H \ Done
  PROVE  Owed(G)' \in Nat /\ Owed(G)' <= Owed(H)
<1>1. /\ IsFiniteSet(Lost(H)) /\ IsFiniteSet(H \ Done)
      /\ Cardinality(Lost(H)) \in Nat /\ Cardinality(H \ Done) \in Nat
  BY Counted
<1>2. /\ IsFiniteSet(Lost(G)') /\ Cardinality(Lost(G)') <= Cardinality(Lost(H))
      /\ IsFiniteSet((G \ Done)')
      /\ Cardinality((G \ Done)') <= Cardinality(H \ Done)
  BY <1>1, FS_Subset
<1>3. Cardinality(Lost(G)') \in Nat /\ Cardinality((G \ Done)') \in Nat
  BY <1>2, FS_CardinalityType
<1> QED
  BY <1>1, <1>2, <1>3 DEF Owed

(* A step that loses one socket owes one more at most.                     *)
LEMMA OneMoreOwed ==
  ASSUME TypeOK, NEW H \in SUBSET DOMAIN sockfd, NEW G, NEW fd,
         Lost(G)' \subseteq Lost(H) \cup {fd}, (G \ Done)' \subseteq H \ Done
  PROVE  Owed(G)' \in Nat /\ Owed(G)' <= Owed(H) + 1
<1>1. /\ IsFiniteSet(Lost(H)) /\ IsFiniteSet(H \ Done)
      /\ Cardinality(Lost(H)) \in Nat /\ Cardinality(H \ Done) \in Nat
  BY Counted
<1>2. /\ Cardinality(Lost(G)') \in Nat
      /\ Cardinality(Lost(G)') <= Cardinality(Lost(H)) + 1
  BY <1>1, OneMore
<1>3. IsFiniteSet((G \ Done)') /\ Cardinality((G \ Done)') <= Cardinality(H \ Done)
  BY <1>1, FS_Subset
<1>4. Cardinality((G \ Done)') \in Nat
  BY <1>3, FS_CardinalityType
<1> QED
  BY <1>1, <1>2, <1>3, <1>4 DEF Owed

(* A client that was never connected has no socket.                        *)
LEMMA InitLeak == Init => LeakInv
<1> SUFFICES ASSUME Init PROVE LeakInv
  OBVIOUS
<1>1. SizeInv
  BY DEF Init, SizeInv, InCall
<1>2. Lost({}) = {}
  <2>1. Stdin \in Fd
    BY ConnectAssumption DEF Fd, Stdin
  <2> QED
    BY <2>1 DEF Init, Lost, Sockets
<1>3. {} \ Done = {}
  OBVIOUS
<1>4. Owed({}) = 0
  BY <1>2, <1>3, FS_EmptySet DEF Owed
<1>5. Accounts({})
  BY <1>4 DEF Accounts, Init
<1> QED
  BY <1>1, <1>5 DEF LeakInv

-----------------------------------------------------------------------------
(* set_error: the slots are closed, the socket in hand is not.             *)
LEMMA FailLeaks ==
  ASSUME IInv, LeakInv, FailWithError, pc \in {"tcp", "control", "rest"}
  PROVE  LeakInv'
<1> USE DEF FailWithError, Return, CloseSockets
<1>1. PICK H \in SUBSET DOMAIN sockfd : Accounts(H)
  BY DEF LeakInv
<1>2. /\ pc' = "idle" /\ state' = "Disconnected" /\ open' = open \ Values(sockfd)
      /\ peer' = peer /\ failures' = failures + 1 /\ cuts' = cuts
  OBVIOUS
<1>3. Lost({})' \subseteq Lost(H) \cup {sock}
  BY <1>2 DEF Lost, Sockets, InHand, Values
<1>4. Owed({})' \in Nat /\ Owed({})' <= Owed(H) + 1
  <2>1. ({} \ Done)' \subseteq H \ Done
    OBVIOUS
  <2> QED
    BY <1>3, <2>1, OneMoreOwed DEF IInv
<1>5. Owed({})' <= failures' + cuts'
  <2>1. Owed(H) \in Nat /\ failures \in Nat /\ cuts \in Nat
    BY Counted DEF IInv, TypeOK
  <2> QED
    BY <1>1, <1>2, <1>4, <2>1 DEF Accounts
<1>6. Accounts({})'
  BY <1>2, <1>5 DEF Accounts
<1>7. SizeInv'
  BY <1>2 DEF SizeInv, InCall
<1> QED
  BY <1>6, <1>7 DEF LeakInv

(* Another round of a loop that waits.                                     *)
Books == <<state, sockfd, pc, idx, sock, socketID, open, peer, server, history>>

LEMMA WaitLeaks ==
  ASSUME LeakInv, UNCHANGED Books
  PROVE  LeakInv'
<1>1. PICK H \in SUBSET DOMAIN sockfd : Accounts(H)
  BY DEF LeakInv
<1>2. Lost(H)' = Lost(H) /\ (H \ Done)' = H \ Done
  BY DEF Books, Lost, Sockets, InHand, Done, server
<1>3. Owed(H)' = Owed(H)
  BY <1>2 DEF Owed
<1>4. NoneTaken' = NoneTaken
  BY DEF Books, NoneTaken
<1>5. Accounts(H)'
  BY <1>1, <1>3, <1>4 DEF Accounts, Books, history
<1>6. SizeInv'
  BY DEF LeakInv, SizeInv, Books, server
<1> QED
  BY <1>1, <1>5, <1>6 DEF LeakInv, Books

(* The calls of the program: none of them loses a socket.                  *)
LEMMA InitConnectionLeaks ==
  ASSUME LeakInv, NEW e \in Endpoints, NEW c \in Configs, NEW t \in TimeOuts,
         InitConnection(e, c, t)
  PROVE  LeakInv'
<1>1. PICK H \in SUBSET DOMAIN sockfd : Accounts(H)
  BY DEF LeakInv
<1>2. /\ pc = "idle" /\ pc' = "idle" /\ state # "Connected"
      /\ UNCHANGED <<sockfd, open, peer, sock, given, failures, cuts>>
  BY DEF InitConnection, server, history
<1>3. H = {}
  BY <1>1, <1>2 DEF Accounts, NoneTaken
<1>4. Lost({})' = Lost({}) /\ ({} \ Done)' = {} \ Done
  BY <1>2 DEF Lost, Sockets, InHand
<1>5. Owed({})' = Owed({})
  BY <1>4 DEF Owed
<1>6. Accounts({})' /\ SizeInv'
  BY <1>1, <1>2, <1>3, <1>5 DEF Accounts, SizeInv, InCall
<1> QED
  BY <1>6 DEF LeakInv

LEMMA DisconnectLeaks ==
  ASSUME IInv, LeakInv, Disconnect
  PROVE  LeakInv'
<1>1. PICK H \in SUBSET DOMAIN sockfd : Accounts(H)
  BY DEF LeakInv
<1>2. /\ pc = "idle" /\ pc' = "idle" /\ open' = open \ Values(sockfd)
      /\ UNCHANGED <<peer, failures, cuts>>
  BY DEF Disconnect, CloseSockets, history
<1>3. Lost({})' \subseteq Lost(H) /\ ({} \ Done)' \subseteq H \ Done
  BY <1>2 DEF Lost, Sockets, InHand, Values
<1>4. Owed({})' \in Nat /\ Owed({})' <= Owed(H) /\ Owed(H) \in Nat
  BY <1>3, NoMoreOwed, Counted DEF IInv
<1>5. failures \in Nat /\ cuts \in Nat
  BY DEF IInv, TypeOK
<1>6. Accounts({})' /\ SizeInv'
  BY <1>1, <1>2, <1>4, <1>5 DEF Accounts, SizeInv, InCall
<1> QED
  BY <1>6 DEF LeakInv

LEMMA ConnectLeaks ==
  ASSUME LeakInv, Connect
  PROVE  LeakInv'
<1>1. PICK H \in SUBSET DOMAIN sockfd : Accounts(H)
  BY DEF LeakInv
<1>2. /\ pc = "idle" /\ state # "Connected" /\ pc' = "socket" /\ idx' = 0
      /\ UNCHANGED <<sockfd, open, peer, sock, failures, cuts>>
  BY DEF Connect, client, history
<1>3. H = {}
  BY <1>1, <1>2 DEF Accounts, NoneTaken
<1>4. Lost({})' = Lost({}) /\ ({} \ Done)' = {} \ Done
  BY <1>2 DEF Lost, Sockets, InHand
<1>5. Owed({})' = Owed({})
  BY <1>4 DEF Owed
<1>6. Accounts({})' /\ SizeInv'
  BY <1>1, <1>2, <1>3, <1>5 DEF Accounts, SizeInv, InCall
<1> QED
  BY <1>6 DEF LeakInv

-----------------------------------------------------------------------------
(* A new socket is in hand, and then the server knows it.                  *)
LEMMA OpenSocketLeaks ==
  ASSUME IInv, LeakInv, OpenSocket
  PROVE  LeakInv'
<1>1. PICK H \in SUBSET DOMAIN sockfd : Accounts(H)
  BY DEF LeakInv
<1>2. /\ pc = "socket" /\ pc' = "tcp"
      /\ UNCHANGED <<sockfd, state, idx, cfg, given, failures, cuts>>
  BY DEF OpenSocket, client, server, history
<1>3. Lost(H)' \subseteq Lost(H)
  <2>1. Sockets' \subseteq Sockets \cup {sock'}
    BY DEF OpenSocket, Sockets, IInv, TypeOK
  <2>2. InHand' = {sock'} /\ InHand = {}
    BY <1>2 DEF InHand
  <2> QED
    BY <1>2, <2>1, <2>2 DEF Lost
<1>4. (H \ Done)' \subseteq H \ Done
  BY <1>2 DEF Done
<1>5. Owed(H)' \in Nat /\ Owed(H)' <= Owed(H) /\ Owed(H) \in Nat
  BY <1>3, <1>4, NoMoreOwed, Counted DEF IInv
<1>6. failures \in Nat /\ cuts \in Nat
  BY DEF IInv, TypeOK
<1>7. NoneTaken' = NoneTaken
  BY <1>2 DEF NoneTaken, InCall
<1>8. Accounts(H)' /\ SizeInv'
  BY <1>1, <1>2, <1>5, <1>6, <1>7 DEF Accounts, LeakInv, SizeInv, InCall
<1> QED
  BY <1>1, <1>2, <1>8 DEF LeakInv

LEMMA TcpConnectedLeaks ==
  ASSUME IInv, LeakInv, TcpConnected
  PROVE  LeakInv'
<1>1. PICK H \in SUBSET DOMAIN sockfd : Accounts(H)
  BY DEF LeakInv
<1>2. PICK id \in (0 .. cfg.n - 1) \ given :
        given' = given \cup {id} /\ peer' = [peer EXCEPT ![sock] = id]
  BY DEF TcpConnected
<1>3. /\ pc = "tcp" /\ pc' = "control" /\ sock' = sock /\ sock # NoFd
      /\ UNCHANGED <<sockfd, state, idx, open, cfg, failures, cuts>>
  BY DEF TcpConnected, client, history
<1>4. sock \in Fd /\ peer'[sock] = id
      /\ \A fd \in Fd : fd # sock => peer'[fd] = peer[fd]
  BY <1>2, <1>3 DEF IInv, TypeOK, CallInv
<1>5. Lost(H)' \subseteq Lost(H)
  <2>1. Sockets' \subseteq Sockets \cup {sock}
    BY <1>3, <1>4 DEF Sockets, IInv, TypeOK
  <2>2. InHand' = {sock} /\ InHand = {sock}
    BY <1>3 DEF InHand
  <2> QED
    BY <1>3, <2>1, <2>2 DEF Lost
<1>6. (H \ Done)' \subseteq H \ Done
  BY <1>2, <1>3, <1>4 DEF Done
<1>7. Owed(H)' \in Nat /\ Owed(H)' <= Owed(H) /\ Owed(H) \in Nat
  BY <1>5, <1>6, NoMoreOwed, Counted DEF IInv
<1>8. failures \in Nat /\ cuts \in Nat
  BY DEF IInv, TypeOK
<1>9. NoneTaken' = NoneTaken
  BY <1>3 DEF NoneTaken, InCall
<1>10. Accounts(H)' /\ SizeInv'
  BY <1>1, <1>3, <1>7, <1>8, <1>9 DEF Accounts, LeakInv, SizeInv, InCall
<1> QED
  BY <1>1, <1>3, <1>10 DEF LeakInv

-----------------------------------------------------------------------------
(* The control block of an outdated server leaves the socket open.         *)
LEMMA OutdatedLeaks ==
  ASSUME IInv, LeakInv, NEW w \in Nat, pc = "control", ReadOutdated(w)
  PROVE  LeakInv'
<1>1. PICK H \in SUBSET DOMAIN sockfd : Accounts(H)
  BY DEF LeakInv
<1>2. /\ idx = 0 /\ pc' = "idle" /\ failures' = failures + 1 /\ cuts' = cuts
      /\ UNCHANGED <<state, sockfd, open, peer>>
  BY DEF ReadOutdated, Return, client
<1>3. H = {}
  BY <1>1, <1>2 DEF Accounts, NoneTaken, InCall
<1>4. Lost({})' \subseteq Lost(H) \cup {sock} /\ ({} \ Done)' \subseteq H \ Done
  BY <1>2, <1>3 DEF Lost, Sockets, InHand
<1>5. Owed({})' \in Nat /\ Owed({})' <= Owed(H) + 1 /\ Owed(H) \in Nat
  BY <1>4, OneMoreOwed, Counted DEF IInv
<1>6. failures \in Nat /\ cuts \in Nat
  BY DEF IInv, TypeOK
<1>7. Accounts({})' /\ SizeInv'
  BY <1>1, <1>2, <1>5, <1>6 DEF Accounts, SizeInv, InCall
<1> QED
  BY <1>7 DEF LeakInv

(* Where the model ends the books are closed as they were.                 *)
LEMMA UndefinedLeaks ==
  ASSUME IInv, LeakInv, pc = "control", ReadUndefined
  PROVE  LeakInv'
<1>1. PICK H \in SUBSET DOMAIN sockfd : Accounts(H)
  BY DEF LeakInv
<1>2. /\ pc' = "undefined" /\ state # "Connected"
      /\ UNCHANGED <<state, sockfd, sock, open, peer, given, failures, cuts>>
  BY DEF ReadUndefined, client, server, history, IInv, CallInv, InCall
<1>3. Lost(H)' \subseteq Lost(H) /\ (H \ Done)' \subseteq H \ Done
  BY <1>2 DEF Lost, Sockets, InHand, Done
<1>4. Owed(H)' \in Nat /\ Owed(H)' <= Owed(H) /\ Owed(H) \in Nat
  BY <1>3, NoMoreOwed, Counted DEF IInv
<1>5. failures \in Nat /\ cuts \in Nat
  BY DEF IInv, TypeOK
<1>6. Accounts(H)' /\ SizeInv'
  BY <1>1, <1>2, <1>4, <1>5 DEF Accounts, SizeInv, NoneTaken, InCall
<1> QED
  BY <1>1, <1>2, <1>6 DEF LeakInv

(* A control block that is used: it was cut short, and that is counted, or *)
(* the slot it names is the one the server gave to the socket.             *)
LEMMA UsedLeaks ==
  ASSUME IInv, LeakInv, NEW w \in Nat, pc = "control", ReadUsed(w),
         w <= CtrlWords
  PROVE  LeakInv'
<1>1. PICK H \in SUBSET DOMAIN sockfd : Accounts(H)
  BY DEF LeakInv
<1>2. /\ pc' = "rest" /\ socketID' = ReadSlot(w)
      /\ cuts' = cuts + (IF w < CtrlWords THEN 1 ELSE 0)
      /\ UNCHANGED <<state, idx, sock, open, peer, cfg, given, failures>>
  BY DEF ReadUsed, server
<1>3. cfg.n \in Nat \ {0} /\ given \subseteq 0 .. cfg.n - 1 /\ idx \in Nat
      /\ peer[sock] \in given /\ failures \in Nat /\ cuts \in Nat
      /\ cfg.n \in Sizes
  BY ConfigType DEF IInv, TypeOK, CallInv, Sizes
<1>4. SizeInv'
  <2>1. socketID' \in 0 .. cfg.n - 1
    <3>1. socketID' = peer[sock] \/ socketID' = 0
      BY <1>2 DEF ReadSlot
    <3>2. peer[sock] \in 0 .. cfg.n - 1
      BY <1>3
    <3>3. 0 \in 0 .. cfg.n - 1
      <4>1. \A n \in Nat \ {0} : 0 \in 0 .. n - 1
        OBVIOUS
      <4> QED
        BY <1>3, <4>1
    <3> QED
      BY <3>1, <3>2, <3>3
  <2>2. DOMAIN sockfd' = 0 .. cfg.n - 1
    <3>1. CASE idx = 0
      <4>1. sockfd' = Resize(sockfd, cfg.n)
        BY <3>1 DEF ReadUsed, Configure, ReadSockets
      <4> QED
        BY <1>3, <4>1, ResizeType DEF IInv, TypeOK
    <3>2. CASE idx # 0
      BY <1>3, <3>2 DEF ReadUsed, LeakInv, SizeInv, InCall
    <3> QED
      BY <3>1, <3>2
  <2> QED
    BY <1>2, <2>1, <2>2 DEF SizeInv
<1>5. Lost(H)' = Lost(H) /\ H \in SUBSET DOMAIN sockfd'
  <2>1. CASE idx = 0
    <3>1. H = {}
      BY <1>1, <2>1 DEF Accounts, NoneTaken, InCall
    <3> QED
      BY <1>2, <3>1 DEF Lost, Sockets, InHand
  <2>2. CASE idx # 0
    BY <1>2, <2>2 DEF ReadUsed, Lost, Sockets, InHand
  <2> QED
    BY <2>1, <2>2
<1>6. (H \ Done)' = H \ Done
  BY <1>2 DEF Done
<1>7. Owed(H)' = Owed(H) /\ Owed(H) \in Nat
  BY <1>5, <1>6, Counted DEF Owed, IInv
<1>8. NoneTaken' = NoneTaken
  BY <1>2 DEF NoneTaken, InCall
<1>9. Accounts(H)'
  <2>1. CASE w < CtrlWords
    <3>1. cuts' = cuts + 1
      BY <1>2, <2>1
    <3>2. Owed(H) + 1 <= failures' + cuts'
      BY <1>1, <1>2, <1>3, <1>7, <3>1 DEF Accounts
    <3>3. Owed(H)' <= failures' + cuts' /\ Owed(H)' + 1 <= failures' + cuts'
      BY <1>2, <1>3, <1>7, <3>1, <3>2
    <3> QED
      BY <1>1, <1>8, <3>3 DEF Accounts
  <2>2. CASE ~(w < CtrlWords)
    <3>1. w = CtrlWords /\ cuts' = cuts
      BY <1>2, <1>3, <2>2 DEF CtrlWords
    <3>2. socketID' = peer'[sock']
      BY <1>2, <3>1 DEF ReadSlot, CtrlWords
    <3> QED
      BY <1>1, <1>2, <1>7, <1>8, <3>1, <3>2 DEF Accounts
  <2> QED
    BY <2>1, <2>2
<1> QED
  BY <1>4, <1>5, <1>9 DEF LeakInv

LEMMA ControlReadLeaks ==
  ASSUME IInv, LeakInv, NEW w \in cfg.cut \cup {CtrlWords}, ControlRead(w)
  PROVE  LeakInv'
<1>1. w \in Nat /\ w <= CtrlWords /\ pc = "control"
  BY ConfigType DEF IInv, TypeOK, CtrlWords, ControlRead
<1>2. \/ FailWithError
      \/ ReadOutdated(w)
      \/ ReadUndefined
      \/ ReadUsed(w)
  BY <1>1
  DEF ControlRead, ReadOutdated, ReadUndefined, ReadUsed, CtrlWords
<1> QED
  BY <1>1, <1>2, FailLeaks, OutdatedLeaks, UndefinedLeaks, UsedLeaks

-----------------------------------------------------------------------------
(* The socket takes its slot.  If the slot is that of the socket, whoever  *)
(* is in it was counted before; if it is not, who is in it is lost, or the *)
(* slot is still owed to another: the cut has paid for one of them.        *)
LEMMA RestReadLeaks ==
  ASSUME IInv, LeakInv, RestRead
  PROVE  LeakInv'
<1>0. PICK p, s : p = peer[sock] /\ s = socketID
  OBVIOUS
<1>1. PICK H \in SUBSET DOMAIN sockfd : Accounts(H)
  BY DEF LeakInv
<1>2. /\ pc = "rest" /\ sockfd' = [sockfd EXCEPT ![s] = sock]
      /\ UNCHANGED <<sock, open, peer, cfg, given, failures, cuts>>
      /\ idx' = idx + 1
      /\ \/ pc' = "socket"
         \/ pc' = "idle" /\ state' = "Connected"
  <2>1. failures \in Nat
    BY DEF IInv, TypeOK
  <2> QED
    BY <1>0, <2>1 DEF RestRead, TakeSlot, server, history, Return
<1>3. /\ s \in DOMAIN sockfd /\ DOMAIN sockfd' = DOMAIN sockfd
      /\ DOMAIN sockfd = 0 .. cfg.n - 1
  BY <1>0, <1>2 DEF LeakInv, SizeInv
<1>4. /\ p \in given /\ idx \in Nat /\ failures \in Nat /\ cuts \in Nat
  BY <1>0, <1>2 DEF IInv, TypeOK, CallInv
<1> DEFINE G == H \cup {s}
<1>5. Done = given \ {p} /\ Done' = given
  BY <1>0, <1>2 DEF Done
<1>6. /\ InHand = {sock} /\ InHand' = {}
      /\ Sockets' = Sockets
      /\ {sockfd'[i] : i \in G} = {sockfd[i] : i \in H \ {s}} \cup {sock}
  BY <1>2, <1>3 DEF InHand, Sockets
<1>7. Lost(G)' \subseteq Lost(H) \cup {sockfd[s]}
      /\ (s \notin H => Lost(G)' \subseteq Lost(H))
  BY <1>6 DEF Lost
<1>8. Owed(G)' \in Nat /\ Owed(H) \in Nat
      /\ Owed(G)' <= Owed(H) + (IF s = p THEN 0 ELSE 1)
  <2>0. /\ IsFiniteSet(Lost(H)) /\ IsFiniteSet(H \ Done)
        /\ Cardinality(Lost(H)) \in Nat /\ Cardinality(H \ Done) \in Nat
        /\ Owed(H) \in Nat
    BY Counted DEF IInv
  <2>1. CASE s \in H /\ s # p
    <3>1. (G \ Done)' \subseteq H \ Done
      BY <1>5, <2>1
    <3> QED
      BY <1>7, <2>0, <2>1, <3>1, OneMoreOwed DEF IInv
  <2>2. CASE s \in H /\ s = p
    <3>1. (G \ Done)' = (H \ Done) \ {p} /\ p \in H \ Done
      BY <1>4, <1>5, <2>2
    <3>5. PICK D : D = H \ Done
      OBVIOUS
    <3>6. IsFiniteSet(D \ {p}) /\ Cardinality(D \ {p}) = Cardinality(D) - 1
      BY <2>0, <3>1, <3>5, FS_RemoveElement
    <3>2. IsFiniteSet((G \ Done)')
          /\ Cardinality((G \ Done)') = Cardinality(H \ Done) - 1
      BY <3>1, <3>5, <3>6
    <3>3. /\ Cardinality(Lost(G)') \in Nat
          /\ Cardinality(Lost(G)') <= Cardinality(Lost(H)) + 1
      BY <1>7, <2>0, OneMore
    <3>4. Cardinality((G \ Done)') \in Nat
      BY <3>2, FS_CardinalityType
    <3> QED
      BY <2>0, <2>2, <3>2, <3>3, <3>4 DEF Owed
  <2>3. CASE s \notin H /\ s # p
    <3>1. (G \ Done)' \subseteq (H \ Done) \cup {s}
      BY <1>5, <2>3
    <3>5. PICK D, E : D = H \ Done /\ E = (G \ Done)'
      OBVIOUS
    <3>6. IsFiniteSet(D) /\ E \subseteq D \cup {s}
      BY <2>0, <3>1, <3>5
    <3>7. Cardinality(E) \in Nat /\ Cardinality(E) <= Cardinality(D) + 1
      BY <3>6, OneMore
    <3>2. /\ Cardinality((G \ Done)') \in Nat
          /\ Cardinality((G \ Done)') <= Cardinality(H \ Done) + 1
      BY <3>5, <3>7
    <3>3. IsFiniteSet(Lost(G)') /\ Cardinality(Lost(G)') <= Cardinality(Lost(H))
      BY <1>7, <2>0, <2>3, FS_Subset
    <3>4. Cardinality(Lost(G)') \in Nat
      BY <3>3, FS_CardinalityType
    <3> QED
      BY <2>0, <2>3, <3>2, <3>3, <3>4 DEF Owed
  <2>4. CASE s \notin H /\ s = p
    <3>1. (G \ Done)' \subseteq H \ Done
      BY <1>4, <1>5, <2>4
    <3>2. Owed(G)' \in Nat /\ Owed(G)' <= Owed(H)
      BY <1>7, <2>4, <3>1, NoMoreOwed DEF IInv
    <3> QED
      BY <2>0, <2>4, <3>2
  <2> QED
    BY <2>1, <2>2, <2>3, <2>4
<1>9. Owed(G)' <= failures + cuts
  <2>1. CASE s = p
    BY <1>1, <1>4, <1>8, <2>1 DEF Accounts
  <2>2. CASE s # p
    BY <1>0, <1>1, <1>2, <1>4, <1>8, <2>2 DEF Accounts
  <2> QED
    BY <2>1, <2>2
<1>10. NoneTaken' = FALSE
  BY <1>2, <1>4 DEF NoneTaken, InCall
<1>11. Accounts(G)'
  BY <1>2, <1>9, <1>10 DEF Accounts
<1>12. SizeInv'
  BY <1>2, <1>3 DEF SizeInv, InCall
<1>13. G \in SUBSET DOMAIN sockfd'
  BY <1>3
<1> QED
  BY <1>11, <1>12, <1>13 DEF LeakInv

-----------------------------------------------------------------------------
LEMMA NextLeak == IInv /\ LeakInv /\ [Next]_vars => LeakInv'
<1> SUFFICES ASSUME IInv, LeakInv, [Next]_vars PROVE LeakInv'
  OBVIOUS
<1>1. CASE \E e \in Endpoints, c \in Configs, t \in TimeOuts :
             InitConnection(e, c, t)
  BY <1>1, InitConnectionLeaks
<1>2. CASE Connect
  BY <1>2, ConnectLeaks
<1>3. CASE Disconnect
  BY <1>3, DisconnectLeaks
<1>4. CASE OpenSocket
  BY <1>4, OpenSocketLeaks
<1>5. CASE TcpRefused \/ ControlTimeout
  <2>1. \/ FailWithError /\ pc \in {"tcp", "control"}
        \/ UNCHANGED Books
    BY <1>5 DEF TcpRefused, ControlTimeout, Books, client
  <2> QED
    BY <2>1, FailLeaks, WaitLeaks
<1>6. CASE RestTimeout \/ RestRejected \/ ControlRejected
  <2>1. FailWithError /\ pc \in {"control", "rest"}
    BY <1>6 DEF RestTimeout, RestRejected, RestMissing, ControlRejected
  <2> QED
    BY <2>1, FailLeaks
<1>7. CASE TcpConnected
  BY <1>7, TcpConnectedLeaks
<1>8. CASE \E w \in cfg.cut \cup {CtrlWords} : ControlRead(w)
  BY <1>8, ControlReadLeaks
<1>9. CASE RestRead
  BY <1>9, RestReadLeaks
<1>10. CASE UNCHANGED vars
  BY <1>10, WaitLeaks DEF vars, client, Books
<1> QED
  BY <1>1, <1>2, <1>3, <1>4, <1>5, <1>6, <1>7, <1>8, <1>9, <1>10
  DEF Next, InConnect, Alone

(* LeakInv always holds (all of initConnection, connect and disconnect).   *)
THEOREM LeakInvariance == Spec => []LeakInv
  BY InitLeak, NextLeak, Invariance, PTL DEF Spec

(* However often connect() fails, and wherever in the handshake, it leaves *)
(* at most one socket open for each time, and one for each control block   *)
(* that was cut short (connect 241-288, configSocket 194, set_error).      *)
THEOREM LeaksAreBounded == Spec => []LeakBound
<1>1. ASSUME IInv, LeakInv PROVE LeakBound
  <2>1. PICK H \in SUBSET DOMAIN sockfd : Accounts(H)
    BY <1>1 DEF LeakInv
  <2> DEFINE inHand == IF pc = "idle" THEN {} ELSE {sock}
             open2  == Sockets \ (Values(sockfd) \cup inHand)
  <2>2. open2 \subseteq Lost(H)
    BY DEF Lost, InHand, Values
  <2>3. IsFiniteSet(Lost(H)) /\ Cardinality(Lost(H)) \in Nat
        /\ Cardinality(H \ Done) \in Nat
    BY <1>1, Counted DEF IInv
  <2>4. IsFiniteSet(open2) /\ Cardinality(open2) <= Cardinality(Lost(H))
    BY <2>2, <2>3, FS_Subset
  <2>5. Cardinality(open2) \in Nat /\ failures \in Nat /\ cuts \in Nat
    BY <1>1, <2>4, FS_CardinalityType DEF IInv, TypeOK
  <2>6. Cardinality(open2) <= failures + cuts
    BY <2>1, <2>3, <2>4, <2>5 DEF Accounts, Owed
  <2> QED
    BY <2>6 DEF LeakBound
<1> QED
  BY <1>1, Invariance, LeakInvariance, PTL
=============================================================================
