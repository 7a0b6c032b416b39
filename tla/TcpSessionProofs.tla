-------------------------- MODULE TcpSessionProofs --------------------------
(***************************************************************************)
(* For any number of sockets, any file, any faults of the network and any  *)
(* interleaving of the two threads: what they close between them when one  *)
(* or both run into an error is every socket of the bundle and not the     *)
(* output file.  The code takes no lock there; the argument is what        *)
(* lastError_, set before the first close, keeps the other thread from.    *)
(*                                                                         *)
(* For the same: the two clients are a striped bundle of sockets (MapInv   *)
(* is what the mapping to StripedStream needs), so that the blocks come in *)
(* order, and a transfer without an error has delivered all of them.       *)
(***************************************************************************)
EXTENDS TcpSession, SequenceTheorems, TLAPS

Slots  == 0 .. Count - 1
Kinds  == {"stdin", "socket", "free", "file"}
Places == {"open", "check", "call", "in", "close", "zero", "failed", "finish",
           "join", "done"}
Closing(t) == pc[t] \in {"close", "zero"}

(* What the rest of the invariant needs of the types.                      *)
SessionType ==
  /\ setup \in Setups /\ lastError \in BOOLEAN
  /\ sockfd \in [Slots -> 0 .. Count]
  /\ pc \in [Thread -> Places] /\ slot \in [Thread -> 0 .. Count]
  /\ fileFd \in Fd /\ kind \in [Fd -> Kinds]

(* disconnect() 290-304, by one thread or by both: a slot is zeroed only   *)
(* after its socket is closed, and once an error is on record either some  *)
(* thread is still at it or every slot is zero.                            *)
CloseInv ==
  /\ \A t \in Thread : Closing(t) => lastError /\ slot[t] \in Slots
  /\ \A t \in Thread : pc[t] = "zero" => kind[slot[t] + 1] # "socket"
  /\ \A t \in Thread : Closing(t) =>
       \A j \in Slots : j < slot[t] => sockfd[j] = 0
  /\ \A j \in Slots :
       /\ sockfd[j] \in {0, j + 1}
       /\ sockfd[j] = 0 => kind[j + 1] # "socket"
  /\ lastError => (\E t \in Thread : Closing(t)) \/ \A j \in Slots : sockfd[j] = 0
  /\ kind[0] # "socket" /\ kind[Count + 1] # "socket"
  /\ pc[S] = "done" => pc[R] = "done"

(* The output file is not open yet, or has the number of a closed socket.  *)
Early == fileFd # Count + 1

(* Slot j has the socket that connect() gave it.                           *)
Whole(j) == sockfd[j] = j + 1 /\ kind[j + 1] = "socket"

(* If it has the number of a socket, that is because the sender has closed *)
(* it, and the receiver does no more than to see the error; the sender,    *)
(* which works through the slots once, does not come to that number again. *)
FileInv ==
  /\ ~lastError => kind[0] = "stdin" /\ \A j \in Slots : Whole(j)
  /\ pc[R] = "open" => Early
  /\ ~Early /\ pc[R] # "done" => kind[fileFd] = "file"
  /\ Early =>
       /\ pc[R] \in {"open", "check", "finish", "done"}
       /\ lastError => pc[S] \notin {"call", "in"}
       /\ kind[0] = "stdin"
       /\ pc[R] \in {"check", "finish"} => lastError /\ kind[fileFd] = "file"
       /\ Closing(S) => \A j \in Slots : j > slot[S] => Whole(j)
       /\ pc[S] = "close" => Whole(slot[S])
       /\ pc[S] = "zero" => sockfd[slot[S]] = slot[S] + 1

IInv == SessionType /\ CloseInv /\ FileInv

-----------------------------------------------------------------------------
(* A bundle has a socket at least, and its slots are descriptors.          *)
LEMMA CountType ==
  ASSUME setup \in Setups
  PROVE  /\ Count \in Nat \ {0}
         /\ 0 \in Fd /\ Count + 1 \in Fd /\ 0 \in Slots
         /\ \A j \in Slots : j \in Nat /\ j + 1 \in Fd /\ j + 1 \in 1 .. Count
         /\ \A fd \in Fd : fd = 0 \/ fd = Count + 1 \/ (fd - 1 \in Slots
                                                        /\ fd = (fd - 1) + 1)
<1>1. Count \in Nat \ {0}
  BY SessionAssumption DEF Count, Duplex
<1> QED
  BY <1>1 DEF Fd, Stdin, Slots

LEMMA ThreadsDiffer == S # R /\ Thread = {S, R}
BY DEF S, R, Thread

LEMMA InitInv == Init => IInv
<1> SUFFICES ASSUME Init PROVE IInv
  OBVIOUS
<1> USE DEF Init
<1>2. /\ Count \in Nat \ {0} /\ 0 \in Fd /\ Count + 1 \in Fd /\ 0 \in Slots
      /\ \A j \in Slots : j \in Nat /\ j + 1 \in Fd /\ j + 1 \in 1 .. Count
  BY CountType
<1>3. /\ pc[S] = "check" /\ pc[R] = "open"
      /\ \A t \in Thread : pc[t] \in {"check", "open"}
  BY ThreadsDiffer
<1>4. \A j \in Slots : sockfd[j] = j + 1 /\ kind[j + 1] = "socket"
  BY <1>2 DEF Bundle, Slots, Fd, Stdin
<1>5. kind[0] = "stdin" /\ kind[Count + 1] = "free"
  BY <1>2 DEF Stdin
<1>6. SessionType
  <2>1. sockfd \in [Slots -> 0 .. Count]
    BY <1>2 DEF Bundle, Slots
  <2>2. pc \in [Thread -> Places] /\ slot \in [Thread -> 0 .. Count]
    BY <1>2 DEF Places
  <2>3. kind \in [Fd -> Kinds]
    BY DEF Kinds
  <2>4. fileFd \in Fd
    BY <1>2 DEF Stdin
  <2> QED
    BY <2>1, <2>2, <2>3, <2>4 DEF SessionType
<1>7. CloseInv
  BY <1>2, <1>3, <1>4, <1>5 DEF CloseInv, Closing
<1>8. FileInv
  BY <1>2, <1>3, <1>4, <1>5 DEF FileInv, Closing, Early, Whole, Stdin
<1> QED
  BY <1>6, <1>7, <1>8 DEF IInv

-----------------------------------------------------------------------------
(* Steps outside of open, close and disconnect().                          *)
Files == <<setup, lastError, sockfd, slot, fileFd, kind>>

LEMMA SenderQuiet ==
  ASSUME IInv, UNCHANGED Files, NEW p \in {"check", "call", "in", "join", "done"},
         pc' = [pc EXCEPT ![S] = p], ~Closing(S),
         p \in {"call", "in"} => ~lastError \/ pc[S] \in {"call", "in"},
         p = "done" => pc[R] = "done"
  PROVE  IInv'
<1> USE DEF IInv, Files
<1>1. pc'[S] = p /\ pc'[R] = pc[R] /\ pc' \in [Thread -> Places]
  BY ThreadsDiffer DEF SessionType, Places
<1>2. Count' = Count /\ Slots' = Slots /\ Fd' = Fd
  BY DEF Count, Slots, Fd, Duplex
<1>3. SessionType'
  BY <1>1, <1>2 DEF SessionType
<1>4. ~Closing(S)' /\ (Closing(R)' <=> Closing(R))
  BY <1>1 DEF Closing
<1>5. CloseInv'
  BY <1>1, <1>2, <1>4, ThreadsDiffer DEF CloseInv, Closing
<1>6. FileInv'
  BY <1>1, <1>2, <1>4 DEF FileInv, Early, Whole
<1> QED
  BY <1>3, <1>5, <1>6

LEMMA ReceiverQuiet ==
  ASSUME IInv, UNCHANGED Files, NEW p \in {"check", "call", "in", "finish"},
         pc' = [pc EXCEPT ![R] = p],
         pc[R] \in {"check", "call", "in", "failed"},
         pc[R] = "check" => p = "finish" \/ ~lastError
  PROVE  IInv'
<1> USE DEF IInv, Files
<1>1. pc'[R] = p /\ pc'[S] = pc[S] /\ pc' \in [Thread -> Places]
  BY ThreadsDiffer DEF SessionType, Places
<1>2. Count' = Count /\ Slots' = Slots /\ Fd' = Fd
  BY DEF Count, Slots, Fd, Duplex
<1>3. SessionType'
  BY <1>1, <1>2 DEF SessionType
<1>4. ~Closing(R) /\ ~Closing(R)' /\ (Closing(S)' <=> Closing(S))
  BY <1>1 DEF Closing
<1>5. CloseInv'
  BY <1>1, <1>2, <1>4, ThreadsDiffer DEF CloseInv, Closing
<1>6. Early => p = "finish"
  BY DEF FileInv
<1>7. FileInv'
  BY <1>1, <1>2, <1>4, <1>6 DEF FileInv, Early, Whole
<1> QED
  BY <1>3, <1>5, <1>7

-----------------------------------------------------------------------------
(* set_error: a thread that was in a system call starts to disconnect. The *)
(* receiver gets there only with a file that was open before any socket    *)
(* was closed.                                                             *)
LEMMA FailKeeps ==
  ASSUME IInv, NEW t \in Thread, pc[t] \in {"call", "in"}, Fail(t),
         UNCHANGED setup
  PROVE  IInv'
<1> USE DEF IInv, Fail, Goto
<1>0. /\ Count \in Nat \ {0} /\ 0 \in Slots
      /\ \A j \in Slots : j \in Nat
  BY CountType DEF SessionType
<1>1. /\ pc' \in [Thread -> Places] /\ pc'[t] = "close"
      /\ \A u \in Thread : u # t => pc'[u] = pc[u]
      /\ slot' \in [Thread -> 0 .. Count] /\ slot'[t] = 0
      /\ \A u \in Thread : u # t => slot'[u] = slot[u]
  BY <1>0 DEF SessionType, Places
<1>2. Count' = Count /\ Slots' = Slots /\ Fd' = Fd
  BY DEF Count, Slots, Fd, Duplex
<1>3. /\ lastError' = TRUE /\ sockfd' = sockfd /\ kind' = kind
      /\ fileFd' = fileFd
  BY DEF output
<1>4. SessionType'
  BY <1>1, <1>2, <1>3 DEF SessionType
<1>5. \A u \in Thread : u # t => (Closing(u)' <=> Closing(u))
  BY <1>1 DEF Closing
<1>6. CloseInv'
  BY <1>0, <1>1, <1>2, <1>3, <1>5, ThreadsDiffer DEF CloseInv, Closing
<1>7. FileInv'
  <2>1. CASE t = R
    <3>1. ~Early
      BY <2>1 DEF FileInv
    <3> QED
      BY <1>1, <1>2, <1>3, <2>1, <3>1, ThreadsDiffer DEF FileInv, Early
  <2>2. CASE t = S
    <3>1. pc'[R] = pc[R] /\ pc'[S] = "close" /\ slot'[S] = 0
      BY <1>1, <2>2, ThreadsDiffer
    <3>2. Early => ~lastError /\ \A j \in Slots : Whole(j)
      BY <2>2 DEF FileInv
    <3> QED
      BY <1>0, <1>2, <1>3, <3>1, <3>2 DEF FileInv, Early, Whole
  <2> QED
    BY <2>1, <2>2, ThreadsDiffer
<1> QED
  BY <1>4, <1>6, <1>7

(* close(): the number is that of a socket or 0, and not of the file.      *)
LEMMA CloseSlotKeeps ==
  ASSUME IInv, NEW t \in Thread, CloseSlot(t), UNCHANGED setup
  PROVE  IInv'
<1> USE DEF IInv, CloseSlot, Goto
<1> DEFINE k == slot[t]
           fd == sockfd[k]
<1>0. /\ Count \in Nat \ {0} /\ k \in Slots
      /\ \A j \in Slots : j \in Nat /\ j + 1 \in Fd /\ j + 1 # Count + 1
      /\ fd \in {0, k + 1} /\ fd \in Fd /\ fd # Count + 1
      /\ 0 \in Fd /\ Count + 1 \in Fd
  <2>1. Count \in Nat \ {0} /\ 0 \in Fd /\ Count + 1 \in Fd
        /\ \A j \in Slots : j \in Nat /\ j + 1 \in Fd /\ j + 1 \in 1 .. Count
    BY CountType DEF SessionType
  <2>2. k \in Slots /\ fd \in {0, k + 1}
    BY DEF CloseInv, Closing
  <2> QED
    BY <2>1, <2>2
<1>1. /\ pc' \in [Thread -> Places] /\ pc[t] = "close" /\ pc'[t] = "zero"
      /\ \A u \in Thread : u # t => pc'[u] = pc[u]
      /\ \A u \in Thread : Closing(u)' <=> Closing(u)
  BY DEF SessionType, Places, Closing
<1>2. Count' = Count /\ Slots' = Slots /\ Fd' = Fd
  BY DEF Count, Slots, Fd, Duplex
<1>3. /\ lastError' = lastError /\ sockfd' = sockfd /\ slot' = slot
      /\ fileFd' = fileFd
      /\ kind' \in [Fd -> Kinds] /\ kind'[fd] = "free"
      /\ \A g \in Fd : g # fd => kind'[g] = kind[g]
      /\ \A g \in Fd : kind[g] # "socket" => kind'[g] # "socket"
  BY <1>0 DEF output, SessionType, Kinds
<1>4. SessionType'
  BY <1>1, <1>2, <1>3 DEF SessionType
<1>5. kind'[k + 1] # "socket"
  <2>1. CASE fd = k + 1
    BY <1>3, <2>1
  <2>2. CASE fd = 0
    BY <1>0, <1>3, <2>2 DEF CloseInv
  <2> QED
    BY <1>0, <2>1, <2>2
<1>6. CloseInv'
  <2>1. \A u \in Thread : Closing(u)' =>
          /\ lastError' /\ slot'[u] \in Slots'
          /\ \A j \in Slots' : j < slot'[u] => sockfd'[j] = 0
    BY <1>1, <1>2, <1>3 DEF CloseInv
  <2>2. \A u \in Thread : pc'[u] = "zero" => kind'[slot'[u] + 1] # "socket"
    <3> TAKE u \in Thread
    <3> HAVE pc'[u] = "zero"
    <3>1. CASE u = t
      BY <1>3, <1>5, <3>1
    <3>2. CASE u # t
      <4>1. pc[u] = "zero" /\ kind[slot[u] + 1] # "socket" /\ slot[u] \in Slots
        BY <1>1, <3>2 DEF CloseInv, Closing
      <4> QED
        BY <1>0, <1>3, <4>1
    <3> QED
      BY <3>1, <3>2
  <2>3. \A j \in Slots' : /\ sockfd'[j] \in {0, j + 1}
                          /\ sockfd'[j] = 0 => kind'[j + 1] # "socket"
    BY <1>0, <1>2, <1>3 DEF CloseInv
  <2>4. lastError' => \E u \in Thread : Closing(u)'
    BY <1>1 DEF Closing
  <2>5. kind'[0] # "socket" /\ kind'[Count' + 1] # "socket"
    BY <1>0, <1>2, <1>3 DEF CloseInv
  <2>6. pc'[S] = "done" => pc'[R] = "done"
    BY <1>1, ThreadsDiffer DEF CloseInv
  <2> QED
    BY <2>1, <2>2, <2>3, <2>4, <2>5, <2>6 DEF CloseInv
<1>7. FileInv'
  <2>0. lastError' /\ lastError
    BY <1>1, <1>3 DEF CloseInv, Closing
  <2>1. pc'[R] = "open" => Early'
    BY <1>1, <1>2, <1>3, ThreadsDiffer DEF FileInv, Early
  <2>2. CASE ~Early
    <3>1. fileFd = Count + 1 /\ kind'[fileFd] = kind[fileFd]
      BY <1>0, <1>3, <2>2 DEF Early
    <3>2. pc'[R] # "done" => pc[R] # "done"
      BY <1>1, ThreadsDiffer
    <3> QED
      BY <1>2, <1>3, <2>0, <2>1, <2>2, <3>1, <3>2 DEF FileInv, Early
  <2>3. CASE Early
    <3>1. t = S
      BY <1>1, <2>3, ThreadsDiffer DEF FileInv
    <3>2. pc'[R] = pc[R] /\ pc'[S] = "zero"
      BY <1>1, <3>1, ThreadsDiffer
    <3>3. Whole(k) /\ \A j \in Slots : j > k => Whole(j)
      BY <1>1, <2>3, <3>1 DEF FileInv, Closing
    <3>4. fd = k + 1 /\ kind[fd] = "socket"
      BY <3>3 DEF Whole
    <3>5. kind'[0] = "stdin"
      BY <1>0, <1>3, <2>3, <3>4 DEF FileInv
    <3>6. pc'[R] \in {"check", "finish"} => kind'[fileFd] = "file"
      BY <1>3, <2>3, <3>2, <3>4 DEF FileInv, SessionType
    <3>7. \A j \in Slots : j > k => sockfd'[j] = j + 1 /\ kind'[j + 1] = "socket"
      BY <1>0, <1>3, <3>3, <3>4 DEF Whole
    <3> QED
      BY <1>2, <1>3, <2>0, <2>3, <3>1, <3>2, <3>4, <3>5, <3>6, <3>7
      DEF FileInv, Early, Whole, Closing
  <2> QED
    BY <2>2, <2>3
<1> QED
  BY <1>4, <1>6, <1>7

(* sock = 0: what the number stood for is closed by now.                   *)
LEMMA ZeroSlotKeeps ==
  ASSUME IInv, NEW t \in Thread, ZeroSlot(t), UNCHANGED setup
  PROVE  IInv'
<1> USE DEF IInv, ZeroSlot, Goto
<1> DEFINE k == slot[t]
           p == IF k + 1 = Count THEN "failed" ELSE "close"
<1>0. /\ Count \in Nat \ {0} /\ k \in Slots /\ k \in Nat /\ k + 1 \in 0 .. Count
      /\ k + 1 # Count => k + 1 \in Slots
      /\ \A j \in Slots : j \in Nat /\ (j < k + 1 => j < k \/ j = k)
                          /\ j < Count
      /\ kind[k + 1] # "socket"
  <2>1. Count \in Nat \ {0}
    BY CountType DEF SessionType
  <2>2. k \in Slots /\ kind[k + 1] # "socket"
    BY DEF CloseInv, Closing
  <2> QED
    BY <2>1, <2>2 DEF Slots
<1>1. /\ pc' \in [Thread -> Places] /\ pc[t] = "zero" /\ pc'[t] = p
      /\ \A u \in Thread : u # t => pc'[u] = pc[u]
      /\ \A u \in Thread : u # t => (Closing(u)' <=> Closing(u))
  BY DEF SessionType, Places, Closing
<1>2. Count' = Count /\ Slots' = Slots /\ Fd' = Fd
  BY DEF Count, Slots, Fd, Duplex
<1>3. /\ lastError' = lastError /\ kind' = kind /\ fileFd' = fileFd
      /\ slot' \in [Thread -> 0 .. Count] /\ slot'[t] = k + 1
      /\ \A u \in Thread : u # t => slot'[u] = slot[u]
      /\ sockfd' \in [Slots -> 0 .. Count] /\ sockfd'[k] = 0
      /\ \A j \in Slots : j # k => sockfd'[j] = sockfd[j]
  <2>1. 0 \in 0 .. Count
    BY <1>0
  <2> QED
    BY <1>0, <2>1 DEF output, SessionType
<1>4. SessionType'
  BY <1>1, <1>2, <1>3 DEF SessionType
<1>5. \A j \in Slots : j < k + 1 => sockfd'[j] = 0
  BY <1>0, <1>1, <1>3 DEF CloseInv, Closing
<1>6. CloseInv'
  <2>1. \A u \in Thread : Closing(u)' =>
          /\ lastError' /\ slot'[u] \in Slots'
          /\ \A j \in Slots' : j < slot'[u] => sockfd'[j] = 0
    <3> TAKE u \in Thread
    <3> HAVE Closing(u)'
    <3>1. CASE u = t
      <4>1. k + 1 # Count
        BY <1>1, <3>1 DEF Closing
      <4>2. lastError
        BY <1>1 DEF CloseInv, Closing
      <4> QED
        BY <1>0, <1>2, <1>3, <1>5, <3>1, <4>1, <4>2
    <3>2. CASE u # t
      BY <1>1, <1>2, <1>3, <3>2 DEF CloseInv
    <3> QED
      BY <3>1, <3>2
  <2>2. \A u \in Thread : pc'[u] = "zero" => kind'[slot'[u] + 1] # "socket"
    BY <1>1, <1>3 DEF CloseInv
  <2>3. \A j \in Slots' : /\ sockfd'[j] \in {0, j + 1}
                          /\ sockfd'[j] = 0 => kind'[j + 1] # "socket"
    BY <1>0, <1>2, <1>3 DEF CloseInv
  <2>4. Closing(t)' \/ \A j \in Slots' : sockfd'[j] = 0
    <3>1. CASE k + 1 = Count
      BY <1>0, <1>2, <1>5, <3>1
    <3>2. CASE k + 1 # Count
      BY <1>1, <3>2 DEF Closing
    <3> QED
      BY <3>1, <3>2
  <2>5. kind'[0] # "socket" /\ kind'[Count' + 1] # "socket"
    BY <1>2, <1>3 DEF CloseInv
  <2>6. pc'[S] = "done" => pc'[R] = "done"
    BY <1>1, ThreadsDiffer DEF CloseInv
  <2> QED
    BY <2>1, <2>2, <2>3, <2>4, <2>5, <2>6 DEF CloseInv
<1>7. FileInv'
  <2>0. lastError' /\ lastError
    BY <1>1, <1>3 DEF CloseInv, Closing
  <2>2. CASE ~Early
    <3>1. pc'[R] # "open" /\ (pc'[R] # "done" => pc[R] # "done")
      BY <1>1, <2>2, ThreadsDiffer DEF FileInv
    <3> QED
      BY <1>2, <1>3, <2>0, <2>2, <3>1 DEF FileInv, Early
  <2>3. CASE Early
    <3>1. t = S
      BY <1>1, <2>3, ThreadsDiffer DEF FileInv
    <3>2. pc'[R] = pc[R] /\ pc'[S] = p /\ slot'[S] = k + 1
      BY <1>1, <1>3, <3>1, ThreadsDiffer
    <3>3. \A j \in Slots : j > k => Whole(j)
      BY <1>1, <2>3, <3>1 DEF FileInv, Closing
    <3>4. \A j \in Slots : j > k => sockfd'[j] = j + 1 /\ kind'[j + 1] = "socket"
      BY <1>0, <1>3, <3>3 DEF Whole
    <3>5. p = "close" => k + 1 \in Slots /\ k + 1 > k
      BY <1>0
    <3>6. \A j \in Slots : j > k + 1 => j > k
      BY <1>0
    <3> QED
      BY <1>2, <1>3, <2>0, <2>3, <3>2, <3>4, <3>5, <3>6
      DEF FileInv, Early, Whole, Closing
  <2> QED
    BY <2>2, <2>3
<1> QED
  BY <1>4, <1>6, <1>7

-----------------------------------------------------------------------------
(* The file is opened: while no error is on record only the descriptor     *)
(* above the sockets is free.                                              *)
LEMMA OpenFileKeeps ==
  ASSUME IInv, OpenFile, UNCHANGED setup
  PROVE  IInv'
<1> USE DEF IInv, OpenFile, Goto
<1>0. Count' = Count /\ Slots' = Slots /\ Fd' = Fd
  BY DEF Count, Slots, Fd, Duplex
<1>1. pc[R] = "open" /\ Early
  BY DEF FileInv
<1>2. /\ \/ pc'[R] = "done" /\ fileFd' = fileFd /\ kind' = kind
         \/ /\ pc'[R] = "check" /\ fileFd' \in Fd /\ kind[fileFd'] = "free"
            /\ kind' = [kind EXCEPT ![fileFd'] = "file"]
      /\ pc'[S] = pc[S] /\ pc' \in [Thread -> Places]
      /\ lastError' = lastError /\ sockfd' = sockfd /\ slot' = slot
  BY ThreadsDiffer DEF SessionType, Places
<1>3. /\ kind' \in [Fd -> Kinds] /\ fileFd' \in Fd
      /\ \A g \in Fd : kind'[g] = "socket" <=> kind[g] = "socket"
      /\ \A g \in Fd : kind[g] # "free" => kind'[g] = kind[g]
      /\ pc'[R] = "check" => kind'[fileFd'] = "file"
  BY <1>2 DEF SessionType, Kinds
<1>4. SessionType'
  BY <1>0, <1>2, <1>3 DEF SessionType
<1>5. /\ Count + 1 \in Fd /\ 0 \in Fd
      /\ \A j \in Slots : j + 1 \in Fd
      /\ \A fd \in Fd : fd = 0 \/ fd = Count + 1 \/ (fd - 1 \in Slots
                                                     /\ fd = (fd - 1) + 1)
  BY CountType DEF SessionType
<1>6. CloseInv'
  <2>1. \A t \in Thread : Closing(t)' <=> Closing(t)
    BY <1>1, <1>2, ThreadsDiffer DEF Closing
  <2>2. \A t \in Thread : pc'[t] = "zero" => pc[t] = "zero" /\ slot[t] \in Slots
    BY <1>1, <1>2, ThreadsDiffer DEF CloseInv, Closing
  <2> QED
    BY <1>0, <1>1, <1>2, <1>3, <1>5, <2>1, <2>2 DEF CloseInv
<1>7. FileInv'
  <2>1. \A j \in Slots : Whole(j) => Whole(j)'
    BY <1>0, <1>2, <1>3, <1>5 DEF Whole
  <2>2. kind[0] = "stdin" => kind'[0] = "stdin"
    BY <1>3, <1>5
  <2>3. CASE pc'[R] = "done"
    BY <1>0, <1>1, <1>2, <2>3 DEF FileInv, Early, Whole, Closing
  <2>4. CASE pc'[R] = "check"
    <3>1. kind[fileFd'] = "free" /\ fileFd' \in Fd
      BY <1>2, <2>4
    <3>2. ~lastError => fileFd' = Count + 1
      <4> SUFFICES ASSUME ~lastError PROVE fileFd' = Count + 1
        OBVIOUS
      <4>1. fileFd' # 0
        BY <3>1 DEF FileInv
      <4>2. \A j \in Slots : fileFd' # j + 1
        BY <3>1 DEF FileInv, Whole
      <4> QED
        BY <1>5, <3>1, <4>1, <4>2
    <3>3. Closing(S)' <=> Closing(S)
      BY <1>2 DEF Closing
    <3>4. pc[S] = "close" => slot[S] \in Slots
      BY ThreadsDiffer DEF CloseInv, Closing
    <3> QED
      BY <1>0, <1>1, <1>2, <1>3, <2>1, <2>2, <2>4, <3>2, <3>3, <3>4
      DEF FileInv, Early
  <2> QED
    BY <1>2, <2>3, <2>4
<1> QED
  BY <1>4, <1>6, <1>7

LEMMA CloseFileKeeps ==
  ASSUME IInv, CloseFile, UNCHANGED setup
  PROVE  IInv'
<1> USE DEF IInv, CloseFile, Goto
<1>0. Count' = Count /\ Slots' = Slots /\ Fd' = Fd
  BY DEF Count, Slots, Fd, Duplex
<1>1. /\ pc[R] = "finish" /\ pc'[R] = "done" /\ pc'[S] = pc[S]
      /\ pc' \in [Thread -> Places] /\ kind[fileFd] = "file"
      /\ lastError' = lastError /\ sockfd' = sockfd /\ slot' = slot
      /\ fileFd' = fileFd
  <2>1. pc[R] = "finish" /\ kind[fileFd] = "file"
    BY DEF FileInv
  <2>2. pc' = [pc EXCEPT ![R] = "done"] /\ pc \in [Thread -> Places]
    BY DEF SessionType
  <2> QED
    BY <2>1, <2>2, ThreadsDiffer DEF Places, output
<1>2. /\ kind' \in [Fd -> Kinds]
      /\ \A g \in Fd : kind[g] # "file" => kind'[g] = kind[g]
      /\ \A g \in Fd : kind[g] # "socket" => kind'[g] # "socket"
  BY <1>1 DEF SessionType, Kinds
<1>3. SessionType'
  BY <1>0, <1>1, <1>2 DEF SessionType
<1>4. /\ Count + 1 \in Fd /\ 0 \in Fd
      /\ \A j \in Slots : j + 1 \in Fd
  BY CountType DEF SessionType
<1>5. /\ \A t \in Thread : Closing(t)' <=> Closing(t)
      /\ \A t \in Thread : pc'[t] = "zero" => pc[t] = "zero"
      /\ \A t \in Thread : Closing(t) => slot[t] \in Slots
  BY <1>1, ThreadsDiffer DEF Closing, CloseInv
<1>6. CloseInv'
  <2>1. \A t \in Thread : pc'[t] = "zero" => kind'[slot'[t] + 1] # "socket"
    BY <1>1, <1>2, <1>4, <1>5 DEF CloseInv, Closing
  <2> QED
    BY <1>0, <1>1, <1>2, <1>4, <1>5, <2>1 DEF CloseInv
<1>7. FileInv'
  <2>1. \A j \in Slots : Whole(j) => Whole(j)'
    BY <1>0, <1>1, <1>2, <1>4 DEF Whole
  <2>2. kind[0] = "stdin" => kind'[0] = "stdin"
    BY <1>2, <1>4
  <2>3. (Closing(S)' <=> Closing(S)) /\ (pc[S] = "close" => slot[S] \in Slots)
    BY <1>5, ThreadsDiffer DEF Closing
  <2> QED
    BY <1>0, <1>1, <2>1, <2>2, <2>3 DEF FileInv, Early
<1> QED
  BY <1>3, <1>6, <1>7

-----------------------------------------------------------------------------
(* The sender's steps, the receiver's, and what happens to a connection.   *)
LEMMA AfterSendKeeps ==
  ASSUME IInv, NEW ok \in BOOLEAN, AfterSend(ok), UNCHANGED Files,
         pc[S] \in {"check", "in", "failed"}
  PROVE  IInv'
<1>1. PICK p \in {"join", "check"} : pc' = [pc EXCEPT ![S] = p]
  BY DEF AfterSend, Goto
<1> QED
  BY <1>1, SenderQuiet DEF Closing

LEMMA SenderKeeps ==
  ASSUME IInv, SenderStep
  PROVE  IInv'
<1> USE ThreadsDiffer DEF output
<1>0. setup' = setup
  BY DEF SenderStep
<1>1. CASE SendCheck
  <2>1. UNCHANGED Files /\ pc[S] = "check"
    BY <1>0, <1>1 DEF SendCheck, Files
  <2>2. CASE AfterSend(FALSE)
    BY <2>1, <2>2, AfterSendKeeps
  <2>3. CASE ~lastError /\ pc' = [pc EXCEPT ![S] = "call"]
    BY <2>1, <2>3, SenderQuiet DEF Closing
  <2> QED
    BY <1>1, <2>2, <2>3 DEF SendCheck, Goto
<1>2. CASE SendEnter
  <2>1. pc[S] = "call"
    BY <1>2 DEF SendEnter
  <2>2. CASE Fail(S)
    BY <1>0, <2>1, <2>2, FailKeeps
  <2>3. CASE UNCHANGED Files /\ pc' = [pc EXCEPT ![S] = "in"]
    BY <2>1, <2>3, SenderQuiet DEF Closing
  <2> QED
    BY <1>0, <1>2, <2>2, <2>3 DEF SendEnter, Goto, Files
<1>3. CASE SendIn
  <2>1. pc[S] = "in"
    BY <1>3 DEF SendIn
  <2>2. CASE Fail(S)
    BY <1>0, <2>1, <2>2, FailKeeps
  <2>3. CASE AfterSend(TRUE) /\ UNCHANGED Files
    BY <2>1, <2>3, AfterSendKeeps
  <2>4. CASE UNCHANGED <<Files, pc>>
    BY <2>4 DEF IInv, Files, SessionType, CloseInv, FileInv, Closing, Early,
                Whole, Slots, Count, Fd, Duplex
  <2> QED
    BY <1>0, <1>3, <2>2, <2>3, <2>4 DEF SendIn, Files
<1>4. CASE SendFailed
  BY <1>0, <1>4, AfterSendKeeps DEF SendFailed, Files
<1>5. CASE Join
  BY <1>0, <1>5, SenderQuiet DEF Join, Goto, Files, Closing
<1>6. CASE CloseSlot(S) \/ ZeroSlot(S)
  BY <1>0, <1>6, CloseSlotKeeps, ZeroSlotKeeps
<1> QED
  BY <1>1, <1>2, <1>3, <1>4, <1>5, <1>6 DEF SenderStep

LEMMA ReceiverKeeps ==
  ASSUME IInv, ReceiverStep
  PROVE  IInv'
<1> USE ThreadsDiffer DEF output
<1>0. setup' = setup
  BY DEF ReceiverStep
<1>1. CASE OpenFile \/ CloseFile
  BY <1>0, <1>1, OpenFileKeeps, CloseFileKeeps
<1>2. CASE ReceiveCheck
  <2>1. UNCHANGED Files /\ pc[R] = "check"
    BY <1>0, <1>2 DEF ReceiveCheck, Files
  <2>2. \/ pc' = [pc EXCEPT ![R] = "finish"]
        \/ ~lastError /\ pc' = [pc EXCEPT ![R] = "call"]
    BY <1>2 DEF ReceiveCheck, Goto
  <2> QED
    BY <2>1, <2>2, ReceiverQuiet
<1>3. CASE ReceiveEnter
  <2>1. pc[R] = "call"
    BY <1>3 DEF ReceiveEnter
  <2>2. CASE Fail(R)
    BY <1>0, <2>1, <2>2, FailKeeps
  <2>3. CASE UNCHANGED Files /\ pc' = [pc EXCEPT ![R] = "in"]
    BY <2>1, <2>3, ReceiverQuiet
  <2> QED
    BY <1>0, <1>3, <2>2, <2>3 DEF ReceiveEnter, Goto, Files
<1>4. CASE ReceiveIn
  <2>1. pc[R] = "in"
    BY <1>4 DEF ReceiveIn
  <2>2. CASE Fail(R)
    BY <1>0, <2>1, <2>2, FailKeeps
  <2>3. CASE UNCHANGED Files
             /\ \E p \in {"check", "call", "finish"} : pc' = [pc EXCEPT ![R] = p]
    BY <2>1, <2>3, ReceiverQuiet
  <2> QED
    BY <1>0, <1>4, <2>2, <2>3 DEF ReceiveIn, AfterReceive, Goto, Files
<1>5. CASE ReceiveFailed
  BY <1>0, <1>5, ReceiverQuiet DEF ReceiveFailed, Goto, Files
<1>6. CASE CloseSlot(R) \/ ZeroSlot(R)
  BY <1>0, <1>6, CloseSlotKeeps, ZeroSlotKeeps
<1> QED
  BY <1>1, <1>2, <1>3, <1>4, <1>5, <1>6 DEF ReceiverStep

LEMMA NextInv == IInv /\ [Next]_vars => IInv'
<1> SUFFICES ASSUME IInv, [Next]_vars PROVE IInv'
  OBVIOUS
<1>1. CASE SenderStep
  BY <1>1, SenderKeeps
<1>2. CASE ReceiverStep
  BY <1>2, ReceiverKeeps
<1>3. CASE FaultStep \/ UNCHANGED vars
  <2>1. UNCHANGED <<Files, pc>>
    BY <1>3 DEF FaultStep, Fault, Files, vars, output
  <2> QED
    BY <2>1 DEF IInv, Files, SessionType, CloseInv, FileInv, Closing, Early,
                Whole, Slots, Count, Fd, Duplex
<1> QED
  BY <1>1, <1>2, <1>3 DEF Next

(* IInv always holds (set_error and disconnect in two threads).            *)
THEOREM Invariance == Spec => []IInv
  BY InitInv, NextInv, PTL DEF Spec

(* The output file stays open until the receiver closes it, although the   *)
(* sender's disconnect() may be closing sockets while it is opened and the *)
(* two may close the same slots (disconnect 290-304, receiveToBin 1007).   *)
THEOREM FileStaysOpen == Spec => []OutputFileStaysOpen
<1>1. IInv => OutputFileStaysOpen
  BY ThreadsDiffer
  DEF IInv, SessionType, FileInv, OutputFileStaysOpen, Places, Early
<1> QED
  BY <1>1, Invariance, PTL

(* When the threads have come together after an error, whichever of them   *)
(* met it, no socket is open (disconnect 290-304).                         *)
THEOREM AllClosed == Spec => []ErrorClosesAll
<1>1. ASSUME IInv PROVE ErrorClosesAll
  <2> SUFFICES ASSUME pc[S] = "done", lastError, NEW fd \in Fd
               PROVE  kind[fd] # "socket"
    BY DEF ErrorClosesAll
  <2>1. \A j \in Slots : sockfd[j] = 0
    BY <1>1, ThreadsDiffer DEF IInv, CloseInv, Closing
  <2>2. fd = 0 \/ fd = Count + 1 \/ (fd - 1 \in Slots /\ fd = (fd - 1) + 1)
    BY <1>1, CountType DEF IInv, SessionType
  <2>3. \A j \in Slots : kind[j + 1] # "socket"
    BY <1>1, <2>1 DEF IInv, CloseInv
  <2>4. kind[0] # "socket" /\ kind[Count + 1] # "socket"
    BY <1>1 DEF IInv, CloseInv
  <2> QED
    BY <2>2, <2>3, <2>4
<1> QED
  BY <1>1, Invariance, PTL

-----------------------------------------------------------------------------
(***************************************************************************)
(* For any number of sockets, any file, any faults of the network and any  *)
(* interleaving of the two threads: a session implements StripedStream,    *)
(* and no transfer is cut short without an error on record.  What is       *)
(* proved of StripedStream (StripedStreamProofs) is used for the session   *)
(* through the refinement mapping: Proved below is that module with the    *)
(* substitution of TcpSession!Stream.                                      *)
(***************************************************************************)

Proved == INSTANCE StripedStreamProofs WITH
  L          <- 1,
  MaxBlocks  <- Total,
  inSend     <- InSend,
  sendSocket <- idx[S],
  bytesSent  <- 0,
  begun      <- Begun,
  inRcv      <- InRcv,
  rcvSocket  <- idx[R],
  buffer     <- <<>>,
  delivered  <- Delivered,
  wire       <- UnitsOnWire,
  broken     <- cut

Lines == {"up", "fin", "rst", "stall", "dead"}
Outcomes == {"none", "noFile", "error", "terminate"}

(* Types of what a session has besides the descriptors (SessionType).      *)
DataType ==
  /\ asked \in Nat /\ started \in Nat
  /\ iSocketSend \in Path /\ iSocketRcv \in Path
  /\ idx \in [Thread -> Path]
  /\ received \in Seq(Nat) /\ rcvEnd \in Outcomes
  /\ wire \in [Path -> Seq(Nat)] /\ cut \subseteq Path
  /\ line \in [1 .. Count -> Lines]

(* The sender stays within the blocks it has to send: no call of send()    *)
(* goes on to ::send that is not one of the Total calls of the transfer.   *)
SentInv ==
  /\ pc[S] = "check" => started <= asked /\ asked < Total
  /\ pc[S] \in {"call", "in", "close", "zero", "failed"} =>
       started <= asked + 1 /\ asked < Total
  /\ pc[S] \in {"call", "in"} => started # 0

(* A connection that has been closed or reset takes nothing any more.      *)
LineInv ==
  \A fd \in 1 .. Count :
    line[fd] \notin {"up", "stall"} => Ends(fd) \subseteq cut

(* The receiver disconnects once at most, and how receiveToBin has ended   *)
(* is known when its loop is left.                                         *)
EndInv ==
  /\ pc[R] \in {"open", "check", "call", "in"} => slot[R] = 0
  /\ pc[R] = "failed" => slot[R] = Count /\ lastError
  /\ rcvEnd = "none" <=> pc[R] \notin {"finish", "done"}
  /\ rcvEnd = "error" => lastError
  /\ rcvEnd = "noFile" => pc[R] = "done"

(* The loop of receiveToBin is left at the first terminate block, and only *)
(* then or after an error.                                                 *)
LoopInv ==
  /\ \A k \in 1 .. Len(received) - 1 : received[k] < Blocks
  /\ rcvEnd = "terminate" => received # <<>> /\ received[Len(received)] >= Blocks
  /\ rcvEnd # "terminate" /\ received # <<>> => received[Len(received)] < Blocks

(* What is inductive together with IInv.                                   *)
MapInv == DataType /\ SentInv /\ LineInv /\ EndInv /\ LoopInv

-----------------------------------------------------------------------------
(* What SessionAssumption says of the sockets and of the blocks.            *)
LEMMA NumbersType == N \in Nat \ {0} /\ Total \in Nat \ {0} /\ 0 \in Path
BY SessionAssumption DEF Total, Path

LEMMA TurnType == ASSUME NEW i \in Path PROVE Turn(i) \in Path
BY NumbersType DEF Turn, Path

(* A socket is an end of one path, and both ends of a path are sockets.    *)
LEMMA EndsOfPaths ==
  ASSUME setup \in Setups
  PROVE  /\ \A fd \in 1 .. Count : \E i \in Path : Ends(fd) = {i}
         /\ \A i \in Path : /\ sockfdSend[i] \in 1 .. Count
                            /\ sockfdRcv[i] \in 1 .. Count
                            /\ i \in Ends(sockfdSend[i])
<1>1. N \in Nat \ {0} /\ (Count = N \/ Count = 2 * N)
  BY NumbersType DEF Count
<1>2. \A i \in Path : sockfdSend[i] = i + 1 /\ sockfdRcv[i] = i + Count - N + 1
  <2>1. \A i \in Path : i \in 0 .. Count - 1 /\ i + Count - N \in 0 .. Count - 1
    BY <1>1 DEF Path
  <2> QED
    BY <2>1 DEF sockfdSend, sockfdRcv, Bundle
<1>3. ASSUME NEW fd \in 1 .. Count PROVE \E i \in Path : Ends(fd) = {i}
  <2>1. CASE fd - 1 \in Path
    <3>1. \A i \in Path : fd \in {sockfdSend[i], sockfdRcv[i]} <=> i = fd - 1
      BY <1>1, <1>2, <2>1 DEF Path
    <3> QED
      BY <2>1, <3>1 DEF Ends
  <2>2. CASE fd - 1 \notin Path
    <3>1. fd - 1 - N \in Path
      BY <1>1, <2>2 DEF Path
    <3>2. \A i \in Path : fd \in {sockfdSend[i], sockfdRcv[i]} <=> i = fd - 1 - N
      BY <1>1, <1>2, <2>2 DEF Path
    <3> QED
      BY <3>1, <3>2 DEF Ends
  <2> QED
    BY <2>1, <2>2
<1>4. \A i \in Path : /\ sockfdSend[i] \in 1 .. Count
                      /\ sockfdRcv[i] \in 1 .. Count
                      /\ i \in Ends(sockfdSend[i])
  BY <1>1, <1>2 DEF Path, Ends
<1> QED
  BY <1>3, <1>4

-----------------------------------------------------------------------------
(* The mapping of a sequence of blocks to one of units goes along with the *)
(* operations on queues.                                                   *)
(* A queue of blocks maps to a queue of the kinds the stream knows.         *)
LEMMA UnitsType ==
  ASSUME NEW s \in Seq(Nat)
  PROVE  /\ Units(s) \in Seq([blk : Nat, off : 1 .. 1])
         /\ Len(Units(s)) = Len(s) /\ Len(s) \in Nat
         /\ \A k \in 1 .. Len(s) : Units(s)[k] = Unit(s[k])
         /\ Units(s) = <<>> <=> s = <<>>
<1> DEFINE U == [blk : Nat, off : 1 .. 1]
<1>1. /\ Len(s) \in Nat /\ DOMAIN s = 1 .. Len(s)
      /\ \A k \in 1 .. Len(s) : s[k] \in Nat
  BY LenProperties, ElementOfSeq
<1>2. Units(s) \in [1 .. Len(s) -> U]
  BY <1>1 DEF Units, Unit
<1> HIDE DEF U
<1>3. Units(s) \in Seq(U) /\ Len(Units(s)) = Len(s)
  BY <1>1, <1>2, IsASeq, LenProperties
<1> QED
  BY <1>1, <1>3, EmptySeq DEF Units, U

(* A block sent last comes last.                                            *)
LEMMA UnitsAppend ==
  ASSUME NEW s \in Seq(Nat), NEW b \in Nat
  PROVE  Units(Append(s, b)) = Append(Units(s), Unit(b))
<1> DEFINE U == [blk : Nat, off : 1 .. 1]
           l == Units(Append(s, b))
           r == Append(Units(s), Unit(b))
<1>1. /\ Append(s, b) \in Seq(Nat) /\ Len(Append(s, b)) = Len(s) + 1
      /\ \A k \in 1 .. Len(s) : Append(s, b)[k] = s[k]
      /\ Append(s, b)[Len(s) + 1] = b
  BY AppendProperties
<1>2. Units(s) \in Seq(U) /\ Len(Units(s)) = Len(s) /\ Len(s) \in Nat
      /\ \A k \in 1 .. Len(s) : Units(s)[k] = Unit(s[k])
  BY UnitsType
<1>3. Unit(b) \in U
  BY DEF Unit
<1>4. /\ l \in Seq(U) /\ Len(l) = Len(s) + 1
      /\ \A k \in 1 .. Len(s) + 1 : l[k] = Unit(Append(s, b)[k])
  BY <1>1, UnitsType
<1>5. /\ r \in Seq(U) /\ Len(r) = Len(s) + 1
      /\ \A k \in 1 .. Len(s) : r[k] = Unit(s[k])
      /\ r[Len(s) + 1] = Unit(b)
  BY <1>2, <1>3, AppendProperties
<1>6. \A k \in 1 .. Len(s) + 1 : l[k] = r[k]
  BY <1>1, <1>2, <1>4, <1>5
<1> QED
  BY <1>4, <1>5, <1>6, SeqEqual

(* Taking the first block takes its kind, and one block less is left.       *)
LEMMA UnitsTail ==
  ASSUME NEW s \in Seq(Nat), s # <<>>
  PROVE  /\ Head(s) \in Nat /\ Tail(s) \in Seq(Nat)
         /\ Head(Units(s)) = Unit(Head(s))
         /\ Units(Tail(s)) = Tail(Units(s))
<1> DEFINE U == [blk : Nat, off : 1 .. 1]
           l == Units(Tail(s))
           r == Tail(Units(s))
<1>1. /\ Head(s) = s[1] /\ Head(s) \in Nat /\ Tail(s) \in Seq(Nat)
      /\ Len(Tail(s)) = Len(s) - 1
      /\ \A k \in 1 .. Len(Tail(s)) : Tail(s)[k] = s[k + 1]
  BY HeadTailProperties
<1>2. Units(s) \in Seq(U) /\ Len(Units(s)) = Len(s) /\ Len(s) \in Nat
      /\ \A k \in 1 .. Len(s) : Units(s)[k] = Unit(s[k])
      /\ Units(s) # <<>> /\ Len(s) # 0
  BY UnitsType, EmptySeq
<1>3. /\ r \in Seq(U) /\ Len(r) = Len(s) - 1
      /\ \A k \in 1 .. Len(r) : r[k] = Units(s)[k + 1]
      /\ Head(Units(s)) = Units(s)[1]
  BY <1>2, HeadTailProperties
<1>4. /\ l \in Seq(U) /\ Len(l) = Len(s) - 1
      /\ \A k \in 1 .. Len(s) - 1 : l[k] = Unit(Tail(s)[k])
  BY <1>1, UnitsType
<1>5. \A k \in 1 .. Len(s) - 1 : k + 1 \in 1 .. Len(s)
  BY <1>2
<1>6. \A k \in 1 .. Len(s) - 1 : l[k] = r[k]
  BY <1>1, <1>2, <1>3, <1>4, <1>5
<1>7. l = r
  BY <1>3, <1>4, <1>6, SeqEqual
<1> QED
  BY <1>1, <1>2, <1>3, <1>7

(* Blocks lost off the end of a path are lost off the end of its kinds.     *)
LEMMA UnitsSubSeq ==
  ASSUME NEW s \in Seq(Nat), NEW n \in 0 .. Len(s)
  PROVE  /\ SubSeq(s, 1, n) \in Seq(Nat)
         /\ Units(SubSeq(s, 1, n)) = SubSeq(Units(s), 1, n)
<1> DEFINE U == [blk : Nat, off : 1 .. 1]
           l == Units(SubSeq(s, 1, n))
           r == SubSeq(Units(s), 1, n)
<1>1. Units(s) \in Seq(U) /\ Len(Units(s)) = Len(s) /\ Len(s) \in Nat
      /\ \A k \in 1 .. Len(s) : Units(s)[k] = Unit(s[k])
  BY UnitsType
<1>2. \A k \in 1 .. n : k \in 1 .. Len(s) /\ s[k] \in Nat /\ Units(s)[k] \in U
  <2>1. \A k \in 1 .. Len(s) : s[k] \in Nat /\ Unit(s[k]) \in U
    BY ElementOfSeq DEF Unit
  <2>2. \A k \in 1 .. n : k \in 1 .. Len(s)
    BY <1>1
  <2> HIDE DEF U
  <2> QED
    BY <1>1, <2>1, <2>2
<1>3. /\ SubSeq(s, 1, n) \in Seq(Nat) /\ Len(SubSeq(s, 1, n)) = n
      /\ \A k \in 1 .. n : SubSeq(s, 1, n)[k] = s[k]
  BY <1>1, <1>2, SubSeqProperties
<1>4. /\ r \in Seq(U) /\ Len(r) = n
      /\ \A k \in 1 .. n : r[k] = Units(s)[k]
  BY <1>1, <1>2, SubSeqProperties
<1>5. /\ l \in Seq(U) /\ Len(l) = n
      /\ \A k \in 1 .. n : l[k] = Unit(SubSeq(s, 1, n)[k])
  BY <1>3, UnitsType
<1>6. \A k \in 1 .. n : l[k] = r[k]
  BY <1>1, <1>2, <1>3, <1>4, <1>5
<1> QED
  BY <1>3, <1>4, <1>5, <1>6, SeqEqual

-----------------------------------------------------------------------------
(* MapInv holds before the first call, with the paths empty.                *)
LEMMA InitMap == Init => MapInv
<1> SUFFICES ASSUME Init PROVE MapInv
  OBVIOUS
<1> USE DEF Init
<1>1. Total \in Nat \ {0} /\ 0 \in Path /\ Count \in Nat \ {0}
  BY NumbersType, CountType
<1>2. pc[S] = "check" /\ pc[R] = "open" /\ slot[R] = 0
  BY ThreadsDiffer
<1>3. DataType
  <2>1. received \in Seq(Nat) /\ \A i \in Path : wire[i] \in Seq(Nat)
    BY EmptySeq
  <2> QED
    BY <1>1, <2>1 DEF DataType, Lines, Outcomes
<1>4. SentInv /\ LineInv /\ EndInv
  BY <1>1, <1>2 DEF SentInv, LineInv, EndInv
<1>5. LoopInv
  <2>1. Len(received) = 0
    BY EmptySeq
  <2> QED
    BY <2>1 DEF LoopInv
<1> QED
  BY <1>3, <1>4, <1>5 DEF MapInv

(* What neither Fail nor disconnect() touches.                             *)
Data == <<setup, iSocketSend, iSocketRcv, idx, asked, started, received, rcvEnd,
          wire>>

(* Count and Outcomes read the constants of the file alone, setup.          *)
LEMMA SameSetup ==
  setup' = setup =>
    /\ Count' = Count /\ Slots' = Slots /\ Fd' = Fd /\ TimeOut' = TimeOut
    /\ sockfdSend' = sockfdSend /\ sockfdRcv' = sockfdRcv
    /\ \A fd \in 1 .. Count : Ends(fd)' = Ends(fd)
BY DEF Count, Slots, Fd, TimeOut, Duplex, sockfdSend, sockfdRcv, Bundle, Ends

(* A call has met the end of a connection.                                 *)
Noticed(fd, was) == line[fd] = was /\ line' = [line EXCEPT ![fd] = "dead"]

(* A connection of which nothing is known to be lost.                      *)
LEMMA LineKept ==
  ASSUME DataType, LineInv, UNCHANGED setup, UNCHANGED line,
         cut \subseteq cut'
  PROVE  LineInv'
BY SameSetup DEF LineInv

(* An error that a thread runs into, and set_error with it.                 *)
LEMMA FailMaps ==
  ASSUME IInv, MapInv, NEW t \in Thread, pc[t] \in {"call", "in"}, Fail(t),
         UNCHANGED setup,
         line' = line \/ \E fd \in 1 .. Count : Noticed(fd, "rst")
  PROVE  MapInv'
<1> USE DEF Fail, Goto, MapInv
<1>0. /\ pc \in [Thread -> Places] /\ slot \in [Thread -> 0 .. Count]
      /\ Count \in Nat \ {0} /\ Count' = Count
  BY CountType, SameSetup DEF IInv, SessionType
<1>1. /\ pc'[t] = "close" /\ \A u \in Thread : u # t => pc'[u] = pc[u]
      /\ \A u \in Thread : u # t => slot'[u] = slot[u]
      /\ lastError' = TRUE /\ UNCHANGED Data
      /\ cut \subseteq cut' /\ cut' \subseteq Path
  BY <1>0 DEF output, sender, Data, DataType
<1>2. DataType'
  BY <1>0, <1>1 DEF DataType, Data, Lines, Noticed
<1>3. SentInv'
  BY <1>1, ThreadsDiffer, NumbersType DEF SentInv, Data, DataType, Total
<1>4. LineInv'
  BY <1>0, <1>1, SameSetup DEF LineInv, DataType, Lines, Noticed
<1>5. EndInv'
  BY <1>0, <1>1, ThreadsDiffer DEF EndInv, Data
<1>6. LoopInv'
  BY <1>1 DEF LoopInv, Data
<1> QED
  BY <1>2, <1>3, <1>4, <1>5, <1>6

(* disconnect() by either thread.                                          *)
LEMMA CloseMaps ==
  ASSUME IInv, MapInv, NEW t \in Thread, CloseSlot(t) \/ ZeroSlot(t),
         UNCHANGED setup
  PROVE  MapInv'
<1> USE DEF Goto, MapInv
<1>0. /\ pc \in [Thread -> Places] /\ slot \in [Thread -> 0 .. Count]
      /\ Count \in Nat \ {0} /\ Count' = Count
  BY CountType, SameSetup DEF IInv, SessionType
<1>1. /\ pc[t] \in {"close", "zero"} /\ pc'[t] \in {"close", "zero", "failed"}
      /\ \A u \in Thread : u # t => pc'[u] = pc[u] /\ slot'[u] = slot[u]
      /\ pc'[t] = "failed" => slot'[t] = Count
      /\ lastError' = lastError /\ UNCHANGED Data /\ cut' = cut /\ line' = line
  BY <1>0 DEF output, sender, net, Data, CloseSlot, ZeroSlot
<1>2. lastError
  BY <1>1 DEF IInv, CloseInv, Closing
<1>3. DataType'
  BY <1>0, <1>1 DEF DataType, Data, Lines
<1>4. SentInv'
  BY <1>1, ThreadsDiffer, NumbersType DEF SentInv, Data, DataType, Total
<1>5. LineInv'
  BY <1>1, LineKept
<1>6. EndInv'
  BY <1>0, <1>1, <1>2, ThreadsDiffer DEF EndInv, Data
<1>7. LoopInv'
  BY <1>1 DEF LoopInv, Data
<1> QED
  BY <1>3, <1>4, <1>5, <1>6, <1>7

-----------------------------------------------------------------------------
(* send() returns: the sender has one call less to make.                   *)
LEMMA AfterSendMaps ==
  ASSUME IInv, MapInv, NEW ok \in BOOLEAN, AfterSend(ok), UNCHANGED setup,
         UNCHANGED <<lastError, slot, idx, started, iSocketSend, iSocketRcv,
                     output>>,
         pc[S] \in {"check", "in", "failed"},
         wire' \in [Path -> Seq(Nat)], UNCHANGED cut,
         line' = line \/ \E fd \in 1 .. Count : Noticed(fd, "fin")
  PROVE  MapInv'
<1> USE DEF MapInv
<1>0. pc \in [Thread -> Places] /\ Count' = Count
  BY SameSetup DEF IInv, SessionType
<1>1. PICK p \in {"join", "check"} :
        /\ pc' = [pc EXCEPT ![S] = p] /\ asked' = asked + 1
        /\ p = "check" => asked + 1 # Total
  BY DEF AfterSend, Goto
<1>2. pc'[S] = p /\ pc'[R] = pc[R]
  BY <1>0, <1>1, ThreadsDiffer
<1>3. DataType'
  BY <1>0, <1>1 DEF DataType, Lines, output, Noticed
<1>4. SentInv'
  BY <1>1, <1>2, NumbersType DEF SentInv, DataType, Total
<1>5. LineInv'
  BY <1>0, SameSetup DEF LineInv, DataType, Lines, Noticed
<1>6. EndInv' /\ LoopInv'
  BY <1>0, <1>2 DEF EndInv, LoopInv, output
<1> QED
  BY <1>3, <1>4, <1>5, <1>6

(* MapInv over the steps of the sending thread ...                          *)
LEMMA SenderMaps ==
  ASSUME IInv, MapInv, SenderStep
  PROVE  MapInv'
<1> USE ThreadsDiffer DEF MapInv
<1>0. /\ setup' = setup /\ pc \in [Thread -> Places] /\ setup \in Setups
      /\ Count' = Count
  BY SameSetup DEF SenderStep, IInv, SessionType
<1>1. CASE SendCheck
  <2>1. pc[S] = "check" /\ UNCHANGED <<lastError, slot, output, net, iSocketRcv>>
    BY <1>1 DEF SendCheck
  <2>2. CASE AfterSend(FALSE) /\ UNCHANGED <<started, iSocketSend, idx>>
    BY <1>0, <2>1, <2>2, AfterSendMaps DEF net, DataType
  <2>3. CASE /\ started' = started + 1 /\ idx' = [idx EXCEPT ![S] = iSocketSend]
             /\ iSocketSend' = Turn(iSocketSend) /\ Goto(S, "call")
             /\ asked' = asked
    <3>1. pc'[S] = "call" /\ pc'[R] = pc[R]
      BY <1>0, <2>3 DEF Goto
    <3>2. DataType'
      BY <1>0, <2>1, <2>3, TurnType, ThreadsDiffer DEF DataType, output, net
    <3>3. SentInv'
      BY <2>1, <2>3, <3>1, NumbersType DEF SentInv, DataType, Total
    <3>4. LineInv'
      BY <1>0, <2>1, LineKept DEF net
    <3>5. EndInv' /\ LoopInv'
      BY <1>0, <2>1, <3>1 DEF EndInv, LoopInv, output
    <3> QED
      BY <3>2, <3>3, <3>4, <3>5
  <2> QED
    BY <1>1, <2>2, <2>3 DEF SendCheck
<1>2. CASE SendEnter
  <2>1. pc[S] = "call"
    BY <1>2 DEF SendEnter
  <2>2. CASE Fail(S) /\ UNCHANGED line
    BY <1>0, <2>1, <2>2, FailMaps
  <2>3. CASE pc' = [pc EXCEPT ![S] = "in"]
             /\ UNCHANGED <<Data, lastError, slot, output, net>>
    <3>1. pc'[S] = "in" /\ pc'[R] = pc[R]
      BY <1>0, <2>3
    <3>2. DataType' /\ SentInv'
      BY <1>0, <2>1, <2>3, <3>1, NumbersType
      DEF DataType, SentInv, Data, output, net, Total
    <3>3. LineInv'
      BY <1>0, <2>3, LineKept DEF net
    <3>4. EndInv' /\ LoopInv'
      BY <1>0, <2>3, <3>1 DEF EndInv, LoopInv, output
    <3> QED
      BY <3>2, <3>3, <3>4
  <2> QED
    BY <1>0, <1>2, <2>2, <2>3 DEF SendEnter, Goto, Data, sender, output, net
<1>3. CASE SendIn
  <2> DEFINE i == idx[S]
             fd == sockfdSend[i]
  <2>1. /\ pc[S] = "in" /\ i \in Path /\ fd \in 1 .. Count
        /\ started \in Nat
    BY <1>0, <1>3, EndsOfPaths DEF SendIn, DataType
  <2>2. CASE /\ AfterSend(TRUE)
             /\ UNCHANGED <<lastError, slot, idx, started, iSocketSend,
                            iSocketRcv, output, cut>>
             /\ \/ wire' = wire
                \/ /\ started # 0
                   /\ wire' = [wire EXCEPT ![i] = Append(@, started - 1)]
             /\ (line' = line \/ Noticed(fd, "fin"))
    <3>1. wire' \in [Path -> Seq(Nat)]
      <4>1. started # 0 => Append(wire[i], started - 1) \in Seq(Nat)
        BY <2>1, AppendProperties DEF DataType
      <4> QED
        BY <2>2, <4>1 DEF DataType
    <3> QED
      BY <1>0, <2>1, <2>2, <3>1, AfterSendMaps
  <2>3. CASE /\ Fail(S)
             /\ (line' = line \/ Noticed(fd, "rst"))
    BY <1>0, <2>1, <2>3, FailMaps
  <2>4. CASE UNCHANGED <<pc, Data, lastError, slot, output, net>>
    BY <1>0, <2>4, SameSetup
    DEF DataType, SentInv, LineInv, EndInv, LoopInv, Data, output, net
  <2>5. started # 0
    BY <2>1 DEF SentInv
  <2>6. \/ /\ AfterSend(TRUE)
           /\ UNCHANGED <<lastError, slot, idx, started, iSocketSend,
                          iSocketRcv, output, cut>>
           /\ \/ wire' = wire
              \/ wire' = [wire EXCEPT ![i] = Append(@, started - 1)]
           /\ (line' = line \/ Noticed(fd, "fin"))
        \/ /\ Fail(S)
           /\ (line' = line \/ Noticed(fd, "rst"))
        \/ UNCHANGED <<pc, idx, slot, sender, lastError, iSocketRcv, output, net>>
    BY <1>3 DEF SendIn, Noticed
  <2>7. ASSUME UNCHANGED <<pc, idx, slot, sender, lastError, iSocketRcv, output, net>>
        PROVE  UNCHANGED <<pc, Data, lastError, slot, output, net>>
    BY <1>0, <2>7 DEF Data, sender, output, net
  <2> QED
    BY <2>2, <2>3, <2>4, <2>5, <2>6, <2>7
<1>4. CASE SendFailed
  <2>1. /\ pc[S] = "failed" /\ AfterSend(FALSE)
        /\ UNCHANGED <<lastError, slot, idx, started, iSocketSend, iSocketRcv,
                       output, net>>
    BY <1>4 DEF SendFailed
  <2>2. wire' \in [Path -> Seq(Nat)] /\ cut' = cut /\ line' = line
    BY <2>1 DEF net, DataType
  <2> QED
    BY <1>0, <2>1, <2>2, AfterSendMaps
<1>5. CASE Join
  <2>1. /\ pc[S] = "join" /\ pc'[S] = "done" /\ pc'[R] = pc[R]
        /\ UNCHANGED <<Data, lastError, slot, output, net>>
    BY <1>0, <1>5 DEF Join, Goto, Data, sender, output, net
  <2>2. DataType' /\ SentInv'
    BY <1>0, <2>1 DEF DataType, SentInv, Data, output, net
  <2>3. LineInv'
    BY <1>0, <2>1, LineKept DEF net
  <2>4. EndInv' /\ LoopInv'
    BY <1>0, <2>1 DEF EndInv, LoopInv, output
  <2> QED
    BY <2>2, <2>3, <2>4
<1>6. CASE CloseSlot(S) \/ ZeroSlot(S)
  BY <1>0, <1>6, CloseMaps
<1> QED
  BY <1>1, <1>2, <1>3, <1>4, <1>5, <1>6 DEF SenderStep

-----------------------------------------------------------------------------
(* ... of the receiving one ...                                             *)
LEMMA ReceiverMaps ==
  ASSUME IInv, MapInv, ReceiverStep
  PROVE  MapInv'
<1> USE ThreadsDiffer DEF MapInv
<1>0. /\ setup' = setup /\ pc \in [Thread -> Places] /\ setup \in Setups
      /\ Count' = Count /\ slot \in [Thread -> 0 .. Count]
      /\ Count \in Nat \ {0}
  BY SameSetup, CountType DEF ReceiverStep, IInv, SessionType
<1>d. ASSUME UNCHANGED <<asked, started, received, wire, line, cut>>,
             iSocketSend' = iSocketSend, iSocketRcv' \in Path,
             idx' \in [Thread -> Path], rcvEnd' \in Outcomes, pc'[S] = pc[S]
      PROVE  DataType' /\ SentInv' /\ LineInv'
  BY <1>0, <1>d, LineKept DEF DataType, SentInv
<1>1. CASE OpenFile
  <2>1. /\ pc[R] = "open" /\ UNCHANGED <<lastError, slot, received>>
        /\ pc'[S] = pc[S]
        /\ \/ pc'[R] = "done" /\ rcvEnd' = "noFile"
           \/ pc'[R] = "check" /\ rcvEnd' = rcvEnd
        /\ UNCHANGED <<asked, started, wire, line, cut, iSocketSend, iSocketRcv, idx>>
    BY <1>0, <1>1 DEF OpenFile, Goto, sender, net
  <2>2. DataType' /\ SentInv' /\ LineInv'
    BY <2>1, <1>d DEF DataType, Outcomes
  <2>3. EndInv' /\ LoopInv'
    BY <1>0, <2>1 DEF EndInv, LoopInv
  <2> QED
    BY <2>2, <2>3
<1>2. CASE ReceiveCheck
  <2>1. /\ pc[R] = "check" /\ UNCHANGED <<lastError, slot, received>>
        /\ pc'[S] = pc[S]
        /\ \/ /\ pc'[R] = "finish" /\ rcvEnd' = "error" /\ lastError
              /\ UNCHANGED <<iSocketRcv, idx>>
           \/ /\ pc'[R] = "call" /\ rcvEnd' = rcvEnd
              /\ iSocketRcv' = Turn(iSocketRcv)
              /\ idx' = [idx EXCEPT ![R] = iSocketRcv]
        /\ UNCHANGED <<asked, started, wire, line, cut, iSocketSend>>
    BY <1>0, <1>2 DEF ReceiveCheck, Goto, sender, net
  <2>2. DataType' /\ SentInv' /\ LineInv'
    BY <2>1, <1>d, TurnType DEF DataType, Outcomes
  <2>3. EndInv' /\ LoopInv'
    BY <1>0, <2>1 DEF EndInv, LoopInv
  <2> QED
    BY <2>2, <2>3
<1>3. CASE ReceiveEnter
  <2>1. pc[R] = "call"
    BY <1>3 DEF ReceiveEnter
  <2>2. CASE Fail(R) /\ UNCHANGED line
    BY <1>0, <2>1, <2>2, FailMaps
  <2>3. CASE /\ pc' = [pc EXCEPT ![R] = "in"]
             /\ UNCHANGED <<lastError, iSocketRcv, idx, slot, sender, output, net>>
    <3>1. pc'[S] = pc[S] /\ pc'[R] = "in" /\ iSocketSend' = iSocketSend
          /\ UNCHANGED <<asked, started, received, rcvEnd, wire, line, cut>>
      BY <1>0, <2>3 DEF sender, output, net
    <3>2. DataType' /\ SentInv' /\ LineInv'
      BY <2>3, <3>1, <1>d DEF DataType
    <3>3. EndInv' /\ LoopInv'
      BY <1>0, <2>1, <2>3, <3>1 DEF EndInv, LoopInv
    <3> QED
      BY <3>2, <3>3
  <2> QED
    BY <1>3, <2>2, <2>3 DEF ReceiveEnter, Goto
<1>4. CASE ReceiveIn
  <2> DEFINE i == idx[R]
             fd == sockfdRcv[i]
  <2>1. pc[R] = "in" /\ i \in Path /\ fd \in 1 .. Count /\ rcvEnd = "none"
        /\ slot[R] = 0
    BY <1>0, <1>4, EndsOfPaths DEF ReceiveIn, DataType, EndInv
  <2>2. CASE /\ wire[i] # <<>> /\ wire' = [wire EXCEPT ![i] = Tail(@)]
             /\ AfterReceive(Head(wire[i]))
             /\ UNCHANGED <<lastError, iSocketRcv, idx, slot, sender, line, cut>>
    <3>1. PICK b \in Nat : b = Head(wire[i])
      BY <2>1, <2>2, UnitsTail DEF DataType
    <3>2. /\ received' = Append(received, b) /\ pc'[S] = pc[S]
          /\ \/ b < Blocks /\ pc'[R] = "check" /\ rcvEnd' = rcvEnd
             \/ b >= Blocks /\ pc'[R] = "finish" /\ rcvEnd' = "terminate"
      BY <1>0, <2>2, <3>1 DEF AfterReceive, Goto
    <3>3. PICK l \in Nat : l = Len(received)
      BY LenProperties DEF DataType
    <3>4. /\ received' \in Seq(Nat) /\ Len(received') = l + 1
          /\ \A k \in 1 .. l : received'[k] = received[k]
          /\ received'[l + 1] = b
      BY <3>2, <3>3, AppendProperties DEF DataType
    <3>5. wire' \in [Path -> Seq(Nat)]
      BY <2>1, <2>2, UnitsTail DEF DataType
    <3>6. DataType' /\ SentInv'
      BY <1>0, <2>2, <3>2, <3>4, <3>5 DEF DataType, SentInv, Outcomes, sender
    <3>7. LineInv'
      BY <1>0, <2>2, LineKept
    <3>8. EndInv'
      BY <1>0, <2>1, <2>2, <3>2 DEF EndInv
    <3>9. LoopInv'
      <4>1. \A k \in 1 .. l : received[k] < Blocks
        <5>1. received = <<>> \/ l # 0
          BY <3>3, EmptySeq DEF DataType
        <5> QED
          BY <2>1, <3>3, <5>1 DEF LoopInv
      <4>2. received' # <<>>
        BY <3>4, EmptySeq
      <4>3. \A k \in 1 .. Len(received') - 1 : received'[k] < Blocks
        BY <3>4, <4>1
      <4> QED
        BY <2>1, <3>2, <3>4, <4>2, <4>3 DEF LoopInv
    <3> QED
      BY <3>6, <3>7, <3>8, <3>9
  <2>3. CASE /\ Goto(R, "call")
             /\ UNCHANGED <<lastError, iSocketRcv, idx, slot, sender, output, net>>
    <3>1. pc'[S] = pc[S] /\ pc'[R] = "call" /\ iSocketSend' = iSocketSend
          /\ UNCHANGED <<asked, started, received, rcvEnd, wire, line, cut>>
      BY <1>0, <2>3 DEF sender, output, net, Goto
    <3>2. DataType' /\ SentInv' /\ LineInv'
      BY <2>3, <3>1, <1>d DEF DataType
    <3>3. EndInv' /\ LoopInv'
      BY <1>0, <2>1, <2>3, <3>1 DEF EndInv, LoopInv
    <3> QED
      BY <3>2, <3>3
  <2>4. CASE Fail(R) /\ (line' = line \/ Noticed(fd, "rst"))
    BY <1>0, <2>1, <2>4, FailMaps
  <2> QED
    BY <1>4, <2>2, <2>3, <2>4 DEF ReceiveIn, Noticed
<1>5. CASE ReceiveFailed \/ CloseFile
  <2>1. /\ \/ pc[R] = "failed" /\ pc'[R] = "finish" /\ rcvEnd' = "error"
           \/ pc[R] = "finish" /\ pc'[R] = "done" /\ rcvEnd' = rcvEnd
        /\ pc'[S] = pc[S] /\ iSocketSend' = iSocketSend
        /\ UNCHANGED <<asked, started, received, wire, line, cut, idx, iSocketRcv,
                       slot, lastError>>
    BY <1>0, <1>5 DEF ReceiveFailed, CloseFile, Goto, sender, output, net
  <2>2. DataType' /\ SentInv' /\ LineInv'
    BY <2>1, <1>d DEF DataType, Outcomes
  <2>3. EndInv' /\ LoopInv'
    BY <1>0, <2>1 DEF EndInv, LoopInv
  <2> QED
    BY <2>2, <2>3
<1>6. CASE CloseSlot(R) \/ ZeroSlot(R)
  BY <1>0, <1>6, CloseMaps
<1> QED
  BY <1>1, <1>2, <1>3, <1>4, <1>5, <1>6 DEF ReceiverStep

(* A fault takes blocks off the end of the one path the socket is on, or   *)
(* leaves the blocks where they are.                                       *)
LEMMA FaultOnPath ==
  ASSUME IInv, MapInv, NEW fd \in 1 .. Count, Fault(fd)
  PROVE  \/ /\ UNCHANGED <<wire, cut>>
            /\ line' = [line EXCEPT ![fd] = "stall"]
         \/ \E i \in Path : \E k \in 0 .. Len(wire[i]) :
              /\ Ends(fd) = {i} /\ cut' = cut \cup {i}
              /\ wire' = [wire EXCEPT ![i] = SubSeq(@, 1, k)]
              /\ \E f \in AllFaults : line' = [line EXCEPT ![fd] = f]
<1>1. PICK i \in Path : Ends(fd) = {i}
  BY EndsOfPaths DEF IInv, SessionType
<1>2. Faults \subseteq AllFaults
  BY SessionAssumption DEF Faults, IInv, SessionType
<1> QED
  BY <1>1, <1>2 DEF Fault

(* ... and of the network.                                                  *)
LEMMA FaultMaps ==
  ASSUME IInv, MapInv, FaultStep
  PROVE  MapInv'
<1> USE DEF MapInv
<1>1. PICK fd \in 1 .. Count : Fault(fd)
  BY DEF FaultStep
<1>2. /\ setup' = setup /\ Count' = Count
      /\ UNCHANGED <<pc, slot, lastError, idx, iSocketSend, iSocketRcv, asked,
                     started, received, rcvEnd>>
  BY <1>1, SameSetup DEF FaultStep, Fault, sender, output
<1>3. SentInv' /\ EndInv' /\ LoopInv'
  BY <1>2 DEF SentInv, EndInv, LoopInv
<1>4. CASE UNCHANGED <<wire, cut>> /\ line' = [line EXCEPT ![fd] = "stall"]
  <2>1. DataType'
    BY <1>2, <1>4 DEF DataType, Lines
  <2>2. LineInv'
    BY <1>2, <1>4, SameSetup DEF DataType, LineInv
  <2> QED
    BY <1>3, <2>1, <2>2
<1>5. ASSUME NEW i \in Path, NEW k \in 0 .. Len(wire[i]), NEW f \in AllFaults,
             Ends(fd) = {i}, cut' = cut \cup {i},
             wire' = [wire EXCEPT ![i] = SubSeq(@, 1, k)],
             line' = [line EXCEPT ![fd] = f]
      PROVE  MapInv'
  <2>1. SubSeq(wire[i], 1, k) \in Seq(Nat)
    BY UnitsSubSeq DEF DataType
  <2>2. DataType'
    BY <1>2, <1>5, <2>1 DEF DataType, Lines, AllFaults
  <2>3. LineInv'
    BY <1>2, <1>5, SameSetup DEF DataType, LineInv
  <2> QED
    BY <1>3, <2>2, <2>3
<1> QED
  BY <1>1, <1>4, <1>5, FaultOnPath

(* MapInv is inductive with IInv.                                           *)
LEMMA NextMap == IInv /\ MapInv /\ [Next]_vars => MapInv'
<1> SUFFICES ASSUME IInv, MapInv, [Next]_vars PROVE MapInv'
  OBVIOUS
<1>1. CASE UNCHANGED vars
  BY <1>1, SameSetup
  DEF vars, sender, output, net, MapInv, DataType, SentInv, LineInv, EndInv, LoopInv
<1> QED
  BY <1>1, SenderMaps, ReceiverMaps, FaultMaps DEF Next

-----------------------------------------------------------------------------
(* The refinement.  Nothing happens to the stream in steps that keep what  *)
(* the mapping looks at.                                                   *)
Seen == <<lastError, started, iSocketSend, InSend, idx[S], iSocketRcv, InRcv,
          idx[R], Begun, received, wire, cut>>

(* What the mapping reads has not changed: the stream stutters.             *)
LEMMA SeenStutters == UNCHANGED Seen => UNCHANGED Stream!vars
BY DEF Seen, Stream!vars, Stream!sender, Stream!receiver, Delivered,
       UnitsOnWire, Units

(* A session begins as a stream begins.                                     *)
LEMMA StreamInit == Init => Stream!Init
<1> SUFFICES ASSUME Init PROVE Stream!Init
  OBVIOUS
<1> USE DEF Init
<1>1. Count \in Nat \ {0}
  BY CountType
<1>2. /\ ~InSend /\ ~InRcv /\ ~RcvFailed /\ idx[S] = 0 /\ idx[R] = 0
  BY <1>1, ThreadsDiffer DEF InSend, InRcv, RcvFailed
<1>3. <<>> \in Seq(Nat) /\ Len(<<>>) = 0 /\ DOMAIN <<>> = {}
  OBVIOUS
<1>4. Begun = 0
  BY <1>2, <1>3 DEF Begun
<1>5. Delivered = <<>>
  BY <1>3 DEF Delivered
<1>6. UnitsOnWire = [i \in Path |-> <<>>]
  BY <1>3, UnitsType DEF UnitsOnWire
<1> QED
  BY <1>2, <1>4, <1>5, <1>6 DEF Stream!Init, Stream!Socket, Path

(* An error in a thread is the failure of its call in the stream.           *)
LEMMA MapsFail ==
  ASSUME IInv, MapInv, NEW t \in Thread, pc[t] \in {"call", "in"}, Fail(t),
         UNCHANGED setup
  PROVE  Stream!SendFails \/ Stream!ReceiveFails
<1> USE ThreadsDiffer DEF Fail, Goto
<1>0. /\ pc \in [Thread -> Places] /\ slot \in [Thread -> 0 .. Count]
      /\ Count \in Nat \ {0} /\ Count' = Count
  BY CountType, SameSetup DEF IInv, SessionType
<1>1. /\ lastError' = TRUE /\ wire' = wire /\ received' = received
      /\ UNCHANGED <<started, iSocketSend, idx, iSocketRcv, rcvEnd>>
      /\ UnitsOnWire' = UnitsOnWire /\ Delivered' = Delivered
  BY DEF sender, output, UnitsOnWire, Units, Delivered
<1>2. CASE t = S
  <2>1. /\ InSend /\ InSend' = FALSE /\ pc'[R] = pc[R] /\ slot'[R] = slot[R]
        /\ cut' = Path
    BY <1>0, <1>2 DEF InSend
  <2>2. InRcv' = InRcv /\ Begun' = Begun
    BY <1>0, <1>1, <2>1 DEF InRcv, Begun, RcvFailed
  <2> QED
    BY <1>1, <2>1, <2>2 DEF Stream!SendFails, Stream!receiver, Stream!Socket, Path
<1>3. CASE t = R
  <2>1. /\ InRcv /\ InRcv' = FALSE /\ pc'[S] = pc[S] /\ RcvFailed'
        /\ cut' = cut \cup {i \in Path : ~(InSend /\ idx[S] = i)}
    BY <1>0, <1>3 DEF InRcv, RcvFailed
  <2>2. InSend' = InSend /\ Begun' = Begun
    BY <1>1, <2>1 DEF InSend, Begun
  <2> QED
    BY <1>1, <2>1, <2>2 DEF Stream!ReceiveFails, Stream!sender, Stream!Socket, Path
<1> QED
  BY <1>2, <1>3

(* disconnect() is not seen: what the receiver has begun counts the failed *)
(* call from the failure on.                                               *)
LEMMA CloseUnseen ==
  ASSUME IInv, MapInv, NEW t \in Thread, CloseSlot(t) \/ ZeroSlot(t),
         UNCHANGED setup
  PROVE  UNCHANGED Seen
<1>0. /\ pc \in [Thread -> Places] /\ slot \in [Thread -> 0 .. Count]
      /\ Count \in Nat \ {0} /\ Count' = Count
  BY CountType, SameSetup DEF IInv, SessionType
<1>1. /\ pc[t] \in {"close", "zero"} /\ pc'[t] \in {"close", "zero", "failed"}
      /\ \A u \in Thread : u # t => pc'[u] = pc[u] /\ slot'[u] = slot[u]
      /\ UNCHANGED <<lastError, started, iSocketSend, idx, iSocketRcv, received,
                     rcvEnd, wire, cut>>
  BY <1>0 DEF output, sender, net, CloseSlot, ZeroSlot, Goto
<1>2. InSend' = InSend /\ InRcv' = InRcv
  BY <1>1, ThreadsDiffer DEF InSend, InRcv
<1>3. RcvFailed' = RcvFailed
  BY <1>0, <1>1, ThreadsDiffer DEF RcvFailed
<1> QED
  BY <1>1, <1>2, <1>3 DEF Seen, Begun

(* ::send has taken a block whole, or has lost it on a path that is broken *)
LEMMA MapsSend ==
  ASSUME IInv, MapInv, SendIn, UNCHANGED setup
  PROVE  [Stream!Next]_Stream!vars
<1> USE ThreadsDiffer DEF MapInv
<1> DEFINE i == idx[S]
           fd == sockfdSend[i]
<1>1. /\ pc[S] = "in" /\ i \in Path /\ fd \in 1 .. Count /\ i \in Ends(fd)
      /\ started \in Nat \ {0} /\ wire \in [Path -> Seq(Nat)]
      /\ line[fd] \notin {"up", "stall"} => i \in cut
      /\ pc \in [Thread -> Places] /\ Count' = Count
  BY EndsOfPaths, SameSetup
  DEF SendIn, DataType, SentInv, LineInv, IInv, SessionType
<1>2. \/ /\ AfterSend(TRUE)
         /\ UNCHANGED <<lastError, slot, idx, started, iSocketSend,
                        iSocketRcv, output, cut>>
         /\ \/ i \in cut /\ wire' = wire
            \/ i \notin cut /\ wire' = [wire EXCEPT ![i] = Append(@, started - 1)]
      \/ Fail(S)
      \/ UNCHANGED <<pc, idx, slot, sender, lastError, iSocketRcv, output, net>>
  BY <1>1 DEF SendIn
<1>3. CASE Fail(S)
  BY <1>1, <1>3, MapsFail DEF Stream!Next
<1>4. CASE UNCHANGED <<pc, idx, slot, sender, lastError, iSocketRcv, output, net>>
  <2>1. UNCHANGED Seen
    BY <1>1, <1>4 DEF Seen, InSend, InRcv, Begun, RcvFailed, sender, output, net
  <2> QED
    BY <2>1, SeenStutters
<1>5. ASSUME AfterSend(TRUE),
             UNCHANGED <<lastError, slot, idx, started, iSocketSend,
                         iSocketRcv, output, cut>>,
             \/ i \in cut /\ wire' = wire
             \/ i \notin cut /\ wire' = [wire EXCEPT ![i] = Append(@, started - 1)]
      PROVE  Stream!SendUnit
  <2>1. /\ InSend /\ InSend' = FALSE /\ pc'[R] = pc[R] /\ InRcv' = InRcv
    BY <1>1, <1>5 DEF AfterSend, Goto, InSend, InRcv
  <2>2. Begun' = Begun /\ Delivered' = Delivered
    BY <1>1, <1>5, <2>1 DEF Begun, RcvFailed, output, Delivered
  <2>3. IF i \in cut
          THEN UnitsOnWire' = UnitsOnWire
          ELSE UnitsOnWire' =
                 [UnitsOnWire EXCEPT ![i] = Append(@, Unit(started - 1))]
    <3>1. CASE i \in cut
      BY <1>5, <3>1 DEF UnitsOnWire, Units
    <3>2. CASE i \notin cut
      <4>1. wire' = [wire EXCEPT ![i] = Append(@, started - 1)]
        BY <1>5, <3>2
      <4>2. Units(Append(wire[i], started - 1)) = Append(Units(wire[i]), Unit(started - 1))
        BY <1>1, UnitsAppend
      <4>3. \A j \in Path : Units(wire'[j]) =
              IF j = i THEN Append(Units(wire[i]), Unit(started - 1)) ELSE Units(wire[j])
        BY <1>1, <4>1, <4>2
      <4>4. UnitsOnWire' = [j \in Path |-> Units(wire'[j])]
        BY DEF UnitsOnWire, Units
      <4> QED
        BY <1>1, <3>2, <4>3, <4>4 DEF UnitsOnWire
    <3> QED
      BY <3>1, <3>2
  <2>4. /\ Unit(started - 1) = [blk |-> started - 1, off |-> 0 + 1]
        /\ (0 + 1 < 1) = FALSE
    BY DEF Unit
  <2> QED
    BY <1>5, <2>1, <2>2, <2>3, <2>4 DEF Stream!SendUnit, Stream!receiver
<1> QED
  BY <1>2, <1>3, <1>4, <1>5 DEF Stream!Next

(* Every step of the sending thread is one of the stream or a stutter ...   *)
LEMMA MapsSender ==
  ASSUME IInv, MapInv, SenderStep
  PROVE  [Stream!Next]_Stream!vars
<1> USE ThreadsDiffer DEF MapInv
<1>0. /\ setup' = setup /\ pc \in [Thread -> Places] /\ Count' = Count
  BY SameSetup DEF SenderStep, IInv, SessionType
<1>s. ASSUME UNCHANGED <<lastError, slot, idx, iSocketSend, iSocketRcv, output,
                         started, net>>,
             InSend' = InSend, pc'[R] = pc[R]
      PROVE  [Stream!Next]_Stream!vars
  <2>1. UNCHANGED Seen
    BY <1>0, <1>s DEF Seen, InRcv, Begun, RcvFailed, output, net
  <2> QED
    BY <2>1, SeenStutters
<1>1. CASE SendCheck
  <2>1. pc[S] = "check" /\ UNCHANGED <<lastError, slot, iSocketRcv, output, net>>
    BY <1>1 DEF SendCheck
  <2>2. CASE AfterSend(FALSE) /\ UNCHANGED <<started, iSocketSend, idx>>
    <3>1. InSend' = InSend /\ pc'[R] = pc[R]
      BY <1>0, <2>1, <2>2 DEF AfterSend, Goto, InSend
    <3> QED
      BY <2>1, <2>2, <3>1, <1>s
  <2>3. CASE /\ ~lastError /\ started' = started + 1
             /\ idx' = [idx EXCEPT ![S] = iSocketSend]
             /\ iSocketSend' = Turn(iSocketSend) /\ Goto(S, "call")
    <3>1. /\ ~InSend /\ InSend' = TRUE /\ pc'[R] = pc[R] /\ InRcv' = InRcv
          /\ idx'[S] = iSocketSend /\ idx'[R] = idx[R]
      BY <1>0, <2>1, <2>3 DEF Goto, InSend, InRcv, DataType
    <3>2. /\ Begun' = Begun /\ Delivered' = Delivered
          /\ UnitsOnWire' = UnitsOnWire /\ cut' = cut
      BY <1>0, <2>1, <3>1
      DEF Begun, RcvFailed, output, net, Delivered, UnitsOnWire, Units
    <3>3. started < Total
      BY <2>1, NumbersType DEF SentInv, DataType
    <3>4. Stream!SendCall
      BY <2>1, <2>3, <3>1, <3>2, <3>3
      DEF Stream!SendCall, Stream!receiver, Stream!Turn, Turn
    <3> QED
      BY <3>4 DEF Stream!Next
  <2> QED
    BY <1>1, <2>2, <2>3 DEF SendCheck
<1>2. CASE SendEnter
  <2>1. pc[S] = "call"
    BY <1>2 DEF SendEnter
  <2>2. CASE Fail(S)
    BY <1>0, <2>1, <2>2, MapsFail DEF Stream!Next
  <2>3. CASE /\ Goto(S, "in")
             /\ UNCHANGED <<lastError, iSocketRcv, idx, slot, sender, output, net>>
    <3>1. InSend' = InSend /\ pc'[R] = pc[R]
      BY <1>0, <2>1, <2>3 DEF Goto, InSend
    <3> QED
      BY <2>3, <3>1, <1>s DEF sender
  <2> QED
    BY <1>2, <2>2, <2>3 DEF SendEnter
<1>3. CASE SendIn
  BY <1>0, <1>3, MapsSend
<1>4. CASE SendFailed \/ Join
  <2>1. InSend' = InSend /\ pc'[R] = pc[R]
    BY <1>0, <1>4 DEF SendFailed, Join, AfterSend, Goto, InSend
  <2> QED
    BY <1>4, <2>1, <1>s DEF SendFailed, Join, sender
<1>5. CASE CloseSlot(S) \/ ZeroSlot(S)
  BY <1>0, <1>5, CloseUnseen, SeenStutters
<1> QED
  BY <1>1, <1>2, <1>3, <1>4, <1>5 DEF SenderStep

(* receive() returns a block, and the file or the end of the loop follows. *)
LEMMA MapsBlock ==
  ASSUME IInv, MapInv, NEW i \in Path, i = idx[R], pc[R] = "in",
         wire[i] # <<>>, wire' = [wire EXCEPT ![i] = Tail(@)],
         AfterReceive(Head(wire[i])),
         UNCHANGED <<setup, lastError, iSocketRcv, idx, slot, sender, cut>>
  PROVE  Stream!ReceiveUnit
<1> USE ThreadsDiffer DEF MapInv
<1>0. /\ pc \in [Thread -> Places] /\ wire[i] \in Seq(Nat)
      /\ wire \in [Path -> Seq(Nat)] /\ received \in Seq(Nat)
      /\ Count \in Nat \ {0} /\ Count' = Count /\ slot[R] = 0 /\ rcvEnd = "none"
  BY CountType, SameSetup DEF DataType, EndInv, IInv, SessionType
<1>1. PICK b \in Nat : b = Head(wire[i])
  BY <1>0, UnitsTail
<1>2. /\ received' = Append(received, b) /\ pc'[S] = pc[S]
      /\ pc'[R] \in {"check", "finish"} /\ rcvEnd' \in {"none", "terminate"}
  BY <1>0, <1>1 DEF AfterReceive, Goto
<1>3. PICK l \in Nat : l = Len(received)
  BY <1>0, LenProperties
<1>4. /\ Len(received') = l + 1 /\ received' \in Seq(Nat)
      /\ \A k \in 1 .. l : received'[k] = received[k]
      /\ received'[l + 1] = b
  BY <1>0, <1>2, <1>3, AppendProperties
<1>5. /\ InRcv /\ InRcv' = FALSE /\ InSend' = InSend
      /\ Begun = l + 1 /\ Begun' = l + 1
  BY <1>0, <1>2, <1>3, <1>4 DEF InRcv, InSend, Begun, RcvFailed
<1>6. /\ UnitsOnWire[i] # <<>> /\ Head(UnitsOnWire[i]) = Unit(b)
      /\ UnitsOnWire' = [UnitsOnWire EXCEPT ![i] = Tail(@)]
  <2>1. /\ Units(wire[i]) # <<>> /\ Head(Units(wire[i])) = Unit(b)
        /\ Units(Tail(wire[i])) = Tail(Units(wire[i]))
    BY <1>0, <1>1, UnitsType, UnitsTail
  <2>2. \A j \in Path : Units(wire'[j]) =
          IF j = i THEN Tail(Units(wire[i])) ELSE Units(wire[j])
    BY <1>0, <2>1
  <2>3. UnitsOnWire' = [j \in Path |-> Units(wire'[j])]
    BY DEF UnitsOnWire, Units
  <2> QED
    BY <1>0, <2>1, <2>2, <2>3 DEF UnitsOnWire
<1>7. Delivered' = Append(Delivered, <<Unit(b)>>)
  <2> DEFINE U == Seq([blk : Nat, off : 1 .. 1])
  <2>1. /\ DOMAIN received = 1 .. l /\ DOMAIN received' = 1 .. l + 1
        /\ \A k \in 1 .. l : received[k] \in Nat
    BY <1>0, <1>3, <1>4, LenProperties, ElementOfSeq
  <2>2. \A c \in Nat : <<Unit(c)>> \in U
    BY DEF Unit
  <2>3. /\ Delivered \in [1 .. l -> U] /\ Delivered' \in [1 .. l + 1 -> U]
        /\ \A k \in 1 .. l : Delivered'[k] = Delivered[k]
        /\ Delivered'[l + 1] = <<Unit(b)>>
    <3>1. Delivered' = [k \in 1 .. l + 1 |-> <<Unit(received'[k])>>]
      BY <2>1 DEF Delivered, Unit
    <3>2. Delivered = [k \in 1 .. l |-> <<Unit(received[k])>>]
      BY <2>1 DEF Delivered
    <3>3. \A k \in 1 .. l + 1 : received'[k] \in Nat
      BY <1>4, <2>1
    <3> HIDE DEF U
    <3> QED
      BY <1>4, <2>1, <2>2, <3>1, <3>2, <3>3
  <2> HIDE DEF U
  <2>4. /\ Delivered \in Seq(U) /\ Len(Delivered) = l
        /\ Delivered' \in Seq(U) /\ Len(Delivered') = l + 1
    <3>1. l + 1 \in Nat
      OBVIOUS
    <3> QED
      BY <2>3, <3>1, IsASeq, LenProperties
  <2>5. /\ Append(Delivered, <<Unit(b)>>) \in Seq(U)
        /\ Len(Append(Delivered, <<Unit(b)>>)) = l + 1
        /\ \A k \in 1 .. l : Append(Delivered, <<Unit(b)>>)[k] = Delivered[k]
        /\ Append(Delivered, <<Unit(b)>>)[l + 1] = <<Unit(b)>>
    BY <2>2, <2>4, AppendProperties
  <2>6. \A k \in 1 .. l + 1 : Delivered'[k] = Append(Delivered, <<Unit(b)>>)[k]
    BY <2>3, <2>5
  <2> QED
    BY <2>4, <2>5, <2>6, SeqEqual
<1>8. Append(<<>>, Head(UnitsOnWire[i])) = <<Unit(b)>>
  BY <1>6 DEF Unit
<1>9. Len(<<Unit(b)>>) = 1 /\ ~(1 < 1)
  BY DEF Unit
<1> QED
  BY <1>5, <1>6, <1>7, <1>8, <1>9 DEF Stream!ReceiveUnit, Stream!sender, sender

(* ... so is every step of the receiving one ...                            *)
LEMMA MapsReceiver ==
  ASSUME IInv, MapInv, ReceiverStep
  PROVE  [Stream!Next]_Stream!vars
<1> USE ThreadsDiffer DEF MapInv
<1>0. /\ setup' = setup /\ pc \in [Thread -> Places] /\ Count' = Count
      /\ Count \in Nat \ {0}
  BY SameSetup, CountType DEF ReceiverStep, IInv, SessionType
<1>s. ASSUME UNCHANGED <<lastError, slot, idx, sender, iSocketRcv, received,
                         wire, cut>>,
             InRcv' = InRcv, RcvFailed' = RcvFailed, pc'[S] = pc[S]
      PROVE  [Stream!Next]_Stream!vars
  <2>1. UNCHANGED Seen
    BY <1>0, <1>s DEF Seen, InSend, Begun, sender
  <2> QED
    BY <2>1, SeenStutters
<1>1. CASE OpenFile
  <2>1. /\ InRcv' = InRcv /\ pc'[S] = pc[S]
        /\ rcvEnd = "none" /\ rcvEnd' \in {"none", "noFile"}
        /\ pc[R] = "open" /\ pc'[R] \in {"check", "done"}
    BY <1>0, <1>1 DEF OpenFile, Goto, InRcv, EndInv
  <2>2. RcvFailed' = RcvFailed
    BY <2>1 DEF RcvFailed
  <2> QED
    BY <1>1, <2>1, <2>2, <1>s DEF OpenFile, net
<1>2. CASE ReceiveCheck
  <2>1. /\ pc[R] = "check" /\ UNCHANGED <<lastError, slot, sender, received, net>>
        /\ slot[R] = 0 /\ rcvEnd = "none"
    BY <1>2 DEF ReceiveCheck, EndInv
  <2>2. CASE Goto(R, "finish") /\ UNCHANGED <<iSocketRcv, idx>>
    <3>1. InRcv' = InRcv /\ pc'[S] = pc[S] /\ pc'[R] = "finish"
      BY <1>0, <2>1, <2>2 DEF Goto, InRcv
    <3>2. RcvFailed' = RcvFailed
      BY <1>0, <2>1, <3>1 DEF RcvFailed
    <3> QED
      BY <2>1, <2>2, <3>1, <3>2, <1>s DEF net
  <2>3. CASE /\ ~lastError /\ Goto(R, "call") /\ rcvEnd' = rcvEnd
             /\ iSocketRcv' = Turn(iSocketRcv)
             /\ idx' = [idx EXCEPT ![R] = iSocketRcv]
    <3>1. /\ InRcv = FALSE /\ InRcv' = TRUE /\ InSend' = InSend
          /\ idx'[R] = iSocketRcv /\ idx'[S] = idx[S]
          /\ RcvFailed = FALSE /\ RcvFailed' = FALSE
      BY <1>0, <2>1, <2>3 DEF Goto, InSend, InRcv, DataType, RcvFailed
    <3>2. /\ Delivered' = Delivered /\ UnitsOnWire' = UnitsOnWire
          /\ UNCHANGED <<cut, started, iSocketSend>>
      BY <2>1 DEF net, sender, Delivered, UnitsOnWire, Units
    <3>3. Begun' = Begun + 1
      <4>1. Len(received) \in Nat /\ received' = received
        BY <2>1, LenProperties DEF DataType
      <4> QED
        BY <3>1, <4>1 DEF Begun
    <3>4. Stream!ReceiveCall
      BY <2>1, <2>3, <3>1, <3>2, <3>3
      DEF Stream!ReceiveCall, Stream!sender, Stream!Turn, Turn
    <3> QED
      BY <3>4 DEF Stream!Next
  <2> QED
    BY <1>2, <2>2, <2>3 DEF ReceiveCheck
<1>3. CASE ReceiveEnter
  <2>1. pc[R] = "call"
    BY <1>3 DEF ReceiveEnter
  <2>2. CASE Fail(R)
    BY <1>0, <2>1, <2>2, MapsFail DEF Stream!Next
  <2>3. CASE /\ Goto(R, "in")
             /\ UNCHANGED <<lastError, iSocketRcv, idx, slot, sender, output, net>>
    <3>1. InRcv' = InRcv /\ pc'[S] = pc[S] /\ RcvFailed' = RcvFailed
      BY <1>0, <2>1, <2>3 DEF Goto, InRcv, RcvFailed, output
    <3> QED
      BY <2>3, <3>1, <1>s DEF output, net
  <2> QED
    BY <1>3, <2>2, <2>3 DEF ReceiveEnter
<1>4. CASE ReceiveIn
  <2> DEFINE i == idx[R]
  <2>1. pc[R] = "in" /\ i \in Path
    BY <1>4 DEF ReceiveIn, DataType
  <2>2. CASE /\ wire[i] # <<>> /\ wire' = [wire EXCEPT ![i] = Tail(@)]
             /\ AfterReceive(Head(wire[i]))
             /\ UNCHANGED <<lastError, iSocketRcv, idx, slot, sender, cut>>
    BY <1>0, <2>1, <2>2, MapsBlock DEF Stream!Next
  <2>3. CASE /\ Goto(R, "call")
             /\ UNCHANGED <<lastError, iSocketRcv, idx, slot, sender, output, net>>
    <3>1. InRcv' = InRcv /\ pc'[S] = pc[S] /\ RcvFailed' = RcvFailed
      BY <1>0, <2>1, <2>3 DEF Goto, InRcv, RcvFailed, output
    <3> QED
      BY <2>3, <3>1, <1>s DEF output, net
  <2>4. CASE Fail(R)
    BY <1>0, <2>1, <2>4, MapsFail DEF Stream!Next
  <2> QED
    BY <1>4, <2>2, <2>3, <2>4 DEF ReceiveIn
<1>5. CASE ReceiveFailed \/ CloseFile
  <2>1. /\ InRcv' = InRcv /\ pc'[S] = pc[S]
        /\ \/ pc[R] = "failed" /\ pc'[R] = "finish" /\ rcvEnd' = "error"
           \/ pc[R] = "finish" /\ pc'[R] = "done" /\ rcvEnd' = rcvEnd
        /\ UNCHANGED <<lastError, slot, idx, sender, iSocketRcv, received, wire, cut>>
    BY <1>0, <1>5 DEF ReceiveFailed, CloseFile, Goto, InRcv, output, net
  <2>2. RcvFailed' = RcvFailed
    BY <1>0, <2>1 DEF RcvFailed, EndInv
  <2> QED
    BY <2>1, <2>2, <1>s
<1>6. CASE CloseSlot(R) \/ ZeroSlot(R)
  BY <1>0, <1>6, CloseUnseen, SeenStutters
<1> QED
  BY <1>1, <1>2, <1>3, <1>4, <1>5, <1>6 DEF ReceiverStep

(* ... and of the network.                                                  *)
LEMMA MapsFault ==
  ASSUME IInv, MapInv, FaultStep
  PROVE  [Stream!Next]_Stream!vars
<1>1. PICK fd \in 1 .. Count : Fault(fd)
  BY DEF FaultStep
<1>2. /\ setup' = setup /\ Count' = Count
      /\ UNCHANGED <<pc, slot, lastError, idx, iSocketSend, iSocketRcv, started,
                     received, rcvEnd>>
  BY <1>1, SameSetup DEF FaultStep, Fault, sender, output
<1>3. InSend' = InSend /\ InRcv' = InRcv /\ Begun' = Begun
  BY <1>2 DEF InSend, InRcv, Begun, RcvFailed
<1>4. CASE UNCHANGED <<wire, cut>>
  BY <1>2, <1>3, <1>4, SeenStutters DEF Seen
<1>5. ASSUME NEW i \in Path, NEW k \in 0 .. Len(wire[i]), cut' = cut \cup {i},
             wire' = [wire EXCEPT ![i] = SubSeq(@, 1, k)]
      PROVE  Stream!Break(i)
  <2>1. wire \in [Path -> Seq(Nat)] /\ wire[i] \in Seq(Nat)
    BY DEF MapInv, DataType
  <2>2. /\ Units(SubSeq(wire[i], 1, k)) = SubSeq(Units(wire[i]), 1, k)
        /\ k \in 0 .. Len(Units(wire[i]))
    BY <2>1, UnitsSubSeq, UnitsType
  <2>3. \A j \in Path : Units(wire'[j]) =
          IF j = i THEN SubSeq(Units(wire[i]), 1, k) ELSE Units(wire[j])
    BY <1>5, <2>1, <2>2
  <2>4. UnitsOnWire' = [j \in Path |-> Units(wire'[j])]
    BY DEF UnitsOnWire, Units
  <2>5. /\ UnitsOnWire' = [UnitsOnWire EXCEPT ![i] = SubSeq(@, 1, k)]
        /\ k \in 0 .. Len(UnitsOnWire[i])
    BY <2>2, <2>3, <2>4 DEF UnitsOnWire
  <2>6. Delivered' = Delivered
    BY <1>2 DEF Delivered
  <2> QED
    BY <1>2, <1>3, <1>5, <2>5, <2>6 DEF Stream!Break, Stream!sender, Stream!receiver
<1>6. \A i \in Path : Stream!Break(i) => Stream!Next
  BY DEF Stream!Next, Stream!Socket, Path
<1> QED
  BY <1>1, <1>4, <1>5, <1>6, FaultOnPath

(* Every step of a session is a step of the stream or a stutter.            *)
LEMMA StreamStep == IInv /\ MapInv /\ [Next]_vars => [Stream!Next]_Stream!vars
<1> SUFFICES ASSUME IInv, MapInv, [Next]_vars PROVE [Stream!Next]_Stream!vars
  OBVIOUS
<1>1. CASE UNCHANGED vars
  <2>1. UNCHANGED Seen
    BY <1>1, SameSetup
    DEF vars, sender, output, net, Seen, InSend, InRcv, Begun, RcvFailed
  <2> QED
    BY <2>1, SeenStutters
<1> QED
  BY <1>1, MapsSender, MapsReceiver, MapsFault DEF Next

(* MapInv always holds (send, receive, receiveToBin and the two threads).  *)
THEOREM MapInvariance == Spec => []MapInv
  BY InitMap, NextMap, Invariance, PTL DEF Spec

(* A session is a StripedStream: whichever thread runs into an error, and  *)
(* whatever the other one still does with the sockets before it sees it    *)
(* (send 388-424, receive 552-591, set_error 770-780).                     *)
THEOREM SessionRefines == Spec => ImplementsStream
  BY StreamInit, StreamStep, Invariance, MapInvariance, PTL
  DEF Spec, ImplementsStream, Stream!Spec

-----------------------------------------------------------------------------
(* What is proved of StripedStream holds of the session's stream.          *)
LEMMA SameStream ==
  /\ Stream!Init => Proved!Init
  /\ [Stream!Next]_Stream!vars => [Proved!Next]_Proved!vars
<1>1. Stream!Init => Proved!Init
  BY DEF Stream!Init, Proved!Init, Stream!Socket, Proved!Socket
<1>2. Stream!vars = Proved!vars /\ Stream!vars' = Proved!vars'
  BY DEF Stream!vars, Proved!vars, Stream!sender, Proved!sender, Stream!receiver,
         Proved!receiver
<1>3. Stream!Next => Proved!Next
  BY DEF Stream!Next, Proved!Next, Stream!Socket, Proved!Socket,
         Stream!sender, Proved!sender, Stream!receiver, Proved!receiver,
         Stream!Turn, Proved!Turn,
         Stream!SendCall, Proved!SendCall, Stream!SendUnit, Proved!SendUnit,
         Stream!SendFails, Proved!SendFails, Stream!ReceiveCall, Proved!ReceiveCall,
         Stream!ReceiveUnit, Proved!ReceiveUnit,
         Stream!ReceiveFails, Proved!ReceiveFails, Stream!Break, Proved!Break
<1> QED
  BY <1>1, <1>2, <1>3

LEMMA StreamAssumed == Proved!StreamAssumption
BY SessionAssumption, NumbersType DEF Proved!StreamAssumption

LEMMA StreamInvariance == Spec => []Proved!IInv
<1>1. Init => Proved!IInv
  BY StreamInit, SameStream, StreamAssumed, Proved!InitInv
<1>2. IInv /\ MapInv /\ Proved!IInv /\ [Next]_vars => Proved!IInv'
  BY StreamStep, SameStream, StreamAssumed, Proved!NextInv
<1> QED
  BY <1>1, <1>2, Invariance, MapInvariance, PTL DEF Spec

(* The blocks a session has received are the first ones of the file, each  *)
(* once and in order, whatever has happened.                               *)
ReceivedInOrder == \A k \in 1 .. Len(received) : received[k] = k - 1

LEMMA OrderOfSession == MapInv /\ Proved!IInv => ReceivedInOrder
<1> SUFFICES ASSUME MapInv, Proved!IInv, NEW k \in 1 .. Len(received)
             PROVE  received[k] = k - 1
  BY DEF ReceivedInOrder
<1>1. DOMAIN received = 1 .. Len(received)
  BY LenProperties DEF MapInv, DataType
<1>2. Delivered[k] = Proved!Block(k - 1)
  BY <1>1 DEF Proved!IInv, Proved!StreamInv, Proved!InOrder, Delivered
<1>3. Delivered[k][1] = Unit(received[k])
  BY <1>1 DEF Delivered
<1>4. Proved!Block(k - 1)[1] = [blk |-> k - 1, off |-> 1]
  BY DEF Proved!Block, Proved!Part
<1> QED
  BY <1>2, <1>3, <1>4 DEF Unit

(* When receiveToBin is through it has written every block of the file or  *)
(* there is an error on record (receiveToBin 1026-1037, receive 552-591,   *)
(* set_error 770-780).                                                     *)
THEOREM TransferIsWhole == Spec => []NoSilentTruncation
<1>1. ASSUME IInv, MapInv, Proved!IInv PROVE NoSilentTruncation
  <2> SUFFICES ASSUME pc[R] = "done", rcvEnd # "noFile", rcvEnd # "error"
               PROVE  received = [k \in 1 .. Blocks + 1 |-> k - 1]
    BY <1>1 DEF NoSilentTruncation, MapInv, EndInv
  <2>1. rcvEnd = "terminate" /\ received \in Seq(Nat)
    BY <1>1 DEF MapInv, DataType, Outcomes, EndInv
  <2>2. PICK l \in Nat : l = Len(received)
    BY <2>1, LenProperties
  <2>3. /\ l # 0 /\ received[l] >= Blocks
        /\ \A k \in 1 .. l - 1 : received[k] < Blocks
    BY <1>1, <2>1, <2>2, EmptySeq DEF MapInv, LoopInv
  <2>4. \A k \in 1 .. l : received[k] = k - 1
    BY <1>1, <2>2, OrderOfSession DEF ReceivedInOrder
  <2>5. l = Blocks + 1
    <3>1. l - 1 >= Blocks
      BY <2>3, <2>4
    <3>2. l - 1 # 0 => l - 2 < Blocks
      BY <2>3, <2>4
    <3> QED
      BY <2>3, <3>1, <3>2, SessionAssumption
  <2>6. received = [k \in 1 .. l |-> received[k]]
    BY <2>1, <2>2
  <2> QED
    BY <2>4, <2>5, <2>6
<1> QED
  BY <1>1, Invariance, MapInvariance, StreamInvariance, PTL
=============================================================================
