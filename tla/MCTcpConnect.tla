---------------------------- MODULE MCTcpConnect ----------------------------
(***************************************************************************)
(* Instances of TcpConnect for TLC: what the servers may announce.         *)
(***************************************************************************)
EXTENDS TcpConnect

Server(n, d, c, short) == [n |-> n, duplex |-> d, current |-> c, cut |-> short]

(* One duplex socket, two of them, two pairs (so that slots and halves     *)
(* differ), an outdated server, and a slow one whose control blocks may    *)
(* come in pieces: too short to be used, without the slot, without the     *)
(* number of sockets, without the duplex flag.                             *)
MCConfigs == {Server(1, TRUE, TRUE, {}), Server(2, TRUE, TRUE, {}),
              Server(4, FALSE, TRUE, {}), Server(2, FALSE, FALSE, {}),
              Server(2, TRUE, TRUE, 1 .. 7)}

(* Two duplex sockets.                                                     *)
MCTwo == {Server(2, TRUE, TRUE, {})}
=============================================================================
