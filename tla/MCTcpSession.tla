---------------------------- MODULE MCTcpSession ----------------------------
(***************************************************************************)
(* Instances of TcpSession for TLC: the sessions that are looked at.       *)
(***************************************************************************)
EXTENDS TcpSession

Session(d, t, f, what, most) ==
  [duplex |-> d, timeOut |-> t, fileMayFail |-> f, faults |-> what,
   maxFaults |-> most]

(* With time-outs over duplex sockets, the output file a source of         *)
(* failure of its own; without time-outs, as by default, over send and     *)
(* receive halves, with any two faults, which gives both threads a reason  *)
(* to disconnect.                                                          *)
MCSetups == {Session(TRUE, TRUE, TRUE, {"rst", "stall"}, 1),
             Session(FALSE, FALSE, FALSE, AllFaults, 2)}

(* One duplex socket that the server closes.                               *)
MCFin == {Session(TRUE, TRUE, FALSE, {"fin"}, 1)}

(* A sending and a receiving socket, no time-out, one of them is reset.    *)
MCWait == {Session(FALSE, FALSE, FALSE, {"rst"}, 1)}
=============================================================================
