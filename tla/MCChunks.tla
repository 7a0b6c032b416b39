------------------------------ MODULE MCChunks ------------------------------
(***************************************************************************)
(* Instances of Chunks for TLC.                                            *)
(***************************************************************************)
EXTENDS Chunks

(* tcpBufSize_ from a byte to the eight words of a control block, the least*)
(* that a connected client has; files from empty to one byte more than two *)
(* words; portions from a byte to more than the file.                      *)
MCChunked ==
  [sockets : {1, 2}, bufSize : {1, 2, 4, 8, 32}, size : {0, 1, 4, 6, 8, 9},
   missing : {0}, sendBuf : {3, 8}, rcvBuf : {2, 8, 16}, sync : {FALSE},
   vector : {0}]

(* receive_sync with a vector that is empty, large enough or too small.    *)
MCSync ==
  [sockets : {1}, bufSize : {1, 2, 4}, size : {0, 1, 4, 6}, missing : {0},
   sendBuf : {3}, rcvBuf : {8}, sync : {TRUE}, vector : {0, 3, 8}]

(* A file that is shorter than announced.                                  *)
MCShort ==
  [sockets : {1}, bufSize : {1}, size : {6}, missing : {1}, sendBuf : {3},
   rcvBuf : {8}, sync : {FALSE}, vector : {0}]

MCSetups == MCChunked \cup MCSync \cup MCShort
=============================================================================
