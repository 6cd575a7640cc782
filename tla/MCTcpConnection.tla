--------------------------- MODULE MCTcpConnection ---------------------------
(* TcpConnection for TLC: two messages of two units, so that one can wait  *)
(* in the buffer, partly written, while another is sent.                   *)
EXTENDS TcpConnection

CONSTANTS m1, m2

MCMessages == {m1, m2}
==============================================================================
