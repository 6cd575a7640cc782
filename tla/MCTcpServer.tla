----------------------------- MODULE MCTcpServer -----------------------------
(* TcpServer for TLC: three clients for two descriptors, so that one waits *)
(* for another's to be closed and used again, over no, one or two loops.   *)
EXTENDS TcpServer

CONSTANTS c1, c2, c3, none

MCClients == {c1, c2, c3}
MCFds == {4, 5}
==============================================================================
