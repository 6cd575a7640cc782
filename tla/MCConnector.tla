----------------------------- MODULE MCConnector -----------------------------
(* Connector for TLC: three calls of start and restart, beside any number  *)
(* of stops, so that a restart can follow a start that failed and a start  *)
(* meet the retry of another; and delays of 1, 2, 4 and 7, capped as 30000 *)
(* caps the sixth doubling of 500.                                         *)
EXTENDS Connector
==============================================================================
