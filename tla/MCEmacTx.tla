------------------------------ MODULE MCEmacTx ------------------------------
(***************************************************************************)
(* Instances of EmacTx for TLC: one task, as lwIP expects it, and the two  *)
(* tasks that run lwIP in this build, the TCP/IP thread and ETHINT (whose  *)
(* notifications are also used by the receive path).                       *)
(***************************************************************************)
EXTENDS EmacTx

OneWriter == {"ethint"}

TwoWriters == {"ethint", "tcpip"}

Ethint == {"ethint"}
=============================================================================
