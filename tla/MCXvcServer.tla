----------------------------- MODULE MCXvcServer -----------------------------
(* Instances of XvcServer for TLC.                                         *)
EXTENDS XvcServer

(* Every interleaving of the three tasks.                                  *)
EqualPriorities == [t \in Task |-> 1]

(* conf_lwip_threads.h and main.c.                                         *)
ShippedPriorities ==
  [t \in Task |-> CASE t = "xvc" -> 5 [] t = "telnet" -> 3 [] t = "led" -> 0]

MCPriorities == {EqualPriorities, ShippedPriorities}
=============================================================================
