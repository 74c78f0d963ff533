--------------------------- MODULE MCTcpipThread ---------------------------
(* Two tasks that use the netconn interface, two periodic timers. *)
EXTENDS TcpipThread

MCOrder == <<"reass", "dhcp">>

\* The TCP timer has the shortest interval, as in the firmware.
MCInterval == [t \in Timers |-> IF t = Tcp THEN 1 ELSE 2]
=============================================================================
