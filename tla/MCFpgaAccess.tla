---------------------------- MODULE MCFpgaAccess ----------------------------
(***************************************************************************)
(* The UDP server together with a Telnet session, on one register of two   *)
(* words.  Every type of access in both versions; what is written sets the *)
(* first word that it goes to and, if it is wide, clears the second.  The  *)
(* Telnet session writes the second word and reads it back.                *)
(***************************************************************************)
EXTENDS FpgaAccess

UdpAndTelnet == {"udp", "telnet"}

Bits == {0, 1}

MCUdpRequests ==
  {r \in Request :
     /\ Writes(r) => r.data = IF Is32(r) /\ r.version = 2 THEN <<1, 0>> ELSE <<0, 1>>
     /\ r.version = 1 \/ r.type = 0 => r.addr = 0}

MCTelnetRequests ==
  {r \in MCUdpRequests : r.version = 2 /\ r.type = WRITE_16 /\ r.addr = 1}
=============================================================================
