------------------------------ MODULE JtagPort ------------------------------
(***************************************************************************)
(* What the XVC server promises about the FPGA's JTAG port, independent of *)
(* tasks and of the cables: the port is held by at most one activity at a  *)
(* time, the TCK/TDI/TMS pins change direction only while a configuration  *)
(* holds the port, and TCK is clocked only while a shift holds it and the  *)
(* pins are driven.  XvcServer is shown to implement this module.          *)
(***************************************************************************)

EXTENDS Naturals

VARIABLES
  holder,  \* which activity has exclusive use of the port
  driven,  \* whether TCK, TDI and TMS are outputs
  clock    \* the level of TCK

portVars == <<holder, driven, clock>>

PortInit ==
  /\ holder = "none"
  /\ driven = FALSE
  /\ clock = 0

(* A configuration takes the free port, changes the direction of the pins  *)
(* any number of times, and gives the port back.                           *)
BeginConfig ==
  /\ holder = "none"
  /\ holder' = "config"
  /\ UNCHANGED <<driven, clock>>

Redirect ==
  /\ holder = "config"
  /\ driven' \in BOOLEAN
  /\ UNCHANGED <<holder, clock>>

EndConfig ==
  /\ holder = "config"
  /\ holder' = "none"
  /\ UNCHANGED <<driven, clock>>

(* A shift takes the free port only while its pins are driven, toggles TCK *)
(* and leaves it low.                                                      *)
BeginShift ==
  /\ holder = "none"
  /\ driven
  /\ holder' = "shift"
  /\ UNCHANGED <<driven, clock>>

Toggle ==
  /\ holder = "shift"
  /\ driven
  /\ clock' = 1 - clock
  /\ UNCHANGED <<holder, driven>>

EndShift ==
  /\ holder = "shift"
  /\ clock = 0
  /\ holder' = "none"
  /\ UNCHANGED <<driven, clock>>

PortNext ==
  \/ BeginConfig
  \/ Redirect
  \/ EndConfig
  \/ BeginShift
  \/ Toggle
  \/ EndShift

PortSpec == PortInit /\ [][PortNext]_portVars
=============================================================================
