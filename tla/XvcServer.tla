------------------------------ MODULE XvcServer ------------------------------
(***************************************************************************)
(* The state machine of the embedded Xilinx Virtual Cable server           *)
(* (src/src/xvc/xvc_server.c) and the three FreeRTOS tasks that drive it:  *)
(*                                                                         *)
(*   "xvc"    vXvcServer, which shifts JTAG vectors for one TCP client;    *)
(*   "telnet" vBasicTelnetServer, whose `j' command toggles the server;    *)
(*   "led"    task_led, which polls the cables once a second.              *)
(*                                                                         *)
(* Each task runs the code of xvc_server_enable, xvc_server_disable and    *)
(* xvc_server_update_gpio_config in steps: a critical section is one step, *)
(* every other access to shared state is a step of its own.  The cables    *)
(* are plugged and unplugged at any moment.  A task runs only while every  *)
(* task of higher priority is blocked, as the FreeRTOS scheduler does it.  *)
(***************************************************************************)
EXTENDS Naturals

CONSTANTS
  Priorities,  \* the assignments of FreeRTOS priorities that are considered
  MaxBits      \* bound on the length of a shift vector (4096 in the code)

Task == {"xvc", "telnet", "led"}

Cable == {"jtag", "usb"}

ASSUME PrioritiesAssumption == Priorities \subseteq [Task -> Nat]
ASSUME MaxBitsAssumption == MaxBits \in Nat \ {0}

VARIABLES
  priority,    \* the FreeRTOS priority of each task, fixed when it is created
  state,       \* xvc_server_state
  pins,        \* direction of XILTCK, XILTDI and XILTMS
  tck,         \* output level of XILTCK
  jtagsel,     \* output level of JTAGSEL
  connected,   \* the cables that are connected: "jtag" on the header
               \* (NXILJTAG is low), "usb" at a powered host (USBPOWER is high)
  pc,          \* program point of each task
  call,        \* the API function that the task is executing
  saw,         \* the cables that the task has found connected
  status,      \* the status that the last API function returned to the task
  bitsLeft     \* TCK cycles that the current shift still needs

vars == <<priority, state, pins, tck, jtagsel, connected, pc, call, saw,
          status, bitsLeft>>
port == <<pins, tck, jtagsel>>
local == <<call, saw, status>>

ServerState ==
  {"CONFIG_IN_PROGRESS", "DISABLE_REQUESTED", "DISABLED", "DISABLING",
   "ENABLED", "ENABLING", "IO_IN_PROGRESS"}

(* Program points of update_gpio_config, between its accesses.             *)
ConfigPoint ==
  {"readJtag", "readUsb", "release", "drive", "output", "select", "restore"}

(* Program points of enable and disable around update_gpio_config.         *)
ApiPoint == {"enable", "disable", "cfg", "end"} \cup ConfigPoint

XvcPoint ==
  {"accept", "check", "recv", "handle", "write", "shiftBegin", "shift",
   "shiftHigh", "close"} \cup (ApiPoint \ {"enable"})

TelnetPoint == {"idle", "toggle", "report"} \cup ApiPoint

LedPoint ==
  {"idle", "poll", "pollUsb", "pollState", "pollSel"}
    \cup (ApiPoint \ {"enable"})

(* Every variable has its type; in particular each task stays within its   *)
(* own code, and no shift is longer than the buffer allows.                *)
TypeOK ==
  /\ state \in ServerState
  /\ pins \in {"input", "output"}
  /\ tck \in {0, 1}
  /\ jtagsel \in {0, 1}
  /\ connected \in SUBSET Cable
  /\ pc \in [Task -> XvcPoint \cup TelnetPoint \cup LedPoint]
  /\ pc["xvc"] \in XvcPoint
  /\ pc["telnet"] \in TelnetPoint
  /\ pc["led"] \in LedPoint
  /\ call \in [Task -> {"none", "enable", "disable", "jtagsel"}]
  /\ saw \in [Task -> SUBSET Cable]
  /\ status \in [Task -> {"OK", "ERROR"}]
  /\ bitsLeft \in 0 .. MaxBits

(* Power-up: main() runs xvc_server_init before the scheduler starts; the  *)
(* JTAG pins are inputs after reset.                                       *)
Init ==
  /\ priority \in Priorities
  /\ state = "DISABLED"
  /\ pins = "input"
  /\ tck = 0
  /\ jtagsel = 0
  /\ connected \in SUBSET Cable
  /\ pc = [t \in Task |-> IF t = "xvc" THEN "accept" ELSE "idle"]
  /\ call = [t \in Task |-> "none"]
  /\ saw = [t \in Task |-> {}]
  /\ status = [t \in Task |-> "OK"]
  /\ bitsLeft = 0

-----------------------------------------------------------------------------
(* Scheduling.                                                             *)

BlockingPoint == {"accept", "recv", "write", "close", "idle"}

CanRun(t) ==
  \A u \in Task : priority[u] > priority[t] => pc[u] \in BlockingPoint

At(t, point) == pc[t] = point

Goto(t, point) == pc' = [pc EXCEPT ![t] = point]

(* Where each task continues when an API function returns to it.  The XVC  *)
(* task calls only xvc_server_disable, from xvc_server_do_shift, which     *)
(* then returns XVC_STATUS_ERROR so that the connection is closed; only    *)
(* the Telnet command looks at the status it gets.                         *)
ReturnPoint(t) ==
  CASE t = "xvc" -> "close" [] t = "telnet" -> "report" [] t = "led" -> "idle"

Return(t, result) ==
  /\ Goto(t, ReturnPoint(t))
  /\ saw' = [saw EXCEPT ![t] = {}]
  /\ IF t = "telnet"
     THEN status' = [status EXCEPT ![t] = result] /\ UNCHANGED call
     ELSE /\ status' = [status EXCEPT ![t] = "OK"]
          /\ call' = [call EXCEPT ![t] = "none"]

-----------------------------------------------------------------------------
(* xvc_server_update_gpio_config, called by enable and disable and, from   *)
(* the LED task, directly.                                                 *)

ExpectedState(t) ==
  CASE call[t] = "enable"  -> "ENABLING"
    [] call[t] = "disable" -> "DISABLING"
    [] OTHER               -> "DISABLED"

(* Where update_gpio_config returns: enable and disable have one more      *)
(* critical section; update_jtagsel has not.                               *)
ConfigReturn(t, result) ==
  IF call[t] \in {"enable", "disable"}
  THEN /\ Goto(t, "end")
       /\ status' = [status EXCEPT ![t] = result]
       /\ UNCHANGED <<call, saw>>
  ELSE Return(t, result)

(* Mutant: the state is checked but not taken.                             *)
ConfigBeginUnlocked(t) ==
  /\ At(t, "cfg")
  /\ CanRun(t)
  /\ IF state = ExpectedState(t)
     THEN Goto(t, "readJtag") /\ UNCHANGED local
     ELSE ConfigReturn(t, "ERROR")
  /\ UNCHANGED <<state, port, connected, bitsLeft>>

ConfigBegin(t) ==
  /\ At(t, "cfg")
  /\ CanRun(t)
  /\ \/ /\ state = ExpectedState(t)
        /\ state' = "CONFIG_IN_PROGRESS"
        /\ Goto(t, "readJtag")
        /\ UNCHANGED local
     \/ /\ state # ExpectedState(t)
        /\ ConfigReturn(t, "ERROR")
        /\ UNCHANGED state
  /\ UNCHANGED <<port, connected, bitsLeft>>

ConfigReadJtag(t) ==
  /\ At(t, "readJtag")
  /\ CanRun(t)
  /\ saw' = [saw EXCEPT ![t] = connected \cap {"jtag"}]
  /\ Goto(t, "readUsb")
  /\ UNCHANGED <<state, port, connected, call, status, bitsLeft>>

ConfigReadUsb(t) ==
  /\ At(t, "readUsb")
  /\ CanRun(t)
  /\ saw' = [saw EXCEPT ![t] = @ \cup (connected \cap {"usb"})]
  /\ Goto(t, "release")
  /\ UNCHANGED <<state, port, connected, call, status, bitsLeft>>

SawCable(t) == saw[t] # {}

(* The three pins become inputs unless the server is being enabled and no  *)
(* cable is connected.                                                     *)
ConfigRelease(t) ==
  /\ At(t, "release")
  /\ CanRun(t)
  /\ pins' = IF call[t] # "enable" \/ SawCable(t) THEN "input" ELSE pins
  /\ Goto(t, IF call[t] = "enable" THEN "drive" ELSE "select")
  /\ UNCHANGED <<state, tck, jtagsel, connected, local, bitsLeft>>

(* Enabling: with a cable connected the function returns and leaves the    *)
(* server in CONFIG_IN_PROGRESS, otherwise it raises JTAGSEL ...           *)
ConfigDrive(t) ==
  /\ At(t, "drive")
  /\ CanRun(t)
  /\ \/ /\ SawCable(t)
        /\ ConfigReturn(t, "ERROR")
        /\ UNCHANGED jtagsel
     \/ /\ ~SawCable(t)
        /\ jtagsel' = 1
        /\ Goto(t, "output")
        /\ UNCHANGED local
  /\ UNCHANGED <<state, pins, tck, connected, bitsLeft>>

(* ... and makes the pins outputs that start low.                          *)
ConfigOutput(t) ==
  /\ At(t, "output")
  /\ CanRun(t)
  /\ pins' = "output"
  /\ tck' = 0
  /\ Goto(t, "select")
  /\ UNCHANGED <<state, jtagsel, connected, local, bitsLeft>>

ConfigSelect(t) ==
  /\ At(t, "select")
  /\ CanRun(t)
  /\ jtagsel' = CASE "jtag" \in saw[t]                          -> 1
                [] "jtag" \notin saw[t] /\ "usb" \in saw[t] -> 0
                [] OTHER                                   -> jtagsel
  /\ Goto(t, "restore")
  /\ UNCHANGED <<state, pins, tck, connected, local, bitsLeft>>

(* The state is written back outside of a critical section.                *)
ConfigRestore(t) ==
  /\ At(t, "restore")
  /\ CanRun(t)
  /\ state' = ExpectedState(t)
  /\ ConfigReturn(t, "OK")
  /\ UNCHANGED <<port, connected, bitsLeft>>

UpdateGpioConfig(t) ==
  \/ ConfigBegin(t)
  \/ ConfigReadJtag(t)
  \/ ConfigReadUsb(t)
  \/ ConfigRelease(t)
  \/ ConfigDrive(t)
  \/ ConfigOutput(t)
  \/ ConfigSelect(t)
  \/ ConfigRestore(t)

-----------------------------------------------------------------------------
(* xvc_server_enable and xvc_server_disable.                               *)

EnableBegin(t) ==
  /\ At(t, "enable")
  /\ CanRun(t)
  /\ \/ /\ state = "ENABLED"
        /\ Return(t, "OK")
        /\ UNCHANGED state
     \/ /\ state \notin {"ENABLED", "DISABLED"}
        /\ Return(t, "ERROR")
        /\ UNCHANGED state
     \/ /\ state = "DISABLED"
        /\ state' = "ENABLING"
        /\ Goto(t, "cfg")
        /\ UNCHANGED local
  /\ UNCHANGED <<port, connected, bitsLeft>>

(* Mutants: a failed configuration is not undone; it is reported as OK.    *)
EnableEndNoUndo(t) ==
  /\ At(t, "end")
  /\ call[t] = "enable"
  /\ CanRun(t)
  /\ state' = IF status[t] = "OK" THEN "ENABLED" ELSE state
  /\ Return(t, status[t])
  /\ UNCHANGED <<port, connected, bitsLeft>>

EnableEndAlwaysOK(t) ==
  /\ At(t, "end")
  /\ call[t] = "enable"
  /\ CanRun(t)
  /\ state' = IF status[t] = "OK" THEN "ENABLED" ELSE "DISABLED"
  /\ Return(t, "OK")
  /\ UNCHANGED <<port, connected, bitsLeft>>

EnableEnd(t) ==
  /\ At(t, "end")
  /\ call[t] = "enable"
  /\ CanRun(t)
  /\ state' = IF status[t] = "OK" THEN "ENABLED" ELSE "DISABLED"
  /\ Return(t, status[t])
  /\ UNCHANGED <<port, connected, bitsLeft>>

(* Mutant: a shift in progress does not hold up the configuration.         *)
DisableBeginAtOnce(t) ==
  /\ At(t, "disable")
  /\ CanRun(t)
  /\ IF state \in {"IO_IN_PROGRESS", "ENABLED"}
     THEN state' = "DISABLING" /\ Goto(t, "cfg") /\ UNCHANGED local
     ELSE Return(t, IF state = "DISABLED" THEN "OK" ELSE "ERROR")
          /\ UNCHANGED state
  /\ UNCHANGED <<port, connected, bitsLeft>>

DisableBegin(t) ==
  /\ At(t, "disable")
  /\ CanRun(t)
  /\ \/ /\ state = "DISABLED"
        /\ Return(t, "OK")
        /\ UNCHANGED state
     \/ /\ state = "IO_IN_PROGRESS"
        /\ state' = "DISABLE_REQUESTED"
        /\ Return(t, "ERROR")
     \/ /\ state \notin {"DISABLED", "IO_IN_PROGRESS", "ENABLED"}
        /\ Return(t, "ERROR")
        /\ UNCHANGED state
     \/ /\ state = "ENABLED"
        /\ state' = "DISABLING"
        /\ Goto(t, "cfg")
        /\ UNCHANGED local
  /\ UNCHANGED <<port, connected, bitsLeft>>

(* The status of update_gpio_config is ignored here.                       *)
DisableEnd(t) ==
  /\ At(t, "end")
  /\ call[t] = "disable"
  /\ CanRun(t)
  /\ state' = "DISABLED"
  /\ Return(t, "OK")
  /\ UNCHANGED <<port, connected, bitsLeft>>

ApiStep(t) ==
  \/ UpdateGpioConfig(t)
  \/ EnableBegin(t)
  \/ EnableEnd(t)
  \/ DisableBegin(t)
  \/ DisableEnd(t)

-----------------------------------------------------------------------------
(* vXvcServer.                                                             *)

(* netconn_accept returns a connection.  (When lwIP is out of memory the   *)
(* task sleeps for ten ticks and calls it again.)                          *)
XvcAccept ==
  /\ At("xvc", "accept")
  /\ Goto("xvc", "check")
  /\ UNCHANGED <<state, port, connected, local, bitsLeft>>

(* The connection is closed unless the server is enabled; the state is     *)
(* read without a critical section.                                        *)
XvcCheck ==
  /\ At("xvc", "check")
  /\ CanRun("xvc")
  /\ Goto("xvc", IF state # "ENABLED" THEN "close" ELSE "recv")
  /\ UNCHANGED <<state, port, connected, local, bitsLeft>>

(* netconn_recv_tcp_pbuf returns data or a fatal error.  It has no timeout *)
(* in this build (LWIP_SO_RCVTIMEO is 0).                                  *)
XvcReceive ==
  /\ At("xvc", "recv")
  /\ \E next \in {"handle", "close"} : Goto("xvc", next)
  /\ UNCHANGED <<state, port, connected, local, bitsLeft>>

(* xvc_server_handle_receive: the next thing in the received data is a     *)
(* complete shift command, a command that only needs a reply (getinfo,     *)
(* settck, a shift of length zero), the end of the data, or an error.      *)
XvcHandle ==
  /\ At("xvc", "handle")
  /\ CanRun("xvc")
  /\ \E next \in {"shiftBegin", "write", "check", "close"} : Goto("xvc", next)
  /\ UNCHANGED <<state, port, connected, local, bitsLeft>>

(* netconn_write of a reply succeeds or fails.                             *)
XvcWritten ==
  /\ At("xvc", "write")
  /\ \E next \in {"handle", "close"} : Goto("xvc", next)
  /\ UNCHANGED <<state, port, connected, local, bitsLeft>>

(* netconn_close and netconn_delete return; the connection state is reset. *)
XvcClose ==
  /\ At("xvc", "close")
  /\ Goto("xvc", "accept")
  /\ UNCHANGED <<state, port, connected, local, bitsLeft>>

(* xvc_server_do_shift: entry, the two edges of a TCK cycle, exit.         *)
ShiftBegin ==
  /\ At("xvc", "shiftBegin")
  /\ CanRun("xvc")
  /\ \/ /\ state # "ENABLED"
        /\ Goto("xvc", "close")
        /\ UNCHANGED <<state, tck, bitsLeft>>
     \/ /\ state = "ENABLED"
        /\ state' = "IO_IN_PROGRESS"
        /\ bitsLeft' \in 1 .. MaxBits
        /\ tck' = 0
        /\ Goto("xvc", "shift")
  /\ UNCHANGED <<pins, jtagsel, connected, local>>

ShiftHigh ==
  /\ At("xvc", "shift")
  /\ bitsLeft > 0
  /\ CanRun("xvc")
  /\ tck' = 1
  /\ Goto("xvc", "shiftHigh")
  /\ UNCHANGED <<state, pins, jtagsel, connected, local, bitsLeft>>

ShiftLow ==
  /\ At("xvc", "shiftHigh")
  /\ CanRun("xvc")
  /\ tck' = 0
  /\ bitsLeft' = bitsLeft - 1
  /\ Goto("xvc", "shift")
  /\ UNCHANGED <<state, pins, jtagsel, connected, local>>

(* Mutants: a request to disable the server is forgotten; the state is not *)
(* put back after the shift.                                               *)
ShiftEndForget ==
  /\ At("xvc", "shift")
  /\ bitsLeft = 0
  /\ CanRun("xvc")
  /\ state' = "ENABLED"
  /\ Goto("xvc", "write")
  /\ UNCHANGED <<port, connected, local, bitsLeft>>

ShiftEndNoReset ==
  /\ At("xvc", "shift")
  /\ bitsLeft = 0
  /\ CanRun("xvc")
  /\ Goto("xvc", "write")
  /\ UNCHANGED <<state, port, connected, local, bitsLeft>>

ShiftEnd ==
  /\ At("xvc", "shift")
  /\ bitsLeft = 0
  /\ CanRun("xvc")
  /\ state' = "ENABLED"
  /\ \/ /\ state = "DISABLE_REQUESTED"
        /\ Goto("xvc", "disable")
        /\ call' = [call EXCEPT !["xvc"] = "disable"]
     \/ /\ state # "DISABLE_REQUESTED"
        /\ Goto("xvc", "write")
        /\ UNCHANGED call
  /\ UNCHANGED <<port, connected, saw, status, bitsLeft>>

DoShift == ShiftBegin \/ ShiftHigh \/ ShiftLow \/ ShiftEnd

XvcRun == XvcCheck \/ XvcHandle \/ DoShift \/ ApiStep("xvc")

-----------------------------------------------------------------------------
(* The `j' command of the Telnet server.                                   *)

TelnetCommand ==
  /\ At("telnet", "idle")
  /\ Goto("telnet", "toggle")
  /\ UNCHANGED <<state, port, connected, local, bitsLeft>>

IsEnabled == state \in {"ENABLED", "IO_IN_PROGRESS"}

(* The answer of xvc_server_is_enabled decides which function is called,   *)
(* and may be out of date when that function looks at the state.           *)
TelnetToggle ==
  /\ At("telnet", "toggle")
  /\ CanRun("telnet")
  /\ LET f == IF IsEnabled THEN "disable" ELSE "enable"
     IN  Goto("telnet", f) /\ call' = [call EXCEPT !["telnet"] = f]
  /\ UNCHANGED <<state, port, connected, saw, status, bitsLeft>>

TelnetReport ==
  /\ At("telnet", "report")
  /\ CanRun("telnet")
  /\ Goto("telnet", "idle")
  /\ call' = [call EXCEPT !["telnet"] = "none"]
  /\ status' = [status EXCEPT !["telnet"] = "OK"]
  /\ UNCHANGED <<state, port, connected, saw, bitsLeft>>

TelnetRun == TelnetToggle \/ TelnetReport \/ ApiStep("telnet")

-----------------------------------------------------------------------------
(* xvc_server_update_jtagsel, called by task_led every 1000 ticks.         *)

LedWake ==
  /\ At("led", "idle")
  /\ Goto("led", "poll")
  /\ UNCHANGED <<state, port, connected, local, bitsLeft>>

(* Mutant: only the JTAG header is polled.                                 *)
LedPollHeaderOnly ==
  /\ At("led", "poll")
  /\ CanRun("led")
  /\ saw' = [saw EXCEPT !["led"] = connected \cap {"jtag"}]
  /\ Goto("led", IF "jtag" \in connected THEN "pollState" ELSE "idle")
  /\ UNCHANGED <<state, port, connected, call, status, bitsLeft>>

LedPollJtag ==
  /\ At("led", "poll")
  /\ CanRun("led")
  /\ saw' = [saw EXCEPT !["led"] = connected \cap {"jtag"}]
  /\ Goto("led", IF "jtag" \in connected THEN "pollState" ELSE "pollUsb")
  /\ UNCHANGED <<state, port, connected, call, status, bitsLeft>>

LedPollUsb ==
  /\ At("led", "pollUsb")
  /\ CanRun("led")
  /\ Goto("led", IF "usb" \in connected THEN "pollState" ELSE "idle")
  /\ UNCHANGED <<state, port, connected, local, bitsLeft>>

LedPollState ==
  /\ At("led", "pollState")
  /\ CanRun("led")
  /\ \/ /\ state # "DISABLED"
        /\ Goto("led", "disable")
        /\ call' = [call EXCEPT !["led"] = "disable"]
        /\ saw' = [saw EXCEPT !["led"] = {}]
     \/ /\ state = "DISABLED"
        /\ Goto("led", "pollSel")
        /\ UNCHANGED <<call, saw>>
  /\ UNCHANGED <<state, port, connected, status, bitsLeft>>

(* JTAGSEL is changed only if it does not suit the cable that was seen.    *)
LedPollSel ==
  /\ At("led", "pollSel")
  /\ CanRun("led")
  /\ IF jtagsel = (IF "jtag" \in saw["led"] THEN 0 ELSE 1)
     THEN /\ Goto("led", "cfg")
          /\ call' = [call EXCEPT !["led"] = "jtagsel"]
     ELSE /\ Goto("led", "idle")
          /\ UNCHANGED call
  /\ saw' = [saw EXCEPT !["led"] = {}]
  /\ UNCHANGED <<state, port, connected, status, bitsLeft>>

LedRun ==
  LedPollJtag \/ LedPollUsb \/ LedPollState \/ LedPollSel \/ ApiStep("led")

-----------------------------------------------------------------------------
(* The operator plugs or unplugs a cable.                                  *)

Plug(c) ==
  /\ connected' = IF c \in connected THEN connected \ {c}
                                    ELSE connected \cup {c}
  /\ UNCHANGED <<state, port, pc, local, bitsLeft>>

Step ==
  \/ XvcAccept
  \/ XvcReceive
  \/ XvcWritten
  \/ XvcClose
  \/ XvcRun
  \/ TelnetCommand
  \/ TelnetRun
  \/ LedWake
  \/ LedRun
  \/ \E c \in Cable : Plug(c)

Next == Step /\ UNCHANGED priority

(* The running task makes progress; a task of lower priority gets the CPU  *)
(* again and again because the XVC and Telnet tasks block in lwIP between  *)
(* two commands of their clients; the LED task's delay expires.  Nothing   *)
(* is assumed of the clients or of the operator.                           *)
Fairness ==
  /\ WF_vars(XvcRun /\ UNCHANGED priority)
  /\ SF_vars(TelnetRun /\ UNCHANGED priority)
  /\ SF_vars(LedRun /\ UNCHANGED priority)
  /\ WF_vars(LedWake /\ UNCHANGED priority)

Spec == Init /\ [][Next]_vars

FairSpec == Spec /\ Fairness

-----------------------------------------------------------------------------
(* Properties.                                                             *)

(* A task that has moved the server out of its settled states to change    *)
(* the GPIO configuration, and has not yet put it back.                    *)
Configuring(t) ==
  \/ pc[t] \in ConfigPoint \cup {"end"}
  \/ pc[t] = "cfg" /\ call[t] \in {"enable", "disable"}

Shifting == pc["xvc"] \in {"shift", "shiftHigh"}

(* update_gpio_config: "We must not interfere with a running I/O operation *)
(* or a concurrently running configuration update".  At most one task is   *)
(* configuring, and none is while the XVC task shifts, although the state  *)
(* is written back outside of the critical section.                        *)
ConfigExclusive ==
  \A t \in Task : Configuring(t) =>
    /\ ~Shifting
    /\ \A u \in Task \ {t} : ~Configuring(u)

(* do_shift: while it runs, the pins are outputs, JTAGSEL routes the chain *)
(* away from the USB adapter and the state says that I/O is in progress;   *)
(* in the other states the XVC task is not in its bit loop.                *)
ShiftOwnsPort ==
  /\ Shifting <=> state \in {"IO_IN_PROGRESS", "DISABLE_REQUESTED"}
  /\ Shifting => pins = "output" /\ jtagsel = 1

(* The settled states determine the port: a disabled server never drives   *)
(* the JTAG pins (an external adapter may), an enabled one drives them     *)
(* with JTAGSEL high, and TCK rests low outside of a TCK cycle.            *)
SettledPort ==
  /\ state = "DISABLED" => pins = "input"
  /\ state = "ENABLED" => pins = "output" /\ jtagsel = 1
  /\ tck = 1 => pc["xvc"] = "shiftHigh"

(* What each program point of a configuration knows, which makes the three *)
(* invariants above inductive: the state that the task put the server in,  *)
(* the direction of the pins so far, and that JTAGSEL stays high from the  *)
(* moment enable raises it.                                                *)
ConfigPhase(t) ==
  /\ pc[t] \in ConfigPoint => /\ state = "CONFIG_IN_PROGRESS"
                              /\ call[t] # "none"
  /\ pc[t] \in {"drive", "output"} => call[t] = "enable"
  /\ pc[t] = "enable" => call[t] = "enable"
  /\ pc[t] = "disable" => call[t] = "disable"
  /\ pc[t] = "cfg" => call[t] # "none"
  /\ pc[t] = "end" => call[t] \in {"enable", "disable"}
  /\ (pc[t] = "cfg" /\ call[t] \in {"enable", "disable"}) =>
       state = ExpectedState(t)
  /\ pc[t] = "end" =>
       state = IF status[t] = "OK" THEN ExpectedState(t)
                                   ELSE "CONFIG_IN_PROGRESS"
  /\ (pc[t] = "end" /\ status[t] # "OK") => call[t] = "enable"
  /\ (pc[t] \in ConfigPoint /\ call[t] = "jtagsel") => pins = "input"
  /\ (pc[t] \in {"select", "restore", "end"} /\ call[t] = "disable") =>
       pins = "input"
  /\ (Configuring(t) /\ call[t] = "enable") =>
       IF \/ pc[t] \in {"select", "restore"}
          \/ pc[t] = "end" /\ status[t] = "OK"
       THEN pins = "output" /\ jtagsel = 1
       ELSE pins = "input"
  /\ pc[t] = "output" => jtagsel = 1
  /\ (pc[t] \in {"output", "select"} /\ call[t] = "enable") => ~SawCable(t)

(* The inductive invariant: the exclusion of configurations and shifts,    *)
(* the ownership of the port and the settled states, at every program      *)
(* point of the three tasks.                                               *)
IndInv ==
  /\ TypeOK
  /\ ConfigExclusive
  /\ ShiftOwnsPort
  /\ SettledPort
  /\ \A t \in Task : ConfigPhase(t)
  /\ pc["xvc"] = "shiftHigh" => bitsLeft > 0

(* The order of the priorities that conf_lwip_threads.h and main.c assign. *)
ShippedOrder ==
  /\ priority["xvc"] > priority["telnet"]
  /\ priority["telnet"] > priority["led"]

(* With the shipped priorities the XVC task is never preempted by a task   *)
(* that could ask it to stop, so a shift is never cut short and the        *)
(* DISABLE_REQUESTED path of do_shift is not needed.                       *)
ShiftNeverInterrupted == ShippedOrder => state # "DISABLE_REQUESTED"

(* With the shipped priorities what the `j' command reports is true at the *)
(* moment of the report, although it reads the state without a lock.       *)
ReportIsTrue ==
  (ShippedOrder /\ pc["telnet"] = "report" /\ status["telnet"] = "OK") =>
    (IsEnabled <=> call["telnet"] = "enable")

(* The port as JtagPort sees it.                                           *)
PortHolder ==
  CASE state \in {"IO_IN_PROGRESS", "DISABLE_REQUESTED"} -> "shift"
    [] state \in {"DISABLED", "ENABLED"}                 -> "none"
    [] OTHER                                             -> "config"

Port == INSTANCE JtagPort WITH
  holder <- PortHolder, driven <- (pins = "output"), clock <- tck

(* The tasks together implement the exclusive JTAG port: pins change       *)
(* direction only inside a configuration, TCK moves only inside a shift on *)
(* driven pins.                                                            *)
ImplementsPort == Port!PortSpec

(* A configuration always ends in a settled state: neither an error return *)
(* of update_gpio_config nor a race leaves the server in a transition.     *)
ConfigTerminates ==
  state \in {"CONFIG_IN_PROGRESS", "ENABLING", "DISABLING"} ~>
    state \in {"DISABLED", "ENABLED"}

(* A request to disable the server that arrives during a shift is honoured *)
(* when the shift ends, whatever the other tasks do in between.            *)
DisableRequestHonoured == state = "DISABLE_REQUESTED" ~> state = "DISABLED"

(* A cable that stays connected eventually has the JTAG chain to itself,   *)
(* for good, even if the Telnet user keeps enabling the server and even if *)
(* the cable was plugged in after enable had looked for it; with the       *)
(* shipped priorities JTAGSEL ends up where the cable needs it, high for   *)
(* the header, low for the USB adapter.                                    *)
CableGetsPort ==
  /\ \A c \in Cable : <>[](c \in connected) => <>[](pins = "input")
  /\ <>[](ShippedOrder /\ "jtag" \in connected) => <>[](jtagsel = 1)
  /\ <>[](ShippedOrder /\ connected = {"usb"}) => <>[](jtagsel = 0)
=============================================================================
