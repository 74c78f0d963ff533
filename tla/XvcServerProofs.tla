--------------------------- MODULE XvcServerProofs ---------------------------
(***************************************************************************)
(* Proofs about XvcServer, for every bound on the length of a shift and    *)
(* every assignment of priorities to the tasks; two of the properties are  *)
(* about the assignments that have the order of the shipped priorities.    *)
(*                                                                         *)
(* The argument: IndInv is inductive.  Its core is ConfigPhase, which ties *)
(* each program point of a configuration to the server state that the task *)
(* has claimed; since two tasks cannot have claimed the state at once, the *)
(* exclusion and the direction of the pins follow.  For XvcShift, the loop *)
(* that runs inside the server's shift, LoopInv is inductive.              *)
(***************************************************************************)
EXTENDS XvcServer, XvcShift, TLAPS

(* The power-up state satisfies the inductive invariant.                   *)
LEMMA InitIndInv == Init => IndInv
BY MaxBitsAssumption
   DEF Init, IndInv, TypeOK, ConfigExclusive, ShiftOwnsPort, SettledPort,
       ConfigPhase, Configuring, Shifting, Task, ServerState, Cable,
       XvcPoint, TelnetPoint, LedPoint, ApiPoint, ConfigPoint

(* Every step of xvc_server_update_gpio_config preserves it, in any task.  *)
LEMMA UpdateGpioConfigInv ==
  ASSUME IndInv, NEW t \in Task, UpdateGpioConfig(t)
  PROVE  IndInv'
<1> USE DEF Task, Cable, ServerState, XvcPoint, TelnetPoint, LedPoint, ApiPoint,
      ConfigPoint, port, local, At, Goto, ConfigReturn, Return, ReturnPoint,
      ExpectedState, SawCable, Configuring, Shifting, IndInv, TypeOK,
      ConfigExclusive, ShiftOwnsPort, SettledPort, ConfigPhase
<1>1. CASE ConfigBegin(t)
  BY <1>1 DEF ConfigBegin
<1>2. CASE ConfigReadJtag(t)
  BY <1>2 DEF ConfigReadJtag
<1>3. CASE ConfigReadUsb(t)
  BY <1>3 DEF ConfigReadUsb
<1>4. CASE ConfigRelease(t)
  BY <1>4 DEF ConfigRelease
<1>5. CASE ConfigDrive(t)
  BY <1>5 DEF ConfigDrive
<1>6. CASE ConfigOutput(t)
  BY <1>6 DEF ConfigOutput
<1>7. CASE ConfigSelect(t)
  BY <1>7 DEF ConfigSelect
<1>8. CASE ConfigRestore(t)
  BY <1>8 DEF ConfigRestore
<1> QED
  BY <1>1, <1>2, <1>3, <1>4, <1>5, <1>6, <1>7, <1>8 DEF UpdateGpioConfig

(* So do the critical sections of xvc_server_enable and                    *)
(* xvc_server_disable.                                                     *)
LEMMA ApiStepInv ==
  ASSUME IndInv, NEW t \in Task, ApiStep(t)
  PROVE  IndInv'
<1> USE DEF Task, Cable, ServerState, XvcPoint, TelnetPoint, LedPoint, ApiPoint,
      ConfigPoint, port, local, At, Goto, ConfigReturn, Return, ReturnPoint,
      ExpectedState, SawCable, Configuring, Shifting, IndInv, TypeOK,
      ConfigExclusive, ShiftOwnsPort, SettledPort, ConfigPhase
<1>1. CASE EnableBegin(t)
  BY <1>1 DEF EnableBegin
<1>2. CASE EnableEnd(t)
  BY <1>2 DEF EnableEnd
<1>3. CASE DisableBegin(t)
  BY <1>3 DEF DisableBegin
<1>4. CASE DisableEnd(t)
  BY <1>4 DEF DisableEnd
<1>5. CASE UpdateGpioConfig(t)
  BY <1>5, UpdateGpioConfigInv
<1> QED
  BY <1>5, <1>1, <1>2, <1>3, <1>4 DEF ApiStep

(* The steps of xvc_server_do_shift preserve it: a shift starts only in    *)
(* the state ENABLED, where the pins are driven.                           *)
LEMMA DoShiftInv ==
  ASSUME IndInv, DoShift
  PROVE  IndInv'
<1> USE DEF Task, Cable, ServerState, XvcPoint, TelnetPoint, LedPoint, ApiPoint,
      ConfigPoint, port, local, At, Goto, ConfigReturn, Return, ReturnPoint,
      ExpectedState, SawCable, Configuring, Shifting, IndInv, TypeOK,
      ConfigExclusive, ShiftOwnsPort, SettledPort, ConfigPhase
<1>1. CASE ShiftBegin
  BY <1>1, MaxBitsAssumption DEF ShiftBegin
<1>2. CASE ShiftHigh
  BY <1>2 DEF ShiftHigh
<1>3. CASE ShiftLow
  BY <1>3, MaxBitsAssumption DEF ShiftLow
<1>4. CASE ShiftEnd
  BY <1>4 DEF ShiftEnd
<1> QED
  BY <1>1, <1>2, <1>3, <1>4 DEF DoShift

(* The steps of the tasks outside of the API, and the cables, do not       *)
(* disturb it: what a task has read about the server may be stale.         *)
LEMMA TaskStepInv ==
  ASSUME IndInv, \/ XvcAccept \/ XvcCheck \/ XvcReceive \/ XvcHandle
         \/ XvcWritten \/ XvcClose \/ TelnetCommand \/ TelnetToggle
         \/ TelnetReport \/ LedWake \/ LedPollJtag \/ LedPollUsb
         \/ LedPollState \/ LedPollSel \/ \E c \in Cable : Plug(c)
  PROVE  IndInv'
<1> USE DEF Task, Cable, ServerState, XvcPoint, TelnetPoint, LedPoint, ApiPoint,
      ConfigPoint, port, local, At, Goto, ConfigReturn, Return, ReturnPoint,
      ExpectedState, SawCable, Configuring, Shifting, IndInv, TypeOK,
      ConfigExclusive, ShiftOwnsPort, SettledPort, ConfigPhase
<1>1. CASE XvcAccept
  BY <1>1 DEF XvcAccept
<1>2. CASE XvcCheck
  BY <1>2 DEF XvcCheck
<1>3. CASE XvcReceive
  BY <1>3 DEF XvcReceive
<1>4. CASE XvcHandle
  BY <1>4 DEF XvcHandle
<1>5. CASE XvcWritten
  BY <1>5 DEF XvcWritten
<1>6. CASE XvcClose
  BY <1>6 DEF XvcClose
<1>7. CASE TelnetCommand
  BY <1>7 DEF TelnetCommand
<1>8. CASE TelnetToggle
  BY <1>8 DEF TelnetToggle
<1>9. CASE TelnetReport
  BY <1>9 DEF TelnetReport
<1>10. CASE LedWake
  BY <1>10 DEF LedWake
<1>11. CASE LedPollJtag
  BY <1>11 DEF LedPollJtag
<1>12. CASE LedPollUsb
  BY <1>12 DEF LedPollUsb
<1>13. CASE LedPollState
  BY <1>13 DEF LedPollState
<1>14. CASE LedPollSel
  BY <1>14 DEF LedPollSel
<1>15. CASE \E c \in Cable : Plug(c)
  BY <1>15 DEF Plug
<1> QED
  BY <1>1, <1>2, <1>3, <1>4, <1>5, <1>6, <1>7, <1>8, <1>9, <1>10, <1>11,
     <1>12, <1>13, <1>14, <1>15

(* IndInv is an inductive invariant of the specification.                  *)
THEOREM IndInvIsInvariant == Spec => []IndInv
<1>1. IndInv /\ [Next]_vars => IndInv'
  <2> SUFFICES ASSUME IndInv, [Next]_vars
               PROVE  IndInv'
    OBVIOUS
  <2>1. CASE \E t \in Task : ApiStep(t)
    BY <2>1, ApiStepInv
  <2>2. CASE DoShift
    BY <2>2, DoShiftInv
  <2>3. CASE UNCHANGED vars
    BY <2>3 DEF vars, IndInv, TypeOK, ConfigExclusive, ShiftOwnsPort,
       SettledPort, ConfigPhase, Configuring, Shifting, ExpectedState, SawCable
  <2>4. CASE \/ XvcAccept \/ XvcCheck \/ XvcReceive \/ XvcHandle
             \/ XvcWritten \/ XvcClose \/ TelnetCommand \/ TelnetToggle
             \/ TelnetReport \/ LedWake \/ LedPollJtag \/ LedPollUsb
             \/ LedPollState \/ LedPollSel \/ \E c \in Cable : Plug(c)
    BY <2>4, TaskStepInv
  <2> QED
    BY <2>1, <2>2, <2>3, <2>4 DEF Next, Step, XvcRun, TelnetRun, LedRun, Task
<1> QED
  BY <1>1, InitIndInv, PTL DEF Spec

(* Every variable of the model stays in its type: in particular each task  *)
(* stays at the program points of its own code.                            *)
THEOREM TypeCorrect == Spec => []TypeOK
BY IndInvIsInvariant, PTL DEF IndInv

(* At most one task changes the GPIO configuration, and none does while    *)
(* the XVC task shifts, for every assignment of priorities.                *)
THEOREM ConfigurationIsExclusive == Spec => []ConfigExclusive
BY IndInvIsInvariant, PTL DEF IndInv

(* While bits are shifted the server owns the port: state, direction of    *)
(* the pins and JTAGSEL are as do_shift needs them.                        *)
THEOREM ShiftHasPort == Spec => []ShiftOwnsPort
BY IndInvIsInvariant, PTL DEF IndInv

(* A disabled server leaves the pins to the cables, an enabled one drives  *)
(* them, whatever path of errors and races led there.                      *)
THEOREM SettledStatesFixPort == Spec => []SettledPort
BY IndInvIsInvariant, PTL DEF IndInv

-----------------------------------------------------------------------------
(* Every step of an API function is a step of the abstract port or leaves  *)
(* it alone.                                                               *)
LEMMA ApiStepRefines ==
  ASSUME IndInv, NEW t \in Task, ApiStep(t)
  PROVE  [Port!PortNext]_(Port!portVars)
<1> USE DEF IndInv, TypeOK, Port!PortNext, Port!portVars, PortHolder, port,
      local, At, Goto, Return, ReturnPoint, ConfigReturn, Task, ServerState
<1>1. CASE ConfigBegin(t)
  BY <1>1 DEF ConfigBegin, ExpectedState, Port!BeginConfig, ConfigPhase
<1>2. CASE ConfigReadJtag(t) \/ ConfigReadUsb(t) \/ ConfigSelect(t)
  BY <1>2 DEF ConfigReadJtag, ConfigReadUsb, ConfigSelect
<1>3. CASE ConfigRelease(t) \/ ConfigOutput(t)
  BY <1>3 DEF ConfigRelease, ConfigOutput, Port!Redirect, ConfigPhase,
     ConfigPoint, SettledPort, ConfigExclusive, Configuring, Shifting
<1>4. CASE ConfigDrive(t)
  BY <1>4 DEF ConfigDrive
<1>5. CASE ConfigRestore(t)
  BY <1>5 DEF ConfigRestore, ExpectedState, Port!EndConfig, ConfigPhase,
     ConfigPoint
<1>6. CASE EnableBegin(t)
  BY <1>6 DEF EnableBegin, Port!BeginConfig
<1>7. CASE EnableEnd(t)
  BY <1>7 DEF EnableEnd, Port!EndConfig, ConfigPhase, ExpectedState
<1>8. CASE DisableBegin(t)
  BY <1>8 DEF DisableBegin, Port!BeginConfig
<1>9. CASE DisableEnd(t)
  BY <1>9 DEF DisableEnd, Port!EndConfig, ConfigPhase, ExpectedState
<1> QED
  BY <1>1, <1>2, <1>3, <1>4, <1>5, <1>6, <1>7, <1>8, <1>9
     DEF ApiStep, UpdateGpioConfig

(* The steps of do_shift are steps of the abstract port.                   *)
LEMMA DoShiftRefines ==
  ASSUME IndInv, DoShift
  PROVE  [Port!PortNext]_(Port!portVars)
<1> USE DEF IndInv, TypeOK, Port!PortNext, Port!portVars, PortHolder, port,
      local, At, Goto, ShiftOwnsPort, SettledPort, Shifting
<1>1. CASE ShiftBegin
  BY <1>1 DEF ShiftBegin, Port!BeginShift
<1>2. CASE ShiftHigh
  BY <1>2 DEF ShiftHigh, Port!Toggle
<1>3. CASE ShiftLow
  BY <1>3 DEF ShiftLow, Port!Toggle
<1>4. CASE ShiftEnd
  BY <1>4 DEF ShiftEnd, Port!EndShift
<1> QED
  BY <1>1, <1>2, <1>3, <1>4 DEF DoShift

(* The three tasks together implement the exclusive JTAG port of JtagPort: *)
(* the pins change direction only inside a configuration and TCK moves     *)
(* only inside a shift on driven pins.                                     *)
THEOREM TasksImplementPort == Spec => ImplementsPort
<1>1. Init => Port!PortInit
  BY DEF Init, Port!PortInit, PortHolder
<1>2. IndInv /\ [Next]_vars => [Port!PortNext]_(Port!portVars)
  <2> SUFFICES ASSUME IndInv, [Next]_vars
               PROVE  [Port!PortNext]_(Port!portVars)
    OBVIOUS
  <2>1. CASE \E t \in Task : ApiStep(t)
    BY <2>1, ApiStepRefines
  <2>2. CASE DoShift
    BY <2>2, DoShiftRefines
  <2>3. CASE UNCHANGED <<state, port>>
    BY <2>3 DEF port, Port!portVars, PortHolder
  <2> QED
    BY <2>1, <2>2, <2>3 DEF Next, Step, XvcRun, TelnetRun, LedRun, Task, vars, port,
       XvcAccept, XvcCheck, XvcReceive, XvcHandle, XvcWritten, XvcClose,
       TelnetCommand, TelnetToggle, TelnetReport, LedWake, LedPollJtag,
       LedPollUsb, LedPollState, LedPollSel, Plug
<1> QED
  BY <1>1, <1>2, IndInvIsInvariant, PTL DEF Spec, ImplementsPort, Port!PortSpec

-----------------------------------------------------------------------------
(* What that order adds to IndInv: the XVC task is never asked to stop, so *)
(* it never runs xvc_server_disable, and a successful toggle is final      *)
(* until the Telnet task has reported it.                                  *)
OrderInv ==
  /\ priority \in [Task -> Nat]
  /\ ShippedOrder =>
       /\ state # "DISABLE_REQUESTED"
       /\ pc["xvc"] \notin ApiPoint
       /\ (pc["telnet"] = "report" /\ status["telnet"] = "OK") =>
            /\ call["telnet"] = "enable" => IsEnabled
            /\ call["telnet"] # "enable" => state = "DISABLED"

(* Under the shipped order the stronger invariant holds.                   *)
LEMMA OrderInvIsInvariant == Spec => []OrderInv
<1>1. Init => OrderInv
  BY PrioritiesAssumption DEF Init, OrderInv, ApiPoint, ConfigPoint, Task
<1>2. IndInv /\ OrderInv /\ [Next]_vars => OrderInv'
  <2> SUFFICES ASSUME IndInv, OrderInv, [Next]_vars, ShippedOrder
               PROVE  OrderInv'
    BY DEF OrderInv, ShippedOrder, Next, vars
  <2>0. UNCHANGED priority /\ [Step]_vars
    BY DEF Next, vars
  <2> USE <2>0 DEF IndInv, TypeOK, OrderInv, ShippedOrder, IsEnabled,
        Task, ApiPoint, ConfigPoint, At, Goto, local, port
  <2>1. ASSUME NEW t \in Task, ApiStep(t)
        PROVE  OrderInv'
    <3>1. t # "xvc" /\ pc["xvc"] \in BlockingPoint
      BY <2>1
         DEF ApiStep, UpdateGpioConfig, ConfigBegin, ConfigReadJtag,
         ConfigReadUsb, ConfigRelease, ConfigDrive, ConfigOutput, ConfigSelect,
         ConfigRestore, EnableBegin, EnableEnd, DisableBegin, DisableEnd,
         CanRun
    <3>2. pc["telnet"] = "report" => FALSE
      BY <2>1, <3>1
         DEF ApiStep, UpdateGpioConfig, ConfigBegin, ConfigReadJtag,
         ConfigReadUsb, ConfigRelease, ConfigDrive, ConfigOutput, ConfigSelect,
         ConfigRestore, EnableBegin, EnableEnd, DisableBegin, DisableEnd,
         CanRun, BlockingPoint
    <3>3. state # "IO_IN_PROGRESS"
      BY <3>1 DEF ShiftOwnsPort, Shifting, BlockingPoint
    <3>4. CASE UpdateGpioConfig(t)
      BY <3>1, <3>2, <3>3, <3>4 DEF UpdateGpioConfig, ConfigBegin,
         ConfigReadJtag, ConfigReadUsb, ConfigRelease, ConfigDrive,
         ConfigOutput, ConfigSelect, ConfigRestore, ConfigReturn, Return,
         ReturnPoint, ExpectedState, ConfigPhase
    <3>5. CASE EnableBegin(t) \/ EnableEnd(t)
      BY <3>1, <3>2, <3>3, <3>5 DEF EnableBegin, EnableEnd, Return,
         ReturnPoint, ConfigPhase
    <3>6. CASE DisableBegin(t) \/ DisableEnd(t)
      BY <3>1, <3>2, <3>3, <3>6 DEF DisableBegin, DisableEnd, Return,
         ReturnPoint, ConfigPhase
    <3> QED
      BY <2>1, <3>4, <3>5, <3>6 DEF ApiStep
  <2>2. CASE DoShift
    BY <2>2 DEF DoShift, ShiftBegin, ShiftHigh, ShiftLow, ShiftEnd,
       ShiftOwnsPort, Shifting
  <2>3. CASE XvcAccept \/ XvcCheck \/ XvcReceive \/ XvcHandle \/ XvcWritten
             \/ XvcClose
    BY <2>3 DEF XvcAccept, XvcCheck, XvcReceive, XvcHandle, XvcWritten, XvcClose
  <2>4. CASE TelnetCommand \/ TelnetToggle \/ TelnetReport
    BY <2>4 DEF TelnetCommand, TelnetToggle, TelnetReport
  <2>5. CASE LedWake \/ LedPollJtag \/ LedPollUsb \/ LedPollState \/ LedPollSel
    BY <2>5 DEF LedWake, LedPollJtag, LedPollUsb, LedPollState, LedPollSel
  <2>6. CASE (\E c \in Cable : Plug(c)) \/ UNCHANGED vars
    BY <2>6 DEF Plug, vars
  <2> QED
    BY <2>1, <2>2, <2>3, <2>4, <2>5, <2>6
       DEF Step, XvcRun, TelnetRun, LedRun
<1> QED
  BY <1>1, <1>2, IndInvIsInvariant, PTL DEF Spec

(* With the shipped order of priorities a shift is never interrupted by a  *)
(* request to disable the server.                                          *)
THEOREM ShippedShiftUninterrupted == Spec => []ShiftNeverInterrupted
<1>1. OrderInv => ShiftNeverInterrupted
  BY DEF OrderInv, ShiftNeverInterrupted
<1> QED
  BY <1>1, OrderInvIsInvariant, PTL

(* With the shipped order of priorities the Telnet user is told the truth  *)
(* about the server.                                                       *)
THEOREM ShippedReportTrue == Spec => []ReportIsTrue
<1>1. OrderInv => ReportIsTrue
  BY DEF OrderInv, ReportIsTrue, IsEnabled
<1> QED
  BY <1>1, OrderInvIsInvariant, PTL

-----------------------------------------------------------------------------
(* The bit loop of xvc_server_do_shift, for vectors of every length and    *)
(* bytes of every width.                                                   *)

(* Rounding up: the last byte is the one that holds the last bit.          *)
LEMMA LastByteHoldsLastBit ==
  ASSUME NEW n \in Nat \ {0}
  PROVE  LET q == BitsToBytes(n)
         IN  /\ q \in Nat \ {0}
             /\ ByteBits * (q - 1) < n
             /\ n <= ByteBits * (q - 1) + ByteBits
<1> DEFINE q == BitsToBytes(n)
           m == n + ByteBits - 1
<1>0. ByteBits \in Nat /\ ByteBits > 0 /\ m \in Nat
  BY ByteBitsAssumption
<1>1. q = m \div ByteBits
  BY DEF BitsToBytes
<1>2. q \in Nat
  BY <1>0, <1>1
<1>3. m = ByteBits * q + (m % ByteBits) /\ m % ByteBits \in 0 .. ByteBits - 1
  BY <1>0, <1>1
<1>4. ByteBits * (q - 1) = ByteBits * q - ByteBits
  BY <1>0, <1>2
<1>5. q # 0
  BY <1>0, <1>2, <1>3
<1> QED
  BY <1>0, <1>2, <1>3, <1>4, <1>5

(* A byte's bits all come before those of a later byte.                    *)
LEMMA LaterByte ==
  ASSUME NEW b \in Nat, NEW c \in Nat, b < c
  PROVE  ByteBits * b + ByteBits <= ByteBits * c
<1>1. PICK d \in Nat : c = b + 1 + d
  <2>1. c - b - 1 \in Nat /\ c = b + 1 + (c - b - 1)
    OBVIOUS
  <2> QED BY <2>1
<1>2. ByteBits * c = ByteBits * b + ByteBits + ByteBits * d
  BY <1>1, ByteBitsAssumption
<1>3. ByteBits * d \in Nat /\ ByteBits * b \in Nat
  BY ByteBitsAssumption
<1> QED
  BY <1>2, <1>3, ByteBitsAssumption

(* Places are numbered from one.                                           *)
LEMMA PlaceType ==
  ASSUME NEW b \in Nat, NEW k \in BitNumber
  PROVE  Place(b, k) \in Nat /\ Place(b, k) > 0
<1>1. ByteBits * b \in Nat
  BY ByteBitsAssumption
<1> QED
  BY <1>1, ByteBitsAssumption DEF Place, BitNumber

(* Two bits at the same place are the same bit.                            *)
LEMMA PlaceUnique ==
  ASSUME NEW b \in Nat, NEW c \in Nat, NEW k \in BitNumber, NEW l \in BitNumber,
         Place(b, k) = Place(c, l)
  PROVE  b = c /\ k = l
<1>1. ByteBits * b \in Nat /\ ByteBits * c \in Nat
  BY ByteBitsAssumption
<1>2. ~(b < c)
  BY <1>1, LaterByte, ByteBitsAssumption DEF Place, BitNumber
<1>3. ~(c < b)
  BY <1>1, LaterByte, ByteBitsAssumption DEF Place, BitNumber
<1>4. b = c
  BY <1>2, <1>3
<1> QED
  BY <1>1, <1>4, ByteBitsAssumption DEF Place, BitNumber

(* The code before the loop establishes the loop invariant.                *)
LEMMA InitLoopInv == LoopInit => LoopInv
<1> SUFFICES ASSUME LoopInit PROVE LoopInv
  OBVIOUS
<1>1. /\ lastByte \in Nat
      /\ ByteBits * lastByte < length
      /\ length <= ByteBits * lastByte + ByteBits
  BY LastByteHoldsLastBit, MaxLengthAssumption DEF LoopInit
<1>2. ZeroByte \in Byte /\ 0 \in BitNumber
  BY ByteBitsAssumption DEF ZeroByte, Byte, BitNumber, Bit
<1>3. LoopType
  BY <1>1, <1>2, ByteBitsAssumption DEF LoopInit, LoopType, BitOf, Byte
<1>4. \A b \in Nat, k \in BitNumber : Place(b, k) \in Nat /\ ~(Place(b, k) <= 0)
  BY PlaceType
<1>5. SentInOrder
  <2>1. \A b \in 0 .. lastByte, k \in BitNumber : ~(Place(b, k) <= bitIndex)
    BY <1>1, <1>4 DEF LoopInit
  <2> QED
    BY <2>1 DEF SentInOrder
<1>6. \A k \in BitNumber : bytes[0][k] = 0
  BY <1>1 DEF LoopInit, ZeroByte
<1>7. bitIndex = ByteBits * nextByte + nextBit
  BY ByteBitsAssumption DEF LoopInit
<1>8. nextBit # ByteBits
  BY ByteBitsAssumption DEF LoopInit
<1>9. \A b \in 0 .. lastByte : b > nextByte => bytes[b] = tdi[b]
  BY <1>1 DEF LoopInit
<1>10. \A b \in 0 .. nextByte, k \in BitNumber :
         bytes[b][k] = IF Place(b, k) <= bitIndex THEN tdo[Place(b, k)] ELSE 0
  <2> SUFFICES ASSUME NEW k \in BitNumber
               PROVE  bytes[0][k] = IF Place(0, k) <= bitIndex
                                    THEN tdo[Place(0, k)] ELSE 0
    BY DEF LoopInit
  <2>1. ~(Place(0, k) <= bitIndex)
    BY <1>4 DEF LoopInit
  <2> QED
    BY <2>1, <1>6
<1> QED
  BY <1>1, <1>3, <1>5, <1>7, <1>8, <1>9, <1>10 DEF LoopInv, LoopInit

(* An iteration of the loop preserves it.                                  *)
LEMMA ShiftBitLoopInv ==
  ASSUME LoopInv, ShiftBit
  PROVE  LoopInv'
<1> USE ByteBitsAssumption
<1>1. nextBit \in BitNumber
  <2>1. SUFFICES ASSUME nextBit = ByteBits PROVE FALSE
    BY DEF LoopInv, LoopType, BitNumber
  <2>2. nextByte = lastByte
    BY <2>1 DEF LoopInv
  <2>3. bitIndex >= length
    BY <2>1, <2>2 DEF LoopInv, LoopType
  <2> QED
    BY <2>3 DEF ShiftBit, LoopInv, LoopType
<1>2. Place(nextByte, nextBit) = bitIndex + 1
  BY DEF LoopInv, LoopType, Place
<1>3. PICK answer \in Bit :
        /\ tdo' = Append(tdo, answer)
        /\ bytes' = [Cleared EXCEPT ![nextByte][nextBit] = Or(@, answer)]
  BY DEF ShiftBit
<1>4. UNCHANGED <<length, lastByte, tdi, tms>> /\ bitIndex' = bitIndex + 1
  BY DEF ShiftBit
(* The position moves on by one bit. *)
<1>5. /\ nextByte' \in 0 .. lastByte
      /\ nextBit' \in 0 .. ByteBits
      /\ bitIndex' = ByteBits * nextByte' + nextBit'
      /\ nextBit' = ByteBits => nextByte' = lastByte
      /\ nextByte' \in {nextByte, nextByte + 1}
      /\ nextByte' # nextByte => /\ nextBit' = 0
                                /\ nextBit = ByteBits - 1
                                /\ nextByte' = nextByte + 1
  <2>1. CASE LoadByte
    <3>1. ByteBits * (nextByte + 1) = ByteBits * nextByte + ByteBits
      BY DEF LoopInv, LoopType
    <3> QED
      BY <2>1, <3>1, <1>4 DEF LoadByte, LoopInv, LoopType
  <2>2. CASE AdvanceBit
    BY <2>2, <1>1, <1>4 DEF AdvanceBit, LoopInv, LoopType, BitNumber
  <2> QED
    BY <2>1, <2>2 DEF ShiftBit
<1>6. /\ tdiNextByte' = tdi[nextByte'] /\ tdiNextByte' \in Byte
      /\ tmsNextByte' = tms[nextByte'] /\ tmsNextByte' \in Byte
  <2>1. CASE LoadByte
    BY <2>1 DEF LoadByte, LoopInv, LoopType
  <2>2. CASE AdvanceBit
    BY <2>2 DEF AdvanceBit, LoopInv, LoopType
  <2> QED
    BY <2>1, <2>2 DEF ShiftBit
<1>7. /\ nextTdi' = BitOf(tdiNextByte', nextBit') /\ nextTdi' \in Bit
      /\ nextTms' = BitOf(tmsNextByte', nextBit') /\ nextTms' \in Bit
  BY <1>5, <1>6 DEF ShiftBit, BitOf, Byte, BitNumber, Bit
(* The buffer. *)
<1>8. ZeroByte \in Byte /\ \A k \in BitNumber : ZeroByte[k] = 0
  BY DEF ZeroByte, Byte, Bit
<1>9. /\ Cleared \in [0 .. lastByte -> Byte]
      /\ \A b \in 0 .. lastByte :
           Cleared[b] = IF nextByte' # nextByte /\ b = nextByte'
                        THEN ZeroByte ELSE bytes[b]
  BY <1>5, <1>8 DEF Cleared, LoopInv, LoopType
<1>10. Cleared[nextByte][nextBit] = 0
  <2>1. Cleared[nextByte] = bytes[nextByte]
    BY <1>5, <1>9 DEF LoopInv, LoopType
  <2>2. ~(Place(nextByte, nextBit) <= bitIndex)
    BY <1>2 DEF LoopInv, LoopType
  <2>3. \A k \in BitNumber :
          bytes[nextByte][k] = IF Place(nextByte, k) <= bitIndex
                               THEN tdo[Place(nextByte, k)] ELSE 0
    BY DEF LoopInv, LoopType
  <2> QED
    BY <2>1, <2>2, <2>3, <1>1
<1>11. /\ bytes' \in [0 .. lastByte -> Byte]
       /\ bytes'[nextByte][nextBit] = answer
       /\ \A b \in 0 .. lastByte, k \in BitNumber :
            (b # nextByte \/ k # nextBit) => bytes'[b][k] = Cleared[b][k]
       /\ \A b \in 0 .. lastByte : b # nextByte => bytes'[b] = Cleared[b]
  BY <1>1, <1>3, <1>9, <1>10 DEF Or, Bit, Byte, LoopInv, LoopType
<1>12. /\ sentTdi' = Append(sentTdi, nextTdi)
       /\ sentTms' = Append(sentTms, nextTms)
  BY DEF ShiftBit
<1>13. LoopType'
  BY <1>3, <1>4, <1>5, <1>6, <1>7, <1>11, <1>12 DEF LoopType, LoopInv, ShiftBit
(* Places that were done before keep their values; one place is new. *)
<1>14. ASSUME NEW b \in 0 .. lastByte, NEW k \in BitNumber
       PROVE  /\ Place(b, k) \in Nat /\ Place(b, k) > 0
              /\ Place(b, k) = bitIndex + 1 => b = nextByte /\ k = nextBit
  <2>0. b \in Nat
    BY DEF LoopInv, LoopType
  <2>1. Place(b, k) \in Nat /\ Place(b, k) > 0
    BY <2>0, PlaceType
  <2>2. Place(b, k) = bitIndex + 1 => b = nextByte /\ k = nextBit
    BY <1>1, <1>2, PlaceUnique DEF LoopInv, LoopType
  <2> QED
    BY <2>1, <2>2
<1>15. SentInOrder'
  <2> SUFFICES ASSUME NEW b \in 0 .. lastByte, NEW k \in BitNumber,
                      Place(b, k) <= bitIndex + 1
               PROVE  /\ sentTdi'[Place(b, k)] = tdi[b][k]
                      /\ sentTms'[Place(b, k)] = tms[b][k]
    BY <1>4 DEF SentInOrder, Place
  <2>0. /\ sentTdi \in Seq(Bit) /\ Len(sentTdi) = bitIndex
        /\ sentTms \in Seq(Bit) /\ Len(sentTms) = bitIndex
        /\ bitIndex \in Nat
    BY DEF LoopInv, LoopType
  <2>1. CASE Place(b, k) <= bitIndex
    <3>1. Place(b, k) \in 1 .. bitIndex
      BY <2>0, <2>1, <1>14
    <3>2. /\ sentTdi'[Place(b, k)] = sentTdi[Place(b, k)]
          /\ sentTms'[Place(b, k)] = sentTms[Place(b, k)]
      BY <2>0, <3>1, <1>12
    <3> QED
      BY <2>1, <3>2 DEF LoopInv, SentInOrder
  <2>2. CASE Place(b, k) = bitIndex + 1
    <3>1. b = nextByte /\ k = nextBit
      BY <2>2, <1>14
    <3>2. /\ sentTdi'[Place(b, k)] = nextTdi
          /\ sentTms'[Place(b, k)] = nextTms
      <4>1. nextTdi \in Bit /\ nextTms \in Bit
        BY DEF LoopInv, LoopType
      <4> QED
        BY <2>0, <2>2, <1>12, <4>1
    <3>3. nextTdi = tdi[nextByte][nextBit] /\ nextTms = tms[nextByte][nextBit]
      BY <1>1 DEF LoopInv, LoopType, BitOf, BitNumber
    <3> QED
      BY <3>1, <3>2, <3>3
  <2> QED
    BY <2>0, <2>1, <2>2, <1>14
<1>16. \A b \in 0 .. lastByte : b > nextByte' => bytes'[b] = tdi[b]
  BY <1>5, <1>9, <1>11 DEF LoopInv, LoopType
<1>17. ASSUME NEW b \in 0 .. nextByte', NEW k \in BitNumber
       PROVE  bytes'[b][k] = IF Place(b, k) <= bitIndex + 1
                             THEN tdo'[Place(b, k)] ELSE 0
  <2>0. b \in 0 .. lastByte
    BY <1>5 DEF LoopInv, LoopType
  <2>1. CASE b = nextByte /\ k = nextBit
    <3>1. tdo'[bitIndex + 1] = answer
      BY <1>3 DEF LoopInv, LoopType
    <3> QED
      BY <2>1, <3>1, <1>2, <1>11 DEF LoopInv, LoopType
  <2>2. CASE b # nextByte \/ k # nextBit
    <3>1. bytes'[b][k] = Cleared[b][k] /\ Place(b, k) # bitIndex + 1
      BY <2>0, <2>2, <1>11, <1>14
    <3>2. CASE b \in 0 .. nextByte
      <4>1. Cleared[b][k] = bytes[b][k]
        BY <2>0, <3>2, <1>5, <1>9 DEF LoopInv, LoopType
      <4>2. Place(b, k) <= bitIndex => tdo'[Place(b, k)] = tdo[Place(b, k)]
        <5>1. /\ bitIndex \in Nat /\ Place(b, k) \in Nat /\ Place(b, k) > 0
              /\ tdo \in Seq(Bit) /\ Len(tdo) = bitIndex
          BY <2>0, <1>14 DEF LoopInv, LoopType
        <5> QED
          BY <5>1, <1>3
      <4>3. bytes[b][k] = IF Place(b, k) <= bitIndex
                          THEN tdo[Place(b, k)] ELSE 0
        BY <3>2 DEF LoopInv
      <4>4. Place(b, k) <= bitIndex + 1 <=> Place(b, k) <= bitIndex
        <5>1. bitIndex \in Nat
          BY DEF LoopInv, LoopType
        <5>2. Place(b, k) \in Nat
          BY <2>0, <1>14
        <5> QED
          BY <5>1, <5>2, <3>1
      <4> QED
        BY <3>1, <4>1, <4>2, <4>3, <4>4
    <3>3. CASE b \notin 0 .. nextByte
      <4>1. b = nextByte + 1 /\ nextByte' = nextByte + 1 /\ nextBit = ByteBits - 1
        BY <3>3, <2>0, <1>5 DEF LoopInv, LoopType
      <4>2. Cleared[b][k] = 0
        BY <4>1, <2>0, <1>8, <1>9 DEF LoopInv, LoopType
      <4>3. ByteBits * b = ByteBits * nextByte + ByteBits
        BY <4>1 DEF LoopInv, LoopType
      <4>4. ~(Place(b, k) <= bitIndex + 1)
        BY <4>1, <4>3 DEF Place, BitNumber, LoopInv, LoopType
      <4> QED
        BY <3>1, <4>2, <4>4
    <3> QED
      BY <3>2, <3>3
  <2> QED
    BY <2>1, <2>2
<1>18. \A b \in 0 .. nextByte', k \in BitNumber :
         bytes'[b][k] = IF Place(b, k) <= bitIndex' THEN tdo'[Place(b, k)] ELSE 0
  BY <1>4, <1>17
<1> QED
  BY <1>4, <1>5, <1>6, <1>7, <1>13, <1>15, <1>16, <1>18 DEF LoopInv, Place

(* LoopInv holds throughout.                                               *)
LEMMA LoopInvIsInvariant == LoopSpec => []LoopInv
<1>1. LoopInv /\ [LoopNext]_loopVars => LoopInv'
  <2>1. LoopInv /\ ShiftBit => LoopInv'
    BY ShiftBitLoopInv
  <2>2. LoopInv /\ UNCHANGED loopVars => LoopInv'
    BY DEF LoopInv, LoopType, SentInOrder, Place, loopVars
  <2> QED
    BY <2>1, <2>2 DEF LoopNext
<1> QED
  BY <1>1, InitLoopInv, PTL DEF LoopSpec

(* The chain is clocked with the client's TDI and TMS bits in order.       *)
THEOREM ShiftSendsVectors == LoopSpec => []SentInOrder
BY LoopInvIsInvariant, PTL DEF LoopInv

(* The buffer returned to the client holds the TDO bits and zero padding,  *)
(* for vectors of every length: no TDI bit is lost or left behind.         *)
THEOREM ShiftReturnsTdo == LoopSpec => []TdoReturned
<1>1. LoopInv => TdoReturned
  <2> SUFFICES ASSUME LoopInv, bitIndex = length
               PROVE  nextByte = lastByte
    BY DEF LoopInv, LoopType, TdoReturned
  <2>1. SUFFICES ASSUME nextByte < lastByte PROVE FALSE
    BY DEF LoopInv, LoopType
  <2>2. ByteBits * nextByte + ByteBits <= ByteBits * lastByte
    BY <2>1, LaterByte DEF LoopInv, LoopType
  <2>3. ByteBits * nextByte \in Nat /\ ByteBits * lastByte \in Nat
    BY ByteBitsAssumption DEF LoopInv, LoopType
  <2>4. nextBit \in Nat /\ nextBit < ByteBits
    BY <2>1, ByteBitsAssumption DEF LoopInv, LoopType
  <2>5. length = ByteBits * nextByte + nextBit /\ ByteBits * lastByte < length
    BY DEF LoopInv
  <2> QED
    BY <2>2, <2>3, <2>4, <2>5, ByteBitsAssumption
<1> QED
  BY <1>1, LoopInvIsInvariant, PTL
=============================================================================
