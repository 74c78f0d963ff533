------------------------------ MODULE TwiMaster ------------------------------
(***************************************************************************)
(* The TWI driver, twi_master_read and twi_master_write of twi.c, as       *)
(* fpga_twi.c uses it: one call after the other, and a reset of the        *)
(* peripheral after every call that failed.                                *)
(*                                                                         *)
(* The driver polls the status register, which clears NACK, and sleeps     *)
(* until the interrupt handler notifies the task or some ticks have        *)
(* passed.  The PDC moves the bytes of longer packets.  The peripheral,    *)
(* the PDC and the chip on the bus are external: they go on between any    *)
(* two steps of the driver, the chip refuses the address or a byte when it *)
(* likes, and nothing says that it answers in time.                        *)
(*                                                                         *)
(* A byte is its number in the packet, from 1.                             *)
(***************************************************************************)
EXTENDS Naturals, Sequences

CONSTANT MaxLength  \* bound on the length of a packet (5 in fpga_twi.c)

ASSUME MaxLengthAssumption == MaxLength \in Nat \ {0}

VARIABLES
  line,      \* what the peripheral does: "idle", "address", "bytes"
  mread,     \* MMR.MREAD: the transfer is a read
  thr,       \* the byte in the transmit holding register, 0 if it is empty
  shifter,   \* the byte that is being sent, 0 if there is none
  rhr,       \* the byte in the receive holding register, 0 if it is empty
  stop,      \* a STOP was commanded and has not been sent yet
  nack,      \* SR.NACK
  txcomp,    \* SR.TXCOMP
  imr,       \* the interrupts that are enabled
  pdc,       \* the direction that the PDC is enabled for: "off", "tx", "rx"
  tcr,       \* bytes that the PDC still has to send
  rcr,       \* bytes that the PDC still has to receive
  got,       \* the bytes that the chip has accepted in this call
  given,     \* how many bytes the chip has supplied in this call
  refused,   \* the chip has refused its address or a byte in this call
  pc,        \* program point of the task
  length,    \* length of the packet
  remaining, \* what the PDC had to do when the driver last looked
  buffer,    \* the bytes received
  back,      \* where twi_wait_for_interrupt returns to
  rc,        \* what it returned last to the loop that waits for the PDC
  notified,  \* a notification of the task is pending
  result,    \* the status that the last call returned
  quiet      \* no byte was left over in RHR when the call began (history)

bus == <<line, mread, thr, shifter, rhr, stop>>
chip == <<got, given, refused>>
flags == <<nack, txcomp>>
pdcs == <<pdc, tcr, rcr>>
locals == <<length, remaining, buffer, back, rc, result, quiet>>
vars == <<bus, flags, imr, pdcs, chip, pc, locals, notified>>

Interrupt == {"TXCOMP", "RXRDY", "TXRDY", "NACK", "RXBUFF", "TXBUFE"}

Poll == {"wDma", "wByte", "wReady", "rDma", "rLast", "rComp"}

(* The flags, the registers, and the driver's variables: a packet is       *)
(* received into its buffer and never behind its end, whatever the split   *)
(* of the work between PDC and driver.                                     *)
FlagType ==
  /\ line \in {"idle", "address", "bytes"}
  /\ mread \in BOOLEAN /\ stop \in BOOLEAN /\ nack \in BOOLEAN
  /\ txcomp \in BOOLEAN /\ notified \in BOOLEAN /\ refused \in BOOLEAN
  /\ quiet \in BOOLEAN

RegisterType ==
  /\ thr \in 0 .. MaxLength /\ shifter \in 0 .. MaxLength
  /\ rhr \in 0 .. MaxLength + 1 /\ given \in 0 .. MaxLength + 1
  /\ imr \subseteq Interrupt
  /\ pdc \in {"off", "tx", "rx"}
  /\ tcr \in 0 .. MaxLength /\ rcr \in 0 .. MaxLength

DriverType ==
  /\ remaining \in 0 .. MaxLength
  /\ length \in 0 .. MaxLength
  /\ Len(buffer) <= length
  /\ back \in Poll /\ rc \in {"SUCCESS", "ERROR_TIMEOUT"}
  /\ pc \in Poll \cup {"idle", "wStop", "wComp", "rStop", "enable", "waiting",
                       "timedOut", "reset"}
  /\ result \in {"SUCCESS", "INVALID_ARGUMENT", "RECEIVE_NACK", "ERROR_TIMEOUT",
                 "ERROR_TIMEOUT_COMP"}

TypeOK == FlagType /\ RegisterType /\ DriverType

Init ==
  /\ line = "idle" /\ mread = FALSE
  /\ thr = 0 /\ shifter = 0 /\ rhr = 0
  /\ stop = FALSE /\ nack = FALSE /\ txcomp = TRUE
  /\ imr = {}
  /\ pdc = "off" /\ tcr = 0 /\ rcr = 0
  /\ got = <<>> /\ given = 0 /\ refused = FALSE
  /\ pc = "idle" /\ length = 0 /\ remaining = 0 /\ buffer = <<>>
  /\ back = "wDma" /\ rc = "SUCCESS" /\ notified = FALSE
  /\ result = "SUCCESS" /\ quiet = TRUE

-----------------------------------------------------------------------------
(* The peripheral and the chip.                                            *)

SR ==
  {f \in Interrupt :
     CASE f = "TXCOMP" -> txcomp
       [] f = "RXRDY"  -> rhr # 0
       [] f = "TXRDY"  -> thr = 0
       [] f = "NACK"   -> nack
       [] f = "RXBUFF" -> rcr = 0
       [] f = "TXBUFE" -> tcr = 0}

(* A byte in THR starts a transfer if there is none.                       *)
LoadThr(b) ==
  /\ thr' = b
  /\ txcomp' = FALSE
  /\ line' = IF line = "idle" THEN "address" ELSE line

PdcTransmit ==
  /\ pdc = "tx" /\ tcr > 0 /\ thr = 0
  /\ LoadThr(length - tcr + 1)
  /\ tcr' = tcr - 1
  /\ UNCHANGED <<mread, shifter, rhr, stop, nack, imr, pdc, rcr, chip, pc, locals,
                 notified>>

PdcReceive ==
  /\ pdc = "rx" /\ rcr > 0 /\ rhr # 0
  /\ buffer' = Append(buffer, rhr)
  /\ rhr' = 0
  /\ rcr' = rcr - 1
  /\ UNCHANGED <<line, mread, thr, shifter, stop, flags, imr, pdc, tcr, chip, pc,
                 length, remaining, back, rc, result, quiet, notified>>

(* NACK is set together with TXCOMP and TXRDY, and the bus is released.    *)
Refuse ==
  /\ line = "address" \/ shifter # 0
  /\ line' = "idle" /\ thr' = 0 /\ shifter' = 0 /\ stop' = FALSE
  /\ nack' = TRUE /\ txcomp' = TRUE
  /\ refused' = TRUE
  /\ UNCHANGED <<mread, rhr, imr, pdcs, got, given, pc, locals, notified>>

AcceptAddress ==
  /\ line = "address"
  /\ line' = "bytes"
  /\ shifter' = IF mread THEN 0 ELSE thr
  /\ thr' = IF mread THEN thr ELSE 0
  /\ UNCHANGED <<mread, rhr, stop, flags, imr, pdcs, chip, pc, locals, notified>>

AcceptByte ==
  /\ shifter # 0
  /\ got' = Append(got, shifter)
  /\ shifter' = thr
  /\ thr' = 0
  /\ UNCHANGED <<line, mread, rhr, stop, flags, imr, pdcs, given, refused, pc,
                 locals, notified>>

(* The shifter is empty: the next byte follows, or the STOP.               *)
SendNext ==
  /\ line = "bytes" /\ ~mread /\ shifter = 0
  /\ \/ thr # 0 /\ shifter' = thr /\ thr' = 0
        /\ UNCHANGED <<line, stop, txcomp>>
     \/ thr = 0 /\ stop /\ line' = "idle" /\ stop' = FALSE /\ txcomp' = TRUE
        /\ UNCHANGED <<thr, shifter>>
  /\ UNCHANGED <<mread, rhr, nack, imr, pdcs, chip, pc, locals, notified>>

(* The chip supplies a byte when RHR is free.  A STOP that was commanded   *)
(* before makes it the last one; otherwise the master asks for another.    *)
SupplyByte ==
  /\ line = "bytes" /\ mread /\ rhr = 0
  /\ given <= length
  /\ rhr' = given + 1
  /\ given' = given + 1
  /\ line' = IF stop THEN "idle" ELSE line
  /\ stop' = FALSE
  /\ txcomp' = stop
  /\ UNCHANGED <<mread, thr, shifter, nack, imr, pdcs, got, refused, pc, locals,
                 notified>>

Peripheral ==
  \/ PdcTransmit
  \/ PdcReceive
  \/ Refuse
  \/ AcceptAddress
  \/ AcceptByte
  \/ SendNext
  \/ SupplyByte

-----------------------------------------------------------------------------
(* twi_interrupt_handler disables every interrupt.  twi_disable_interrupt  *)
(* ends with a read of the status register, which clears NACK.             *)
Handler ==
  /\ imr \cap SR # {}
  /\ imr' = {}
  /\ nack' = FALSE
  /\ notified' = TRUE
  /\ UNCHANGED <<bus, txcomp, pdcs, chip, pc, locals>>

-----------------------------------------------------------------------------
(* Calls and returns.                                                      *)

(* What the caller sees; fpga_twi.c resets the peripheral after an error.  *)
Return(code) ==
  /\ result' = code
  /\ pc' = IF code = "SUCCESS" THEN "idle" ELSE "reset"

NewCall(n) ==
  /\ pc = "idle"
  /\ length' = n
  /\ buffer' = <<>> /\ got' = <<>> /\ given' = 0 /\ refused' = FALSE
  /\ quiet' = (rhr = 0) /\ rc' = "SUCCESS"

(* A packet of one byte is written by the driver itself, a longer one by   *)
(* the PDC.                                                                *)
CallWrite ==
  /\ \E n \in 0 .. MaxLength :
       /\ NewCall(n)
       /\ IF n = 0
          THEN Return("INVALID_ARGUMENT") /\ UNCHANGED <<mread, pdcs, remaining>>
          ELSE /\ mread' = FALSE
               /\ pdc' = IF n > 1 THEN "tx" ELSE pdc
               /\ tcr' = IF n > 1 THEN n ELSE tcr
               /\ remaining' = IF n > 1 THEN n ELSE remaining
               /\ pc' = IF n > 1 THEN "wDma" ELSE "wByte"
               /\ UNCHANGED <<rcr, result>>
  /\ UNCHANGED <<line, thr, shifter, rhr, stop, flags, imr, back, notified>>

(* START, with STOP for a single byte; the PDC receives all bytes but the  *)
(* last one.                                                               *)
CallRead ==
  /\ \E n \in 0 .. MaxLength :
       /\ NewCall(n)
       /\ IF n = 0
          THEN /\ Return("INVALID_ARGUMENT")
               /\ UNCHANGED <<mread, line, txcomp, stop, pdcs, remaining>>
          ELSE /\ mread' = TRUE /\ line' = "address" /\ txcomp' = FALSE
               /\ stop' = (n = 1)
               /\ pdc' = IF n > 1 THEN "rx" ELSE pdc
               /\ rcr' = IF n > 1 THEN n - 1 ELSE rcr
               /\ remaining' = IF n > 1 THEN n - 1 ELSE remaining
               /\ pc' = IF n > 1 THEN "rDma" ELSE "rLast"
               /\ UNCHANGED <<tcr, result>>
  /\ UNCHANGED <<thr, shifter, rhr, nack, imr, back, notified>>

(* Mutant: the receive holding register is not read.                       *)
ResetKeepsByte ==
  /\ pc = "reset"
  /\ imr' = {}
  /\ line' = "idle" /\ thr' = 0 /\ shifter' = 0 /\ stop' = FALSE
  /\ nack' = FALSE /\ txcomp' = TRUE
  /\ pc' = "idle"
  /\ UNCHANGED <<mread, rhr, pdcs, chip, locals, notified>>

(* fpga_twi_reset: twi_master_init again.                                  *)
Reset ==
  /\ pc = "reset"
  /\ imr' = {}
  /\ line' = "idle" /\ thr' = 0 /\ shifter' = 0 /\ rhr' = 0 /\ stop' = FALSE
  /\ nack' = FALSE /\ txcomp' = TRUE
  /\ pc' = "idle"
  /\ UNCHANGED <<mread, pdcs, chip, locals, notified>>

-----------------------------------------------------------------------------
(* twi_wait_for_interrupt.                                                 *)

(* What is waited for at each place.                                       *)
Awaited(point) ==
  CASE point = "wDma"                -> {"TXBUFE"}
    [] point = "rDma"                -> {"RXBUFF"}
    [] point \in {"wByte", "wReady"} -> {"NACK", "TXRDY"}
    [] point = "rLast"               -> {"NACK", "RXRDY"}
    [] point = "rComp"               -> {"TXCOMP"}

(* The task becomes the one to notify and forgets an old notification.     *)
Wait ==
  /\ back' = pc
  /\ notified' = FALSE /\ rc' = "SUCCESS"
  /\ pc' = "enable"
  /\ UNCHANGED <<length, remaining, buffer, result, quiet>>

EnableInterrupt ==
  /\ pc = "enable"
  /\ imr' = imr \cup Awaited(back)
  /\ pc' = "waiting"
  /\ UNCHANGED <<bus, flags, pdcs, chip, locals, notified>>

Notified ==
  /\ pc = "waiting"
  /\ notified
  /\ notified' = FALSE
  /\ pc' = back
  /\ UNCHANGED <<bus, flags, imr, pdcs, chip, locals>>

(* The handler may still run between the timeout and the next step.        *)
TimesOut ==
  /\ pc = "waiting"
  /\ ~notified
  /\ pc' = "timedOut"
  /\ UNCHANGED <<bus, flags, imr, pdcs, chip, locals, notified>>

(* How far the PDC has come.                                               *)
Counter == IF back = "wDma" THEN tcr ELSE rcr

(* Mutant: a transfer that does not advance is waited for again.           *)
TimeoutForPatience ==
  /\ pc = "timedOut"
  /\ imr' = imr \ Awaited(back)
  /\ nack' = FALSE
  /\ pc' = back
  /\ UNCHANGED <<bus, txcomp, pdcs, chip, locals, notified>>

(* twi_disable_interrupt, again with a read of the status register.  A     *)
(* transfer by the PDC that has advanced is waited for again, and rc keeps *)
(* the timeout; otherwise the PDC is stopped and the call fails.           *)
Timeout ==
  /\ pc = "timedOut"
  /\ imr' = imr \ Awaited(back)
  /\ nack' = FALSE
  /\ \/ /\ back \in {"wDma", "rDma"} /\ Counter # remaining
        /\ remaining' = Counter /\ rc' = "ERROR_TIMEOUT"
        /\ pc' = back
        /\ UNCHANGED <<pdcs, result>>
     \/ /\ back \in {"wDma", "rDma"} /\ Counter = remaining
        /\ pdc' = "off"
        /\ tcr' = IF back = "wDma" THEN 0 ELSE tcr
        /\ rcr' = IF back = "rDma" THEN 0 ELSE rcr
        /\ Return("ERROR_TIMEOUT")
        /\ UNCHANGED <<remaining, rc>>
     \/ /\ back \notin {"wDma", "rDma"}
        /\ Return(IF back = "rComp" THEN "ERROR_TIMEOUT_COMP" ELSE "ERROR_TIMEOUT")
        /\ UNCHANGED <<pdcs, remaining, rc>>
  /\ UNCHANGED <<bus, txcomp, chip, length, buffer, back, quiet, notified>>

-----------------------------------------------------------------------------
(* The places that poll the status register; each read clears NACK.        *)

PollFor(point) ==
  /\ pc = point
  /\ nack' = FALSE

PollNack(point) ==
  /\ PollFor(point)
  /\ nack
  /\ Return("RECEIVE_NACK")
  /\ IF point \in {"wDma", "rDma"}
     THEN /\ pdc' = "off"
          /\ tcr' = IF point = "wDma" THEN 0 ELSE tcr
          /\ rcr' = IF point = "rDma" THEN 0 ELSE rcr
     ELSE UNCHANGED pdcs
  /\ UNCHANGED <<bus, txcomp, imr, chip, length, remaining, buffer, back, rc,
                 quiet, notified>>

PollWait(point, flag) ==
  /\ PollFor(point)
  /\ ~nack
  /\ flag \notin SR
  /\ Wait
  /\ UNCHANGED <<bus, txcomp, imr, pdcs, chip>>

(* The PDC is done with the packet, or with all bytes but the last.  If    *)
(* the loop has just been through a timeout, rc still says so and the call *)
(* fails.                                                                  *)
DmaDone(point, flag, next) ==
  /\ PollFor(point)
  /\ ~nack
  /\ flag \in SR
  /\ pdc' = "off"
  /\ IF rc = "SUCCESS" THEN pc' = next /\ UNCHANGED result ELSE Return(rc)
  /\ UNCHANGED <<bus, txcomp, imr, tcr, rcr, chip, length, remaining, buffer,
                 back, rc, quiet, notified>>

(* Mutant: the PDC is stopped when half of the packet is still to be sent. *)
WriteDmaEarly ==
  \/ PollNack("wDma")
  \/ PollWait("wDma", "TXBUFE")
  \/ /\ PollFor("wDma") /\ ~nack /\ tcr <= 1
     /\ pdc' = "off"
     /\ pc' = "wReady"
     /\ UNCHANGED <<bus, txcomp, imr, tcr, rcr, chip, locals, notified>>

WriteDma ==
  \/ PollNack("wDma")
  \/ PollWait("wDma", "TXBUFE")
  \/ DmaDone("wDma", "TXBUFE", "wReady")

WriteByte ==
  \/ PollNack("wByte")
  \/ PollWait("wByte", "TXRDY")
  \/ /\ PollFor("wByte") /\ ~nack /\ "TXRDY" \in SR
     /\ LoadThr(1)
     /\ pc' = "wReady"
     /\ UNCHANGED <<mread, shifter, rhr, stop, imr, pdcs, chip, locals, notified>>

WriteReady ==
  \/ PollNack("wReady")
  \/ PollWait("wReady", "TXRDY")
  \/ /\ PollFor("wReady") /\ ~nack /\ "TXRDY" \in SR
     /\ pc' = "wStop"
     /\ UNCHANGED <<bus, txcomp, imr, pdcs, chip, locals, notified>>

(* Without a transfer a STOP command has no effect.                        *)
CommandStop(point, next) ==
  /\ pc = point
  /\ stop' = (line # "idle")
  /\ pc' = next
  /\ UNCHANGED <<line, mread, thr, shifter, rhr, flags, imr, pdcs, chip, locals,
                 notified>>

WriteStop == CommandStop("wStop", "wComp")

(* TXCOMP is polled 15000 times, without sleeping; NACK is not looked at.  *)
WriteComp ==
  /\ PollFor("wComp")
  /\ Return(IF txcomp THEN "SUCCESS" ELSE "ERROR_TIMEOUT_COMP")
  /\ UNCHANGED <<bus, txcomp, imr, pdcs, chip, length, remaining, buffer, back,
                 rc, quiet, notified>>

ReadDma ==
  \/ PollNack("rDma")
  \/ PollWait("rDma", "RXBUFF")
  \/ DmaDone("rDma", "RXBUFF", "rStop")

ReadStop == CommandStop("rStop", "rLast")

(* Mutant: RXRDY is not looked at.                                         *)
ReadLastUnready ==
  \/ PollNack("rLast")
  \/ /\ PollFor("rLast") /\ ~nack
     /\ buffer' = Append(buffer, rhr)
     /\ rhr' = 0
     /\ pc' = "rComp"
     /\ UNCHANGED <<line, mread, thr, shifter, stop, txcomp, imr, pdcs, chip,
                    length, remaining, back, rc, result, quiet, notified>>

ReadLast ==
  \/ PollNack("rLast")
  \/ PollWait("rLast", "RXRDY")
  \/ /\ PollFor("rLast") /\ ~nack /\ "RXRDY" \in SR
     /\ buffer' = Append(buffer, rhr)
     /\ rhr' = 0
     /\ pc' = "rComp"
     /\ UNCHANGED <<line, mread, thr, shifter, stop, txcomp, imr, pdcs, chip,
                    length, remaining, back, rc, result, quiet, notified>>

ReadComp ==
  /\ PollFor("rComp")
  /\ IF txcomp
     THEN /\ Return("SUCCESS")
          /\ UNCHANGED <<length, remaining, buffer, back, rc, quiet, notified>>
     ELSE Wait
  /\ UNCHANGED <<bus, txcomp, imr, pdcs, chip>>

Driver ==
  \/ EnableInterrupt
  \/ Notified
  \/ TimesOut
  \/ Timeout
  \/ WriteDma
  \/ WriteByte
  \/ WriteReady
  \/ WriteStop
  \/ WriteComp
  \/ ReadDma
  \/ ReadStop
  \/ ReadLast
  \/ ReadComp
  \/ Reset

Next == CallWrite \/ CallRead \/ Driver \/ Handler \/ Peripheral

Spec == Init /\ [][Next]_vars

(* The task goes on, and a tick that was waited for comes; nothing is      *)
(* assumed of the bus.                                                     *)
FairSpec == Spec /\ WF_vars(Driver)

-----------------------------------------------------------------------------
(* Properties.                                                             *)

(* twi_master_read: "TWI_SUCCESS if all bytes were read".  A read that     *)
(* succeeds, or times out only at its end (fpga_read_data takes that for a *)
(* success), has the bytes of the chip, all of them and in order,          *)
(* whichever NACKs, timeouts and interrupts came in between, provided that *)
(* an earlier read left nothing in RHR.                                    *)
ReadIsTrue ==
  (/\ pc \in {"idle", "reset"} /\ mread /\ quiet /\ length > 0
   /\ result \in {"SUCCESS", "ERROR_TIMEOUT_COMP"}) =>
    buffer = [i \in 1 .. length |-> i]

(* twi_master_write: while the chip refuses nothing, a write that succeeds *)
(* has transferred every byte, once and in order, although the driver      *)
(* switches from PDC to polling and stops the bus on its own.              *)
WriteIsTrue ==
  (/\ pc = "idle" /\ ~mread /\ length > 0 /\ result = "SUCCESS"
   /\ ~refused) => got = [i \in 1 .. length |-> i]

(* Between two calls the peripheral is at rest: no transfer, no PDC, no    *)
(* byte that waits to be sent; and a byte waits in RHR only after a read   *)
(* that succeeded.  Interrupts are enabled only for a task that waits for  *)
(* them, so none is delivered to a later wait, whichever way a timeout     *)
(* races with the handler.                                                 *)
RestsBetweenCalls ==
  /\ TypeOK
  /\ pc = "idle" =>
       /\ line = "idle" /\ ~stop /\ thr = 0 /\ shifter = 0
       /\ pdc = "off" /\ tcr = 0 /\ rcr = 0
       /\ rhr # 0 => result = "SUCCESS"
  /\ pc \notin {"waiting", "timedOut"} => imr = {}

(* Every call returns, even if the chip holds the bus for ever or keeps    *)
(* the PDC waiting between two bytes.                                      *)
CallReturns == pc # "idle" ~> pc = "idle"

(* twi_master_write: "TWI_SUCCESS if all bytes were written, error code    *)
(* otherwise".                                                             *)
SuccessMeansWritten ==
  (pc = "idle" /\ ~mread /\ length > 0 /\ result = "SUCCESS") =>
    got = [i \in 1 .. length |-> i]
=============================================================================
