-------------------------- MODULE TwiMasterProofs --------------------------
(***************************************************************************)
(* What TwiMaster promises about finished calls, for packets of any        *)
(* length.                                                                 *)
(***************************************************************************)
EXTENDS TwiMaster, TLAPS, SequenceTheorems

-----------------------------------------------------------------------------
(* The inductive invariant.                                                *)

(* The loop that the driver is in, also while it waits in                  *)
(* twi_wait_for_interrupt.                                                 *)
Waits == {"enable", "waiting", "timedOut"}

(* The loop that goes on after the wait.                                   *)
Here == IF pc \in Waits THEN back ELSE pc

(* The program points of twi_master_write.                                 *)
WritePoint == {"wDma", "wByte", "wReady", "wStop", "wComp"}

(* The program points of twi_master_read.                                  *)
ReadPoint == {"rDma", "rStop", "rLast", "rComp"}

(* TXCOMP says that the bus is free, and nothing is left to be sent then.  *)
BusInv ==
  /\ txcomp = (line = "idle")
  /\ line = "idle" => thr = 0 /\ shifter = 0 /\ ~stop
  /\ line = "address" => shifter = 0
  /\ mread => thr = 0 /\ shifter = 0
  /\ pc = "idle" => line = "idle" /\ (rhr # 0 => result = "SUCCESS")
  /\ pc = "reset" => result # "SUCCESS"

(* Interrupts are enabled for the waiting task only, and not any more once *)
(* it has been notified.                                                   *)
InterruptInv ==
  /\ pc \notin {"waiting", "timedOut"} => imr = {}
  /\ pc \in {"waiting", "timedOut"} => imr \subseteq Awaited(back)
  /\ pc = "enable" => ~notified
  /\ notified /\ pc \in {"waiting", "timedOut"} => imr = {}

(* The PDC is enabled in the two loops that wait for it, and has nothing   *)
(* to do outside of them.                                                  *)
PhaseInv ==
  /\ Here \in WritePoint => ~mread /\ length > 0
  /\ Here \in ReadPoint => mread /\ length > 0
  /\ Here = "wDma" => pdc = "tx" /\ rcr = 0 /\ tcr <= length
  /\ Here = "rDma" => pdc = "rx" /\ tcr = 0 /\ rcr < length
  /\ Here \notin {"wDma", "rDma"} => pdc = "off" /\ tcr = 0 /\ rcr = 0
  /\ Here = "wByte" => length = 1

(* Byte i of a packet is the number i: nothing is lost, repeated or        *)
(* swapped.                                                                *)
Counted(s) == \A i \in 1 .. Len(s) : s[i] = i

(* The number of bytes in a register of one byte.                          *)
Full(reg) == IF reg = 0 THEN 0 ELSE 1

(* How many bytes have been loaded into THR at a point of a write.         *)
Loaded == IF Here = "wDma" THEN length - tcr
          ELSE IF Here = "wByte" THEN 0 ELSE length

(* While the chip refuses nothing: the bytes that it has, the one that is  *)
(* being sent and the one in THR follow each other.                        *)
WriteInv ==
  /\ got \in Seq(Nat)
  /\ Here \in WritePoint \ {"wComp"} => ~stop
  /\ Here \in WritePoint /\ ~refused =>
       /\ Counted(got)
       /\ shifter # 0 => shifter = Len(got) + 1
       /\ thr # 0 => thr = Len(got) + Full(shifter) + 1
       /\ Len(got) + Full(shifter) + Full(thr) = Loaded

(* The bytes in the buffer, and the one in RHR behind them.                *)
ReadInv ==
  /\ buffer \in Seq(Nat)
  /\ Here = "rDma" => Len(buffer) = length - 1 - rcr
  /\ Here \in {"rStop", "rLast"} => Len(buffer) = length - 1
  /\ Here = "rComp" => Len(buffer) = length
  /\ Here \in ReadPoint /\ quiet =>
       /\ Counted(buffer)
       /\ given = Len(buffer) + Full(rhr)
       /\ rhr # 0 => rhr = Len(buffer) + 1

(* All of it.  The last two are the properties of the finished calls.      *)
TwiInv ==
  /\ FlagType /\ RegisterType /\ DriverType
  /\ BusInv /\ InterruptInv /\ PhaseInv
  /\ WriteInv /\ ReadInv /\ WriteIsTrue /\ ReadIsTrue

-----------------------------------------------------------------------------
(* A sequence that counts is determined by its length.                     *)
LEMMA CountedIs ==
  ASSUME NEW s \in Seq(Nat), Counted(s)
  PROVE  s = [i \in 1 .. Len(s) |-> i]
BY DEF Counted

(* The PDC loads THR: one byte more is loaded, and the byte is the next    *)
(* one.                                                                    *)
LEMMA PdcTransmitInv ==
  ASSUME TwiInv, PdcTransmit
  PROVE  TwiInv'
<1>1. FlagType'
  BY DEF TwiInv, FlagType, PdcTransmit, LoadThr, chip, locals
<1>2. RegisterType'
  BY MaxLengthAssumption DEF TwiInv, RegisterType, PhaseInv, DriverType,
     PdcTransmit, LoadThr, chip
<1>3. BusInv'
  BY DEF TwiInv, BusInv, PhaseInv, Here, Waits, WritePoint, PdcTransmit,
     LoadThr
<1>4. PhaseInv'
  BY DEF TwiInv, PhaseInv, RegisterType, DriverType, Here, PdcTransmit,
     locals
<1>5. WriteInv'
  <2>1. Here = "wDma" /\ Here' = Here
    BY DEF TwiInv, PhaseInv, PdcTransmit, Here, locals
  <2>2. /\ Full(thr) = 0 /\ Full(thr)' = 1
        /\ thr' = Loaded + 1 /\ Loaded' = Loaded + 1
    BY <2>1 DEF TwiInv, RegisterType, DriverType, PhaseInv, PdcTransmit,
       LoadThr, Full, Loaded, locals
  <2>3. UNCHANGED <<got, refused, stop, shifter>>
    BY DEF PdcTransmit, chip
  <2>4. Full(shifter) \in {0, 1} /\ Len(got) \in Nat
    BY DEF Full
  <2> QED
    BY <2>1, <2>2, <2>3, <2>4 DEF TwiInv, WriteInv
<1>6. (DriverType /\ InterruptInv /\ ReadInv /\ WriteIsTrue /\ ReadIsTrue)'
  BY DEF TwiInv, DriverType, InterruptInv, ReadInv, WriteIsTrue, ReadIsTrue,
     Here, PdcTransmit, chip, locals
<1> QED
  BY <1>1, <1>2, <1>3, <1>4, <1>5, <1>6 DEF TwiInv

(* The PDC takes the byte in RHR to the end of the buffer.                 *)
LEMMA PdcReceiveInv ==
  ASSUME TwiInv, PdcReceive
  PROVE  TwiInv'
<1>1. RegisterType'
  BY MaxLengthAssumption DEF TwiInv, RegisterType, PdcReceive, chip
<1>2. DriverType'
  BY DEF TwiInv, DriverType, RegisterType, ReadInv, PhaseInv, PdcReceive
<1>3. BusInv'
  BY DEF TwiInv, BusInv, PdcReceive, flags
<1>4. PhaseInv'
  BY DEF TwiInv, PhaseInv, RegisterType, DriverType, Here, PdcReceive
<1>5. ReadInv'
  BY DEF TwiInv, ReadInv, RegisterType, DriverType, PhaseInv, Counted, Full,
     Here, PdcReceive, chip
<1>6. ReadIsTrue'
  BY DEF TwiInv, ReadIsTrue, PhaseInv, Here, Waits, PdcReceive
<1>7. (FlagType /\ InterruptInv /\ WriteInv /\ WriteIsTrue)'
  BY DEF TwiInv, FlagType, InterruptInv, WriteInv, WriteIsTrue, Loaded,
     Here, PdcReceive, flags, chip
<1> QED
  BY <1>1, <1>2, <1>3, <1>4, <1>5, <1>6, <1>7 DEF TwiInv

(* The chip refuses a byte: from here on nothing is claimed about what it  *)
(* has.                                                                    *)
LEMMA RefuseInv ==
  ASSUME TwiInv, Refuse
  PROVE  TwiInv'
<1>1. FlagType'
  BY DEF TwiInv, FlagType, Refuse, locals
<1>2. RegisterType'
  BY MaxLengthAssumption DEF TwiInv, RegisterType, Refuse, pdcs
<1>3. BusInv'
  BY DEF TwiInv, BusInv, Refuse, locals
<1>4. WriteInv'
  BY DEF TwiInv, WriteInv, Refuse
<1>5. WriteIsTrue'
  BY DEF WriteIsTrue, Refuse
<1>6. (DriverType /\ InterruptInv /\ PhaseInv /\ ReadInv /\ ReadIsTrue)'
  BY DEF TwiInv, DriverType, InterruptInv, PhaseInv, ReadInv, ReadIsTrue,
     Here, Refuse, pdcs, locals
<1> QED
  BY <1>1, <1>2, <1>3, <1>4, <1>5, <1>6 DEF TwiInv

(* The chip answers to its address: the byte in THR moves on to the        *)
(* shifter.                                                                *)
LEMMA AcceptAddressInv ==
  ASSUME TwiInv, AcceptAddress
  PROVE  TwiInv'
<1>1. FlagType'
  BY DEF TwiInv, FlagType, AcceptAddress, flags, chip, locals
<1>2. RegisterType'
  BY MaxLengthAssumption DEF TwiInv, RegisterType, AcceptAddress, pdcs, chip
<1>3. BusInv'
  BY DEF TwiInv, BusInv, AcceptAddress, flags, locals
<1>4. WriteInv'
  <2>1. UNCHANGED <<Here, got, stop, refused, Loaded, mread>>
    BY DEF AcceptAddress, Here, Loaded, chip, pdcs, locals
  <2>2. shifter = 0
    BY DEF TwiInv, BusInv, AcceptAddress
  <2>3. CASE mread
    <3>1. Here \notin WritePoint
      BY <2>3 DEF TwiInv, PhaseInv
    <3> QED
      BY <2>1, <3>1 DEF TwiInv, WriteInv
  <2>4. CASE ~mread
    <3>1. shifter' = thr /\ thr' = 0
      BY <2>4 DEF AcceptAddress
    <3>2. /\ Full(shifter) = 0 /\ Full(thr)' = 0
          /\ Full(shifter)' = Full(thr) /\ Full(thr) \in Nat
      BY <2>2, <3>1 DEF Full
    <3> QED
      BY <2>1, <3>1, <3>2 DEF TwiInv, WriteInv
  <2> QED
    BY <2>3, <2>4
<1>5. (DriverType /\ InterruptInv /\ PhaseInv /\ ReadInv /\ WriteIsTrue /\ ReadIsTrue)'
  BY DEF TwiInv, DriverType, InterruptInv, PhaseInv, ReadInv, WriteIsTrue,
     ReadIsTrue, Here, AcceptAddress, pdcs, chip, locals
<1> QED
  BY <1>1, <1>2, <1>3, <1>4, <1>5 DEF TwiInv

(* The chip takes the byte in the shifter, which is its next one.          *)
LEMMA AcceptByteInv ==
  ASSUME TwiInv, AcceptByte
  PROVE  TwiInv'
<1>1. RegisterType'
  BY MaxLengthAssumption DEF TwiInv, RegisterType, AcceptByte, pdcs
<1>2. BusInv'
  BY DEF TwiInv, BusInv, AcceptByte, flags, locals
<1>3. WriteInv'
  BY DEF TwiInv, WriteInv, RegisterType, Counted, Full, Loaded, Here,
     AcceptByte, pdcs, locals
<1>4. WriteIsTrue'
  BY DEF TwiInv, WriteIsTrue, BusInv, AcceptByte
<1>5. (FlagType /\ DriverType /\ InterruptInv /\ PhaseInv /\ ReadInv /\ ReadIsTrue)'
  BY DEF TwiInv, FlagType, DriverType, InterruptInv, PhaseInv, ReadInv,
     ReadIsTrue, Here, AcceptByte, flags, pdcs, locals
<1> QED
  BY <1>1, <1>2, <1>3, <1>4, <1>5 DEF TwiInv

(* The shifter takes the byte in THR, or the bus becomes free behind the   *)
(* last.                                                                   *)
LEMMA SendNextInv ==
  ASSUME TwiInv, SendNext
  PROVE  TwiInv'
<1>1. FlagType'
  BY DEF TwiInv, FlagType, SendNext, chip, locals
<1>2. RegisterType'
  BY DEF TwiInv, RegisterType, SendNext, pdcs, chip
<1>3. BusInv'
  BY DEF TwiInv, BusInv, SendNext, locals
<1>4. WriteInv'
  <2>1. UNCHANGED <<Here, got, refused, Loaded>>
    BY DEF SendNext, Here, Loaded, chip, pdcs, locals
  <2>2. CASE thr # 0 /\ shifter' = thr /\ thr' = 0 /\ UNCHANGED stop
    <3>1. /\ Full(shifter) = 0 /\ Full(thr)' = 0
          /\ Full(shifter)' = Full(thr) /\ Full(thr) \in Nat
      BY <2>2 DEF Full, SendNext
    <3> QED
      BY <2>1, <2>2, <3>1 DEF TwiInv, WriteInv
  <2>3. CASE thr = 0 /\ stop' = FALSE /\ UNCHANGED <<thr, shifter>>
    BY <2>1, <2>3 DEF TwiInv, WriteInv
  <2> QED
    BY <2>2, <2>3 DEF SendNext
<1>5. (DriverType /\ InterruptInv /\ PhaseInv /\ ReadInv /\ WriteIsTrue /\ ReadIsTrue)'
  BY DEF TwiInv, DriverType, InterruptInv, PhaseInv, ReadInv, WriteIsTrue,
     ReadIsTrue, Here, SendNext, pdcs, chip, locals
<1> QED
  BY <1>1, <1>2, <1>3, <1>4, <1>5 DEF TwiInv

(* The chip puts its next byte into RHR.                                   *)
LEMMA SupplyByteInv ==
  ASSUME TwiInv, SupplyByte
  PROVE  TwiInv'
<1>1. FlagType'
  BY DEF TwiInv, FlagType, SupplyByte, locals
<1>2. RegisterType'
  BY MaxLengthAssumption DEF TwiInv, RegisterType, DriverType, SupplyByte,
     pdcs
<1>3. BusInv'
  BY DEF TwiInv, BusInv, FlagType, SupplyByte, locals
<1>4. WriteInv'
  BY DEF TwiInv, WriteInv, Loaded, Here, SupplyByte, pdcs, locals
<1>5. ReadInv'
  BY DEF TwiInv, ReadInv, Full, Here, SupplyByte, pdcs, locals
<1>6. (DriverType /\ InterruptInv /\ PhaseInv /\ WriteIsTrue /\ ReadIsTrue)'
  BY DEF TwiInv, DriverType, InterruptInv, PhaseInv, WriteIsTrue,
     ReadIsTrue, Here, SupplyByte, pdcs, locals
<1> QED
  BY <1>1, <1>2, <1>3, <1>4, <1>5, <1>6 DEF TwiInv

(* The handler disables every interrupt before it notifies the task.       *)
LEMMA HandlerInv ==
  ASSUME TwiInv, Handler
  PROVE  TwiInv'
<1>1. FlagType'
  BY DEF TwiInv, FlagType, Handler, bus, chip, locals
<1>2. RegisterType'
  BY DEF TwiInv, RegisterType, Handler, bus, pdcs, chip
<1>3. InterruptInv'
  BY DEF TwiInv, InterruptInv, Handler
<1>4. (DriverType /\ BusInv /\ PhaseInv /\ WriteInv /\ ReadInv /\ WriteIsTrue /\ ReadIsTrue)'
  BY DEF TwiInv, DriverType, BusInv, PhaseInv, WriteInv, ReadInv,
     WriteIsTrue, ReadIsTrue, Here, Loaded, Handler, bus, pdcs, chip, locals
<1> QED
  BY <1>1, <1>2, <1>3, <1>4 DEF TwiInv

(* A write begins on a free bus, with nothing of an earlier call in the    *)
(* registers.                                                              *)
LEMMA CallWriteInv ==
  ASSUME TwiInv, CallWrite
  PROVE  TwiInv'
<1>1. FlagType'
  BY DEF TwiInv, FlagType, CallWrite, NewCall, flags
<1>2. RegisterType'
  BY MaxLengthAssumption DEF TwiInv, RegisterType, CallWrite, NewCall, pdcs
<1>3. DriverType'
  BY DEF TwiInv, DriverType, Poll, CallWrite, NewCall, Return
<1>4. BusInv'
  BY DEF TwiInv, BusInv, CallWrite, Return, flags
<1>5. InterruptInv'
  BY DEF TwiInv, InterruptInv, CallWrite, NewCall, Return
<1>6. PhaseInv'
  BY DEF TwiInv, PhaseInv, Here, Waits, WritePoint, ReadPoint, CallWrite,
     NewCall, Return, pdcs
<1>7. WriteInv'
  BY DEF TwiInv, WriteInv, BusInv, Counted, Full, Loaded, Here, Waits,
     CallWrite, NewCall, Return
<1>8. ReadInv'
  BY DEF ReadInv, Here, Waits, ReadPoint, CallWrite, NewCall, Return
<1>9. WriteIsTrue'
  BY DEF WriteIsTrue, CallWrite, Return
<1>10. ReadIsTrue'
  BY DEF ReadIsTrue, CallWrite, Return
<1> QED
  BY <1>1, <1>2, <1>3, <1>4, <1>5, <1>6, <1>7, <1>8, <1>9, <1>10 DEF TwiInv

(* A read begins on a free bus; a byte that an earlier read left in RHR    *)
(* ends the claim about this one.                                          *)
LEMMA CallReadInv ==
  ASSUME TwiInv, CallRead
  PROVE  TwiInv'
<1>1. FlagType'
  BY DEF TwiInv, FlagType, CallRead, NewCall
<1>2. RegisterType'
  BY MaxLengthAssumption DEF TwiInv, RegisterType, CallRead, NewCall, pdcs
<1>3. DriverType'
  BY MaxLengthAssumption DEF TwiInv, DriverType, Poll, CallRead, NewCall,
     Return
<1>4. BusInv'
  BY DEF TwiInv, BusInv, CallRead, NewCall, Return
<1>5. InterruptInv'
  BY DEF TwiInv, InterruptInv, CallRead, NewCall, Return
<1>6. PhaseInv'
  BY DEF TwiInv, PhaseInv, Here, Waits, WritePoint, ReadPoint, CallRead,
     NewCall, Return, pdcs
<1>7. WriteInv'
  BY DEF WriteInv, Here, Waits, WritePoint, CallRead, NewCall, Return
<1>8. ReadInv'
  BY DEF TwiInv, ReadInv, FlagType, BusInv, Counted, Full, Here, Waits,
     CallRead, NewCall, Return
<1>9. WriteIsTrue'
  BY DEF WriteIsTrue, CallRead, Return
<1>10. ReadIsTrue'
  BY DEF ReadIsTrue, CallRead, Return
<1> QED
  BY <1>1, <1>2, <1>3, <1>4, <1>5, <1>6, <1>7, <1>8, <1>9, <1>10 DEF TwiInv

(* The reset after an error empties every register.                        *)
LEMMA ResetInv ==
  ASSUME TwiInv, Reset
  PROVE  TwiInv'
<1>1. FlagType'
  BY DEF TwiInv, FlagType, Reset, chip, locals
<1>2. RegisterType'
  BY MaxLengthAssumption DEF TwiInv, RegisterType, Reset, pdcs, chip
<1>3. DriverType'
  BY DEF TwiInv, DriverType, Reset, locals
<1>4. BusInv'
  BY DEF BusInv, Reset
<1>5. InterruptInv'
  BY DEF InterruptInv, Reset
<1>6. PhaseInv'
  BY DEF TwiInv, PhaseInv, Here, Waits, WritePoint, ReadPoint, Reset, pdcs
<1>7. WriteInv'
  BY DEF TwiInv, WriteInv, Here, Waits, WritePoint, Reset, chip
<1>8. ReadInv'
  BY DEF TwiInv, ReadInv, Here, Waits, ReadPoint, Reset, locals
<1>9. WriteIsTrue'
  BY DEF TwiInv, WriteIsTrue, BusInv, Reset, locals
<1>10. ReadIsTrue'
  BY DEF TwiInv, ReadIsTrue, Reset, locals
<1> QED
  BY <1>1, <1>2, <1>3, <1>4, <1>5, <1>6, <1>7, <1>8, <1>9, <1>10 DEF TwiInv

(* The wait begins: the interrupts of the condition that is waited for are *)
(* enabled.                                                                *)
LEMMA EnableInterruptInv ==
  ASSUME TwiInv, EnableInterrupt
  PROVE  TwiInv'
<1>1. RegisterType'
  <2>1. Awaited(back) \subseteq Interrupt
    BY DEF TwiInv, DriverType, Awaited, Poll, Interrupt
  <2> QED
    BY <2>1 DEF TwiInv, RegisterType, EnableInterrupt, bus, pdcs, chip
<1>2. DriverType'
  BY DEF TwiInv, DriverType, EnableInterrupt, locals
<1>3. BusInv'
  BY DEF TwiInv, BusInv, EnableInterrupt, bus, flags
<1>4. InterruptInv'
  BY DEF TwiInv, InterruptInv, EnableInterrupt, locals
<1>5. PhaseInv'
  BY DEF TwiInv, PhaseInv, Here, Waits, EnableInterrupt, bus, pdcs, locals
<1>6. WriteInv'
  BY DEF TwiInv, WriteInv, Loaded, Here, Waits, EnableInterrupt, bus, pdcs,
     chip, locals
<1>7. ReadInv'
  BY DEF TwiInv, ReadInv, Here, Waits, EnableInterrupt, bus, pdcs, chip,
     locals
<1>8. WriteIsTrue'
  BY DEF WriteIsTrue, EnableInterrupt
<1>9. ReadIsTrue'
  BY DEF ReadIsTrue, EnableInterrupt
<1>10. (FlagType)'
  BY DEF TwiInv, FlagType, EnableInterrupt, bus, flags, chip, locals
<1> QED
  BY <1>1, <1>2, <1>3, <1>4, <1>5, <1>6, <1>7, <1>8, <1>9, <1>10 DEF TwiInv

(* The wait ends with the notification.                                    *)
LEMMA NotifiedInv ==
  ASSUME TwiInv, Notified
  PROVE  TwiInv'
<1>1. FlagType'
  BY DEF TwiInv, FlagType, Notified, bus, flags, chip, locals
<1>2. DriverType'
  BY DEF TwiInv, DriverType, Notified, locals
<1>3. BusInv'
  BY DEF TwiInv, BusInv, DriverType, Poll, Notified, bus, flags
<1>4. InterruptInv'
  BY DEF TwiInv, InterruptInv, Notified
<1>5. PhaseInv'
  BY DEF TwiInv, PhaseInv, Here, Waits, Notified, bus, pdcs, locals
<1>6. WriteInv'
  BY DEF TwiInv, WriteInv, Loaded, Here, Waits, Notified, bus, pdcs, chip,
     locals
<1>7. ReadInv'
  BY DEF TwiInv, ReadInv, Here, Waits, Notified, bus, pdcs, chip, locals
<1>8. WriteIsTrue'
  BY DEF TwiInv, WriteIsTrue, DriverType, Poll, Notified
<1>9. ReadIsTrue'
  BY DEF TwiInv, ReadIsTrue, DriverType, Poll, Notified
<1>10. (RegisterType)'
  BY DEF TwiInv, RegisterType, Notified, bus, pdcs, chip
<1> QED
  BY <1>1, <1>2, <1>3, <1>4, <1>5, <1>6, <1>7, <1>8, <1>9, <1>10 DEF TwiInv

(* The wait ends without it.                                               *)
LEMMA TimesOutInv ==
  ASSUME TwiInv, TimesOut
  PROVE  TwiInv'
<1>1. DriverType'
  BY DEF TwiInv, DriverType, TimesOut, locals
<1>2. BusInv'
  BY DEF TwiInv, BusInv, TimesOut, bus, flags
<1>3. InterruptInv'
  BY DEF TwiInv, InterruptInv, TimesOut, locals
<1>4. PhaseInv'
  BY DEF TwiInv, PhaseInv, Here, Waits, TimesOut, bus, pdcs, locals
<1>5. WriteInv'
  BY DEF TwiInv, WriteInv, Loaded, Here, Waits, TimesOut, bus, pdcs, chip,
     locals
<1>6. ReadInv'
  BY DEF TwiInv, ReadInv, Here, Waits, TimesOut, bus, pdcs, chip, locals
<1>7. WriteIsTrue'
  BY DEF WriteIsTrue, TimesOut
<1>8. ReadIsTrue'
  BY DEF ReadIsTrue, TimesOut
<1>9. (FlagType /\ RegisterType)'
  BY DEF TwiInv, FlagType, RegisterType, TimesOut, bus, flags, pdcs, chip,
     locals
<1> QED
  BY <1>1, <1>2, <1>3, <1>4, <1>5, <1>6, <1>7, <1>8, <1>9 DEF TwiInv

(* The interrupts are disabled and the call is given up.                   *)
LEMMA TimeoutInv ==
  ASSUME TwiInv, Timeout
  PROVE  TwiInv'
<1>1. FlagType'
  BY DEF TwiInv, FlagType, Timeout, bus, chip
<1>2. RegisterType'
  BY MaxLengthAssumption DEF TwiInv, RegisterType, Timeout, bus, pdcs, chip
<1>3. DriverType'
  BY DEF TwiInv, DriverType, RegisterType, Timeout, Counter, Return
<1>4. BusInv'
  BY DEF TwiInv, BusInv, Timeout, Return, bus
<1>5. InterruptInv'
  BY DEF TwiInv, InterruptInv, Timeout, Return
<1>6. PhaseInv'
  BY DEF TwiInv, PhaseInv, Here, Waits, WritePoint, ReadPoint, Timeout,
     Return, bus, pdcs
<1>7. WriteInv'
  BY DEF TwiInv, WriteInv, Loaded, Here, Waits, WritePoint, Timeout, Return,
     bus, pdcs, chip
<1>8. ReadInv'
  BY DEF TwiInv, ReadInv, Here, Waits, ReadPoint, Timeout, Return, bus,
     pdcs, chip
<1>9. WriteIsTrue'
  BY DEF WriteIsTrue, Timeout, Return
<1>10. ReadIsTrue'
  BY CountedIs DEF TwiInv, ReadIsTrue, ReadInv, Here, Waits, ReadPoint,
     Timeout, Return
<1> QED
  BY <1>1, <1>2, <1>3, <1>4, <1>5, <1>6, <1>7, <1>8, <1>9, <1>10 DEF TwiInv

(* The driver sees NACK and gives the call up.                             *)
LEMMA PollNackInv ==
  ASSUME TwiInv, NEW point \in Poll, PollNack(point)
  PROVE  TwiInv'
<1>1. FlagType'
  BY DEF TwiInv, FlagType, PollNack, PollFor, bus, chip
<1>2. RegisterType'
  BY MaxLengthAssumption DEF TwiInv, RegisterType, PollNack, bus, pdcs, chip
<1>3. DriverType'
  BY DEF TwiInv, DriverType, PollNack, Return
<1>4. BusInv'
  BY DEF TwiInv, BusInv, PollNack, Return, bus
<1>5. InterruptInv'
  BY DEF TwiInv, InterruptInv, Poll, PollNack, PollFor, Return
<1>6. PhaseInv'
  BY DEF TwiInv, PhaseInv, Poll, Here, Waits, WritePoint, ReadPoint,
     PollNack, PollFor, Return, pdcs
<1>7. WriteInv'
  BY DEF TwiInv, WriteInv, Here, Waits, WritePoint, PollNack, Return, chip
<1>8. ReadInv'
  BY DEF TwiInv, ReadInv, Here, Waits, ReadPoint, PollNack, Return
<1>9. WriteIsTrue'
  BY DEF WriteIsTrue, PollNack, Return
<1>10. ReadIsTrue'
  BY DEF ReadIsTrue, PollNack, Return
<1> QED
  BY <1>1, <1>2, <1>3, <1>4, <1>5, <1>6, <1>7, <1>8, <1>9, <1>10 DEF TwiInv

(* The condition does not hold yet.                                        *)
LEMMA PollWaitInv ==
  ASSUME TwiInv, NEW point \in Poll, NEW flag, PollWait(point, flag)
  PROVE  TwiInv'
<1>1. FlagType'
  BY DEF TwiInv, FlagType, PollWait, PollFor, Wait, bus, chip
<1>2. DriverType'
  BY DEF TwiInv, DriverType, PollWait, PollFor, Wait
<1>3. BusInv'
  BY DEF TwiInv, BusInv, PollWait, Wait, bus
<1>4. InterruptInv'
  BY DEF TwiInv, InterruptInv, Poll, PollWait, PollFor, Wait
<1>5. PhaseInv'
  BY DEF TwiInv, PhaseInv, Poll, Here, Waits, PollWait, PollFor, Wait, bus,
     pdcs
<1>6. WriteInv'
  BY DEF TwiInv, WriteInv, Loaded, Here, Waits, WritePoint, PollWait, Wait,
     bus, pdcs, chip
<1>7. ReadInv'
  BY DEF TwiInv, ReadInv, Here, Waits, ReadPoint, PollWait, Wait, bus, pdcs,
     chip
<1>8. WriteIsTrue'
  BY DEF WriteIsTrue, PollWait, Wait
<1>9. ReadIsTrue'
  BY DEF ReadIsTrue, PollWait, Wait
<1>10. (RegisterType)'
  BY DEF TwiInv, RegisterType, PollWait, bus, pdcs, chip
<1> QED
  BY <1>1, <1>2, <1>3, <1>4, <1>5, <1>6, <1>7, <1>8, <1>9, <1>10 DEF TwiInv

(* The PDC has loaded all bytes: its counter is zero.                      *)
LEMMA WriteDmaDoneInv ==
  ASSUME TwiInv, DmaDone("wDma", "TXBUFE", "wReady")
  PROVE  TwiInv'
<1>1. FlagType'
  BY DEF TwiInv, FlagType, DmaDone, PollFor, bus, chip
<1>2. RegisterType'
  BY DEF TwiInv, RegisterType, DmaDone, bus, chip
<1>3. DriverType'
  BY DEF TwiInv, DriverType, Poll, DmaDone, Return
<1>4. BusInv'
  BY DEF TwiInv, BusInv, DmaDone, Return, bus
<1>5. InterruptInv'
  BY DEF TwiInv, InterruptInv, DmaDone, PollFor, Return
<1>6. PhaseInv'
  BY DEF TwiInv, PhaseInv, Here, Waits, WritePoint, ReadPoint, DmaDone,
     PollFor, Return, SR, bus
<1>7. WriteInv'
  <2>1. /\ Here = "wDma" /\ tcr = 0
        /\ Here' \in {"wReady", "reset"}
        /\ UNCHANGED <<got, refused, stop, shifter, thr, length>>
    BY DEF DmaDone, PollFor, Return, SR, Here, Waits, bus, chip
  <2>2. Here' = "wReady" => Loaded' = Loaded
    BY <2>1 DEF TwiInv, DriverType, Loaded
  <2> QED
    BY <2>1, <2>2 DEF TwiInv, WriteInv, WritePoint
<1>8. ReadInv'
  BY DEF TwiInv, ReadInv, Here, Waits, ReadPoint, DmaDone, Return
<1>9. WriteIsTrue'
  BY DEF WriteIsTrue, DmaDone, Return
<1>10. ReadIsTrue'
  BY DEF TwiInv, ReadIsTrue, PhaseInv, Here, Waits, WritePoint, DmaDone,
     PollFor, bus
<1> QED
  BY <1>1, <1>2, <1>3, <1>4, <1>5, <1>6, <1>7, <1>8, <1>9, <1>10 DEF TwiInv

(* The PDC has stored all bytes but the last.                              *)
LEMMA ReadDmaDoneInv ==
  ASSUME TwiInv, DmaDone("rDma", "RXBUFF", "rStop")
  PROVE  TwiInv'
<1>1. FlagType'
  BY DEF TwiInv, FlagType, DmaDone, PollFor, bus, chip
<1>2. RegisterType'
  BY DEF TwiInv, RegisterType, DmaDone, bus, chip
<1>3. DriverType'
  BY DEF TwiInv, DriverType, DmaDone, Return
<1>4. BusInv'
  BY DEF TwiInv, BusInv, DmaDone, Return, bus
<1>5. InterruptInv'
  BY DEF TwiInv, InterruptInv, DmaDone, PollFor, Return
<1>6. PhaseInv'
  BY DEF TwiInv, PhaseInv, Here, Waits, WritePoint, ReadPoint, DmaDone,
     PollFor, Return, SR, bus
<1>7. WriteInv'
  BY DEF TwiInv, WriteInv, Here, Waits, WritePoint, DmaDone, Return, chip
<1>8. ReadInv'
  BY DEF TwiInv, ReadInv, DriverType, Here, Waits, ReadPoint, DmaDone,
     PollFor, Return, SR, bus, chip
<1>9. WriteIsTrue'
  BY DEF WriteIsTrue, DmaDone, Return
<1>10. ReadIsTrue'
  BY DEF TwiInv, ReadIsTrue, RegisterType, DriverType, DmaDone, Return
<1> QED
  BY <1>1, <1>2, <1>3, <1>4, <1>5, <1>6, <1>7, <1>8, <1>9, <1>10 DEF TwiInv

(* The stop condition is asked for behind the last byte.                   *)
LEMMA WriteStopInv ==
  ASSUME TwiInv, WriteStop
  PROVE  TwiInv'
<1>1. FlagType'
  BY DEF TwiInv, FlagType, WriteStop, CommandStop, flags, chip, locals
<1>2. DriverType'
  BY DEF TwiInv, DriverType, WriteStop, CommandStop, locals
<1>3. BusInv'
  BY DEF TwiInv, BusInv, WriteStop, CommandStop, flags
<1>4. InterruptInv'
  BY DEF TwiInv, InterruptInv, WriteStop, CommandStop
<1>5. PhaseInv'
  BY DEF TwiInv, PhaseInv, Here, Waits, WritePoint, ReadPoint, WriteStop,
     CommandStop, pdcs, locals
<1>6. WriteInv'
  BY DEF TwiInv, WriteInv, Loaded, Here, Waits, WritePoint, WriteStop,
     CommandStop, chip, locals
<1>7. ReadInv'
  BY DEF TwiInv, ReadInv, Here, Waits, ReadPoint, WriteStop, CommandStop,
     locals
<1>8. WriteIsTrue'
  BY DEF WriteIsTrue, WriteStop, CommandStop
<1>9. ReadIsTrue'
  BY DEF ReadIsTrue, WriteStop, CommandStop
<1>10. (RegisterType)'
  BY DEF TwiInv, RegisterType, WriteStop, CommandStop, pdcs, chip
<1> QED
  BY <1>1, <1>2, <1>3, <1>4, <1>5, <1>6, <1>7, <1>8, <1>9, <1>10 DEF TwiInv

(* TXCOMP: the bus is free, so that THR and the shifter are empty and the  *)
(* chip has every byte.                                                    *)
LEMMA WriteCompInv ==
  ASSUME TwiInv, WriteComp
  PROVE  TwiInv'
<1>1. FlagType'
  BY DEF TwiInv, FlagType, WriteComp, PollFor, bus, chip
<1>2. DriverType'
  BY DEF TwiInv, DriverType, WriteComp, Return
<1>3. BusInv'
  BY DEF TwiInv, BusInv, WriteComp, Return, bus
<1>4. InterruptInv'
  BY DEF TwiInv, InterruptInv, WriteComp, PollFor, Return
<1>5. PhaseInv'
  BY DEF TwiInv, PhaseInv, Here, Waits, WritePoint, ReadPoint, WriteComp,
     PollFor, Return, pdcs
<1>6. WriteInv'
  BY DEF TwiInv, WriteInv, Here, Waits, WritePoint, WriteComp, Return, chip
<1>7. ReadInv'
  BY DEF TwiInv, ReadInv, Here, Waits, ReadPoint, WriteComp, Return
<1>8. WriteIsTrue'
  <2>1. UNCHANGED <<got, refused, length, mread>> /\ pc = "wComp"
    BY DEF WriteComp, PollFor, bus, chip
  <2>2. CASE txcomp /\ ~refused
    <3>1. Here = "wComp" /\ thr = 0 /\ shifter = 0
      BY <2>1, <2>2 DEF TwiInv, BusInv, Here, Waits
    <3>2. Counted(got) /\ Len(got) = length
      BY <2>2, <3>1 DEF TwiInv, WriteInv, WritePoint, Full, Loaded
    <3> QED
      BY <2>1, <3>2, CountedIs DEF TwiInv, WriteInv, WriteIsTrue
  <2>3. CASE ~txcomp \/ refused
    BY <2>1, <2>3 DEF WriteComp, Return, WriteIsTrue
  <2> QED
    BY <2>2, <2>3
<1>9. ReadIsTrue'
  BY DEF TwiInv, ReadIsTrue, PhaseInv, Here, Waits, WritePoint, WriteComp,
     PollFor, bus
<1>10. (RegisterType)'
  BY DEF TwiInv, RegisterType, WriteComp, bus, pdcs, chip
<1> QED
  BY <1>1, <1>2, <1>3, <1>4, <1>5, <1>6, <1>7, <1>8, <1>9, <1>10 DEF TwiInv

(* The stop condition is asked for before the last byte is taken.          *)
LEMMA ReadStopInv ==
  ASSUME TwiInv, ReadStop
  PROVE  TwiInv'
<1>1. FlagType'
  BY DEF TwiInv, FlagType, ReadStop, CommandStop, flags, chip, locals
<1>2. DriverType'
  BY DEF TwiInv, DriverType, Poll, ReadStop, CommandStop, locals
<1>3. BusInv'
  BY DEF TwiInv, BusInv, ReadStop, CommandStop, flags
<1>4. InterruptInv'
  BY DEF TwiInv, InterruptInv, ReadStop, CommandStop
<1>5. PhaseInv'
  BY DEF TwiInv, PhaseInv, Here, Waits, WritePoint, ReadPoint, ReadStop,
     CommandStop, pdcs, locals
<1>6. WriteInv'
  BY DEF TwiInv, WriteInv, Here, Waits, WritePoint, ReadStop, CommandStop,
     chip
<1>7. ReadInv'
  BY DEF TwiInv, ReadInv, Here, Waits, ReadPoint, ReadStop, CommandStop,
     chip, locals
<1>8. WriteIsTrue'
  BY DEF WriteIsTrue, ReadStop, CommandStop
<1>9. ReadIsTrue'
  BY DEF ReadIsTrue, ReadStop, CommandStop
<1>10. (RegisterType)'
  BY DEF TwiInv, RegisterType, ReadStop, CommandStop, pdcs, chip
<1> QED
  BY <1>1, <1>2, <1>3, <1>4, <1>5, <1>6, <1>7, <1>8, <1>9, <1>10 DEF TwiInv

(* TXCOMP: the buffer holds every byte.                                    *)
LEMMA ReadCompInv ==
  ASSUME TwiInv, ReadComp
  PROVE  TwiInv'
<1>1. FlagType'
  BY DEF TwiInv, FlagType, ReadComp, PollFor, Wait, bus, chip
<1>2. DriverType'
  BY DEF TwiInv, DriverType, ReadComp, PollFor, Return, Wait
<1>3. BusInv'
  BY DEF TwiInv, BusInv, ReadComp, Return, Wait, bus
<1>4. InterruptInv'
  BY DEF TwiInv, InterruptInv, ReadComp, PollFor, Return, Wait
<1>5. PhaseInv'
  BY DEF TwiInv, PhaseInv, Here, Waits, WritePoint, ReadPoint, ReadComp,
     PollFor, Return, Wait, bus, pdcs
<1>6. WriteInv'
  BY DEF TwiInv, WriteInv, Here, Waits, WritePoint, ReadComp, PollFor,
     Return, Wait, chip
<1>7. ReadInv'
  BY DEF TwiInv, ReadInv, Here, Waits, ReadPoint, ReadComp, Return, Wait,
     bus, pdcs, chip
<1>8. WriteIsTrue'
  BY DEF TwiInv, WriteIsTrue, PhaseInv, Here, Waits, ReadPoint, ReadComp,
     PollFor, bus
<1>9. ReadIsTrue'
  BY CountedIs DEF TwiInv, ReadIsTrue, ReadInv, Here, Waits, ReadPoint,
     ReadComp, PollFor, Wait
<1>10. (RegisterType)'
  BY DEF TwiInv, RegisterType, ReadComp, bus, pdcs, chip
<1> QED
  BY <1>1, <1>2, <1>3, <1>4, <1>5, <1>6, <1>7, <1>8, <1>9, <1>10 DEF TwiInv

(* The places that poll, each with its three outcomes.                     *)
LEMMA WriteDmaInv == ASSUME TwiInv, WriteDma PROVE TwiInv'
BY PollNackInv, PollWaitInv, WriteDmaDoneInv DEF WriteDma, Poll

(* The loop that waits for the PDC in a read.                              *)
LEMMA ReadDmaInv == ASSUME TwiInv, ReadDma PROVE TwiInv'
BY PollNackInv, PollWaitInv, ReadDmaDoneInv DEF ReadDma, Poll

(* A packet of one byte is loaded by the driver itself.                    *)
LEMMA WriteByteInv == ASSUME TwiInv, WriteByte PROVE TwiInv'
<1>1. CASE PollNack("wByte")
  BY <1>1, PollNackInv DEF Poll
<1>2. CASE PollWait("wByte", "TXRDY")
  BY <1>2, PollWaitInv DEF Poll
<1>3. CASE /\ PollFor("wByte") /\ ~nack /\ "TXRDY" \in SR
            /\ LoadThr(1)
            /\ pc' = "wReady"
            /\ UNCHANGED <<mread, shifter, rhr, stop, imr, pdcs, chip, locals,
                            notified>>
  <2>1. FlagType'
    BY <1>3 DEF TwiInv, FlagType, PollFor, LoadThr, chip, locals
  <2>2. RegisterType'
    BY <1>3, MaxLengthAssumption DEF TwiInv, RegisterType, LoadThr, pdcs,
       chip
  <2>3. DriverType'
    BY <1>3 DEF TwiInv, DriverType, Poll, locals
  <2>4. BusInv'
    BY <1>3 DEF TwiInv, BusInv, PhaseInv, Here, Waits, WritePoint, PollFor,
       LoadThr
  <2>5. InterruptInv'
    BY <1>3 DEF TwiInv, InterruptInv, PollFor
  <2>6. PhaseInv'
    BY <1>3 DEF TwiInv, PhaseInv, Here, Waits, WritePoint, ReadPoint,
       PollFor, pdcs, locals
  <2>7. WriteInv'
    BY <1>3 DEF TwiInv, WriteInv, PhaseInv, Full, Loaded, Here, Waits,
       WritePoint, PollFor, LoadThr, SR, chip, locals
  <2>8. ReadInv'
    BY <1>3 DEF TwiInv, ReadInv, Here, Waits, ReadPoint, locals
  <2>9. WriteIsTrue'
    BY <1>3 DEF WriteIsTrue
  <2>10. ReadIsTrue'
    BY <1>3 DEF ReadIsTrue
  <2> QED
    BY <2>1, <2>2, <2>3, <2>4, <2>5, <2>6, <2>7, <2>8, <2>9, <2>10 DEF
       TwiInv
<1> QED
  BY <1>1, <1>2, <1>3 DEF WriteByte

(* TXRDY: THR is empty again.                                              *)
LEMMA WriteReadyInv == ASSUME TwiInv, WriteReady PROVE TwiInv'
<1>1. CASE PollNack("wReady")
  BY <1>1, PollNackInv DEF Poll
<1>2. CASE PollWait("wReady", "TXRDY")
  BY <1>2, PollWaitInv DEF Poll
<1>3. CASE /\ PollFor("wReady") /\ ~nack /\ "TXRDY" \in SR
            /\ pc' = "wStop"
            /\ UNCHANGED <<bus, txcomp, imr, pdcs, chip, locals, notified>>
  <2>1. FlagType'
    BY <1>3 DEF TwiInv, FlagType, PollFor, bus, chip, locals
  <2>2. DriverType'
    BY <1>3 DEF TwiInv, DriverType, locals
  <2>3. BusInv'
    BY <1>3 DEF TwiInv, BusInv, bus
  <2>4. InterruptInv'
    BY <1>3 DEF TwiInv, InterruptInv, PollFor
  <2>5. PhaseInv'
    BY <1>3 DEF TwiInv, PhaseInv, Here, Waits, WritePoint, ReadPoint,
       PollFor, bus, pdcs, locals
  <2>6. WriteInv'
    BY <1>3 DEF TwiInv, WriteInv, Loaded, Here, Waits, WritePoint, PollFor,
       bus, chip, locals
  <2>7. ReadInv'
    BY <1>3 DEF TwiInv, ReadInv, Here, Waits, ReadPoint, locals
  <2>8. WriteIsTrue'
    BY <1>3 DEF WriteIsTrue
  <2>9. ReadIsTrue'
    BY <1>3 DEF ReadIsTrue
  <2>10. (RegisterType)'
    BY <1>3 DEF TwiInv, RegisterType, bus, pdcs, chip
  <2> QED
    BY <2>1, <2>2, <2>3, <2>4, <2>5, <2>6, <2>7, <2>8, <2>9, <2>10 DEF
       TwiInv
<1> QED
  BY <1>1, <1>2, <1>3 DEF WriteReady

(* The driver takes the last byte itself, with the PDC switched off.       *)
LEMMA ReadLastInv == ASSUME TwiInv, ReadLast PROVE TwiInv'
<1>1. CASE PollNack("rLast")
  BY <1>1, PollNackInv DEF Poll
<1>2. CASE PollWait("rLast", "RXRDY")
  BY <1>2, PollWaitInv DEF Poll
<1>3. CASE /\ PollFor("rLast") /\ ~nack /\ "RXRDY" \in SR
            /\ buffer' = Append(buffer, rhr) /\ rhr' = 0
            /\ pc' = "rComp"
            /\ UNCHANGED <<line, mread, thr, shifter, stop, txcomp, imr, pdcs,
                            chip, length, remaining, back, rc, result, quiet,
                            notified>>
  <2>1. FlagType'
    BY <1>3 DEF TwiInv, FlagType, PollFor, chip
  <2>2. RegisterType'
    BY <1>3, MaxLengthAssumption DEF TwiInv, RegisterType, pdcs, chip
  <2>3. DriverType'
    BY <1>3 DEF TwiInv, DriverType, Poll, ReadInv, Here, Waits, PollFor
  <2>4. BusInv'
    BY <1>3 DEF TwiInv, BusInv
  <2>5. InterruptInv'
    BY <1>3 DEF TwiInv, InterruptInv, PollFor
  <2>6. PhaseInv'
    BY <1>3 DEF TwiInv, PhaseInv, Here, Waits, WritePoint, ReadPoint,
       PollFor, pdcs
  <2>7. WriteInv'
    BY <1>3 DEF TwiInv, WriteInv, Here, Waits, WritePoint, chip
  <2>8. ReadInv'
    BY <1>3 DEF TwiInv, ReadInv, RegisterType, DriverType, Counted, Full,
       Here, Waits, ReadPoint, PollFor, SR, chip
  <2>9. WriteIsTrue'
    BY <1>3 DEF WriteIsTrue
  <2>10. ReadIsTrue'
    BY <1>3 DEF ReadIsTrue
  <2> QED
    BY <2>1, <2>2, <2>3, <2>4, <2>5, <2>6, <2>7, <2>8, <2>9, <2>10 DEF
       TwiInv
<1> QED
  BY <1>1, <1>2, <1>3 DEF ReadLast

-----------------------------------------------------------------------------
(* Nothing is under way before the first call.                             *)
LEMMA InitTwiInv == Init => TwiInv
<1> SUFFICES ASSUME Init PROVE TwiInv
  OBVIOUS
<1>1. FlagType
  BY DEF Init, FlagType
<1>2. DriverType
  BY MaxLengthAssumption DEF Init, DriverType, Poll
<1>3. RegisterType
  BY MaxLengthAssumption DEF Init, RegisterType
<1>4. BusInv /\ InterruptInv /\ PhaseInv
  BY DEF Init, BusInv, InterruptInv, PhaseInv, Here, Waits, WritePoint, ReadPoint
<1>5. WriteInv /\ ReadInv
  BY DEF Init, WriteInv, ReadInv, Here, Waits, WritePoint, ReadPoint
<1>6. WriteIsTrue /\ ReadIsTrue
  BY DEF Init, WriteIsTrue, ReadIsTrue
<1> QED
  BY <1>1, <1>2, <1>3, <1>4, <1>5, <1>6 DEF TwiInv

(* Every step of the driver, the PDC, the chip and the handler keeps it.   *)
LEMMA TwiInvStep == TwiInv /\ [Next]_vars => TwiInv'
<1>1. ASSUME TwiInv, Peripheral PROVE TwiInv'
  BY <1>1, PdcTransmitInv, PdcReceiveInv, RefuseInv, AcceptAddressInv,
     AcceptByteInv, SendNextInv, SupplyByteInv DEF Peripheral
<1>2. ASSUME TwiInv, Driver PROVE TwiInv'
  BY <1>2, EnableInterruptInv, NotifiedInv, TimesOutInv, TimeoutInv,
     WriteDmaInv, WriteByteInv, WriteReadyInv, WriteStopInv, WriteCompInv,
     ReadDmaInv, ReadStopInv, ReadLastInv, ReadCompInv, ResetInv DEF Driver
<1>3. ASSUME TwiInv, UNCHANGED vars PROVE TwiInv'
  BY <1>3 DEF TwiInv, FlagType, RegisterType, DriverType, BusInv,
     InterruptInv, PhaseInv, WriteInv, ReadInv, WriteIsTrue, ReadIsTrue,
     Here, Loaded, vars, bus, flags, pdcs, chip, locals
<1> QED
  BY <1>1, <1>2, <1>3, CallWriteInv, CallReadInv, HandlerInv DEF Next

(* It holds in every behaviour.                                            *)
LEMMA TwiInvIsInvariant == Spec => []TwiInv
BY InitTwiInv, TwiInvStep, PTL DEF Spec

(* A read that succeeds returns the bytes of the chip, all of them and in  *)
(* order, for packets of any length and whichever NACKs, timeouts and      *)
(* interrupts came in between, if no byte was left over in RHR before.     *)
THEOREM ReadsAreTrue == Spec => []ReadIsTrue
<1>1. TwiInv => ReadIsTrue
  BY DEF TwiInv
<1> QED
  BY <1>1, TwiInvIsInvariant, PTL

(* A write that succeeds and that the chip did not refuse has transferred  *)
(* every byte, once and in order, for packets of any length.               *)
THEOREM WritesAreTrue == Spec => []WriteIsTrue
<1>1. TwiInv => WriteIsTrue
  BY DEF TwiInv
<1> QED
  BY <1>1, TwiInvIsInvariant, PTL

(* Between two calls the peripheral, the PDC and the interrupts are at     *)
(* rest, whichever way a call ended and a timeout raced with the handler.  *)
THEOREM DriverRests == Spec => []RestsBetweenCalls
<1>1. TwiInv => RestsBetweenCalls
  BY DEF TwiInv, RestsBetweenCalls, TypeOK, BusInv, PhaseInv, InterruptInv,
     Here, Waits
<1> QED
  BY <1>1, TwiInvIsInvariant, PTL
=============================================================================
