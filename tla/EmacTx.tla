------------------------------- MODULE EmacTx -------------------------------
(***************************************************************************)
(* The transmit path of the Ethernet driver: low_level_output of           *)
(* ethernetif.c, emac_dev_write and the transmit half of emac_handler in   *)
(* emac.c, and the EMAC's DMA, which empties the ring of descriptors.      *)
(*                                                                         *)
(* A task is preempted between any two accesses to the ring; the interrupt *)
(* handler runs to completion.  A frame is its number.  The link is full   *)
(* duplex, so the handler's recovery from excessive collisions (RLES) is   *)
(* not modelled.                                                           *)
(***************************************************************************)
EXTENDS Integers, Sequences, SequencesExt

CONSTANTS
  Writers,    \* the tasks that call low_level_output
  Stray,      \* those that may hold a notification of another origin
  Size,       \* descriptors in the ring: EMAC_TX_BUFFERS (8 in the code)
  MaxFrames   \* bound on the frames of a behaviour

ASSUME StrayAssumption == Stray \subseteq Writers
ASSUME SizeAssumption == Size \in Nat /\ Size > 1
ASSUME MaxFramesAssumption == MaxFrames \in Nat

VARIABLES
  head, tail,  \* us_tx_head, us_tx_tail
  desc,        \* the USED and WRAP bits of each descriptor
  buffer,      \* the frame in each transmit buffer
  hwPos,       \* the descriptor that the DMA looks at next
  active,      \* the DMA is transmitting
  comp,        \* a transmit-complete interrupt is pending
  wakeupCb,    \* func_wakeup_cb is ethernetif_tx_cb
  txTask,      \* ethernetif_tx_task
  notified,    \* the pending task notifications
  pc,          \* program point of each task
  waiting,     \* the task is in the branch for a full ring
  frame,       \* the frame that the task is sending
  td,          \* p_tx_td of the task
  next,        \* number of the next frame
  written,     \* the frames that were put into the ring, in that order
  wire,        \* the frames that were transmitted, in that order
  reported,    \* the frames for which low_level_output returned ERR_OK
  overlap      \* history: two tasks were inside emac_dev_write at once

ring == <<head, tail, desc, buffer>>
dma == <<hwPos, active, comp>>
wakeup == <<wakeupCb, txTask, notified>>
local == <<waiting, frame, td>>
history == <<next, written, wire, reported, overlap>>
vars == <<ring, dma, wakeup, pc, local, history>>

Slot == 0 .. Size - 1

Point ==
  {"idle", "write", "retry", "fill", "mark", "advance", "busy", "clear",
   "wait", "unregister"}

(* The indices stay inside the ring, the program counters inside the       *)
(* functions; a frame number is used once.                                 *)
RingType ==
  /\ head \in Slot /\ tail \in Slot
  /\ desc \in [Slot -> [used : BOOLEAN, wrap : BOOLEAN]]
  /\ buffer \in [Slot -> 0 .. MaxFrames]
  /\ hwPos \in Slot \/ (overlap /\ hwPos = Size)
  /\ active \in BOOLEAN /\ comp \in BOOLEAN

TaskType ==
  /\ wakeupCb \in BOOLEAN
  /\ txTask \in Writers
  /\ notified \in [Writers -> BOOLEAN]
  /\ pc \in [Writers -> Point]
  /\ waiting \in [Writers -> BOOLEAN]
  /\ frame \in [Writers -> 0 .. MaxFrames]
  /\ td \in [Writers -> Slot]

HistoryType ==
  /\ next \in 1 .. MaxFrames + 1
  /\ written \in Seq(1 .. next - 1)
  /\ wire \in Seq((IF overlap THEN 0 ELSE 1) .. next - 1)
  /\ reported \subseteq 1 .. next - 1
  /\ overlap \in BOOLEAN

TypeOK == RingType /\ TaskType /\ HistoryType

(* emac_reset_tx_mem, from emac_dev_init.                                  *)
Init ==
  /\ head = 0 /\ tail = 0
  /\ desc = [s \in Slot |-> [used |-> TRUE, wrap |-> s = Size - 1]]
  /\ buffer = [s \in Slot |-> 0]
  /\ hwPos = 0
  /\ active = FALSE /\ comp = FALSE
  /\ wakeupCb = FALSE
  /\ txTask \in Writers
  /\ notified = [t \in Writers |-> FALSE]
  /\ pc = [t \in Writers |-> "idle"]
  /\ waiting = [t \in Writers |-> FALSE]
  /\ frame = [t \in Writers |-> 0]
  /\ td = [t \in Writers |-> 0]
  /\ next = 1
  /\ written = <<>> /\ wire = <<>>
  /\ reported = {}
  /\ overlap = FALSE

-----------------------------------------------------------------------------
(* The ring's arithmetic.  The indices are promoted to int, so C's %       *)
(* truncates towards zero and the result may be negative.                  *)

CRem(a, n) == IF a >= 0 THEN a % n ELSE -((-a) % n)

CircCnt(h, t) == CRem(h - t, Size)

(* Mutant: no descriptor is left free between head and tail.               *)
CircSpaceNoGap(h, t) == IF h = t THEN Size ELSE CircCnt(t, h)

CircSpace(h, t) == CircCnt(t, h + 1)

CircInc(i) == IF i + 1 >= Size THEN 0 ELSE i + 1

-----------------------------------------------------------------------------
(* low_level_output.                                                       *)

At(t, point) == pc[t] = point

Goto(t, point) == pc' = [pc EXCEPT ![t] = point]

(* A frame is copied to the stack and offered to the driver.  A frame of   *)
(* more than EMAC_TX_UNITSIZE bytes is refused: ERR_BUF.                   *)
LowLevelOutput(t) ==
  /\ At(t, "idle")
  /\ next <= MaxFrames
  /\ next' = next + 1
  /\ \/ /\ frame' = [frame EXCEPT ![t] = next]
        /\ Goto(t, "write")
        /\ \E n \in {notified[t], notified[t] \/ t \in Stray} :
             notified' = [notified EXCEPT ![t] = n]
     \/ UNCHANGED <<frame, pc, notified>>
  /\ UNCHANGED <<ring, dma, wakeupCb, txTask, waiting, td, written, wire,
                 reported, overlap>>

Writing(t) == pc[t] \in {"fill", "mark", "advance"}

(* emac_dev_write in four steps: look for space ...                        *)
WriteBegin(t) ==
  /\ pc[t] \in {"write", "retry"}
  /\ \/ /\ CircSpace(head, tail) = 0
        /\ Goto(t, IF At(t, "write") THEN "busy" ELSE "wait")
        /\ UNCHANGED td
     \/ /\ CircSpace(head, tail) # 0
        /\ Goto(t, "fill")
        /\ td' = [td EXCEPT ![t] = head]
  /\ overlap' = (overlap \/ \E u \in Writers \ {t} : Writing(u))
  /\ UNCHANGED <<ring, dma, wakeup, waiting, frame, next, written, wire, reported>>

(* ... copy the frame ...                                                  *)
WriteFill(t) ==
  /\ At(t, "fill")
  /\ buffer' = [buffer EXCEPT ![td[t]] = frame[t]]
  /\ Goto(t, "mark")
  /\ UNCHANGED <<head, tail, desc, dma, wakeup, local, history>>

(* ... hand the descriptor to the DMA ...                                  *)
WriteMark(t) ==
  /\ At(t, "mark")
  /\ desc' = [desc EXCEPT ![td[t]] = [used |-> FALSE, wrap |-> head = Size - 1]]
  /\ written' = Append(written, frame[t])
  /\ Goto(t, "advance")
  /\ UNCHANGED <<head, tail, buffer, dma, wakeup, local, next, wire, reported, overlap>>

(* Mutant: the DMA is not started.                                         *)
WriteAdvanceNoStart(t) ==
  /\ At(t, "advance")
  /\ head' = CircInc(head)
  /\ Goto(t, IF waiting[t] THEN "unregister" ELSE "idle")
  /\ reported' = IF waiting[t] THEN reported ELSE reported \cup {frame[t]}
  /\ td' = [td EXCEPT ![t] = 0]
  /\ frame' = IF waiting[t] THEN frame ELSE [frame EXCEPT ![t] = 0]
  /\ UNCHANGED <<tail, desc, buffer, dma, wakeup, waiting, next, written, wire,
                 overlap>>

(* ... and move the head and start the DMA.  Outside of the branch for a   *)
(* full ring low_level_output returns.                                     *)
WriteAdvance(t) ==
  /\ At(t, "advance")
  /\ head' = CircInc(head)
  /\ active' = TRUE
  /\ Goto(t, IF waiting[t] THEN "unregister" ELSE "idle")
  /\ reported' = IF waiting[t] THEN reported ELSE reported \cup {frame[t]}
  /\ td' = [td EXCEPT ![t] = 0]
  /\ frame' = IF waiting[t] THEN frame ELSE [frame EXCEPT ![t] = 0]
  /\ UNCHANGED <<tail, desc, buffer, hwPos, comp, wakeup, waiting, next, written,
                 wire, overlap>>

(* The ring is full: the wakeup callback is registered for one free        *)
(* descriptor.  Its status, EMAC_OK, replaces EMAC_TX_BUSY in uc_rc.       *)
Register(t) ==
  /\ At(t, "busy")
  /\ txTask' = t
  /\ wakeupCb' = TRUE
  /\ waiting' = [waiting EXCEPT ![t] = TRUE]
  /\ Goto(t, "clear")
  /\ UNCHANGED <<ring, dma, notified, frame, td, history>>

(* Only if a notification was pending does the task try again; otherwise   *)
(* uc_rc is EMAC_OK and the loop that waits for space is skipped.          *)
NotifyStateClear(t) ==
  /\ At(t, "clear")
  /\ notified' = [notified EXCEPT ![t] = FALSE]
  /\ Goto(t, IF notified[t] THEN "retry" ELSE "unregister")
  /\ UNCHANGED <<ring, dma, wakeupCb, txTask, local, history>>

(* xTaskNotifyWait returns with a notification or after 100 ticks.         *)
NotifyWait(t) ==
  /\ At(t, "wait")
  /\ notified' = [notified EXCEPT ![t] = FALSE]
  /\ Goto(t, "retry")
  /\ UNCHANGED <<ring, dma, wakeupCb, txTask, local, history>>

Unregister(t) ==
  /\ At(t, "unregister")
  /\ wakeupCb' = FALSE
  /\ waiting' = [waiting EXCEPT ![t] = FALSE]
  /\ reported' = reported \cup {frame[t]}
  /\ frame' = [frame EXCEPT ![t] = 0]
  /\ Goto(t, "idle")
  /\ UNCHANGED <<ring, dma, txTask, notified, td, next, written, wire, overlap>>

OutputStep(t) ==
  \/ WriteBegin(t)
  \/ WriteFill(t)
  \/ WriteMark(t)
  \/ WriteAdvance(t)
  \/ Register(t)
  \/ NotifyStateClear(t)
  \/ NotifyWait(t)
  \/ Unregister(t)

-----------------------------------------------------------------------------
(* The EMAC: it transmits from descriptor to descriptor until it finds one *)
(* whose USED bit is set, and looks at that one again when it is restarted *)
(* (what it does beyond the end of the ring is not defined: it stops here).*)

Transmit ==
  /\ active
  /\ hwPos \in Slot
  /\ ~desc[hwPos].used
  /\ wire' = Append(wire, buffer[hwPos])
  /\ desc' = [desc EXCEPT ![hwPos].used = TRUE]
  /\ hwPos' = IF desc[hwPos].wrap THEN 0 ELSE hwPos + 1
  /\ comp' = TRUE
  /\ UNCHANGED <<head, tail, buffer, active, wakeup, pc, local, next, written,
                 reported, overlap>>

Halt ==
  /\ active
  /\ hwPos \in Slot => desc[hwPos].used
  /\ active' = FALSE
  /\ UNCHANGED <<ring, hwPos, comp, wakeup, pc, local, history>>

-----------------------------------------------------------------------------
(* emac_handler, transmit part.                                            *)

After(k) == (tail + k) % Size

(* k descriptors are released: the loop stops at the head or at the first  *)
(* descriptor that has not been sent.                                      *)
Release(k) ==
  /\ \A j \in 0 .. k - 1 : After(j) # head /\ desc[After(j)].used
  /\ After(k) = head \/ ~desc[After(k)].used

Notify == wakeupCb /\ CircSpace(head, tail') >= 1

(* Mutant: the handler releases nothing.                                   *)
HandlerNoRelease ==
  /\ comp
  /\ comp' = FALSE
  /\ UNCHANGED <<ring, hwPos, active, wakeup, pc, local, history>>

Handler ==
  /\ comp
  /\ comp' = FALSE
  /\ \E k \in Slot : Release(k) /\ tail' = After(k)
  /\ notified' = IF Notify THEN [notified EXCEPT ![txTask] = TRUE]
                           ELSE notified
  /\ UNCHANGED <<head, desc, buffer, hwPos, active, wakeupCb, txTask, pc, local,
                 history>>

Next ==
  \/ \E t \in Writers : LowLevelOutput(t) \/ OutputStep(t)
  \/ Transmit
  \/ Halt
  \/ Handler

(* The DMA and the interrupt are not held up for ever, and a task inside   *)
(* low_level_output goes on (its longest wait is 100 ticks).               *)
Fairness ==
  /\ WF_vars(Transmit \/ Halt)
  /\ WF_vars(Handler)
  /\ \A t \in Writers : WF_vars(OutputStep(t))

Spec == Init /\ [][Next]_vars

FairSpec == Spec /\ Fairness

-----------------------------------------------------------------------------
(* Properties.                                                             *)

Pending == Len(written) - Len(wire)

(* As long as the two tasks that run lwIP do not meet inside              *)
(* emac_dev_write: frames leave in the order in which they were written,   *)
(* none twice, none left out, none overwritten before the DMA has read it. *)
(* What the DMA will find is what was written: from its position on the    *)
(* buffers hold the frames that have not been sent yet, in order, their    *)
(* descriptors are not used and all others are; the DMA waits where the    *)
(* next frame will be put.                                                 *)
QueueIntact ==
  /\ TypeOK
  /\ ~overlap =>
       /\ IsPrefix(wire, written)
       /\ \A i \in Slot :
            LET s == (hwPos + i) % Size
            IN  /\ desc[s].used <=> i >= Pending
                /\ i < Pending => buffer[s] = written[Len(wire) + i + 1]
                /\ ~desc[s].used => desc[s].wrap = (s = Size - 1)

(* Every frame in the ring is transmitted, unless the tasks have met.      *)
AllTransmitted ==
  \A n \in 1 .. MaxFrames :
    (\E i \in DOMAIN written : written[i] = n) ~>
      (overlap \/ \E i \in DOMAIN wire : wire[i] = n)

(* A task that has to wait for space returns in the end, also if the       *)
(* wakeup does not come, or goes to the other task, unless they have met   *)
(* and left a gap in the ring, at which the DMA waits for ever.            *)
OutputReturns == \A t \in Writers : pc[t] # "idle" ~> (overlap \/ pc[t] = "idle")

(* "ERR_OK if the packet could be sent": a frame that was reported as sent *)
(* has been put into the ring.                                             *)
ReportedIsWritten ==
  \A n \in reported : \E i \in DOMAIN written : written[i] = n
=============================================================================
