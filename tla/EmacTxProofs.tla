---------------------------- MODULE EmacTxProofs ----------------------------
(***************************************************************************)
(* The ring of EmacTx holds what was written, for rings of any size and    *)
(* any number of tasks, as long as no two of them meet in emac_dev_write.  *)
(***************************************************************************)
EXTENDS EmacTx, SequenceTheorems, TLAPS

-----------------------------------------------------------------------------
(* The inductive invariant.                                                *)

(* Steps from descriptor x on to descriptor y.                             *)
Dist(x, y) == IF x <= y THEN y - x ELSE y - x + Size

(* The first descriptor that has not been handed to the DMA.  It is one    *)
(* ahead of us_tx_head between the two last steps of emac_dev_write.       *)
FreeFrom == IF \E t \in Writers : pc[t] = "advance" THEN CircInc(head) ELSE head

(* Frame numbers are used once.                                            *)
FrameInv ==
  /\ \A t \in Writers : pc[t] # "idle" => frame[t] \in 1 .. next - 1
  /\ \A s \in Slot : buffer[s] \in 0 .. next - 1

(* The task inside emac_dev_write works on the descriptor at the head, for *)
(* which there was space.                                                  *)
WriterInv ==
  /\ \A t, u \in Writers : Writing(t) /\ Writing(u) => t = u
  /\ \A t \in Writers : Writing(t) => td[t] = head /\ tail # CircInc(head)
  /\ \A t \in Writers : pc[t] = "mark" => buffer[head] = frame[t]

(* Tail, DMA and front follow each other around the ring.                  *)
OrderInv ==
  /\ Pending = Dist(hwPos, FreeFrom)
  /\ Dist(tail, hwPos) + Pending < Size

(* The descriptors from the DMA's position on hold the pending frames.     *)
ContentInv ==
  /\ Len(wire) <= Len(written)
  /\ \A i \in 1 .. Len(wire) : wire[i] = written[i]
  /\ \A s \in Slot :
       /\ desc[s].used <=> Dist(hwPos, s) >= Pending
       /\ ~desc[s].used => /\ desc[s].wrap = (s = Size - 1)
                           /\ buffer[s] = written[Len(wire) + Dist(hwPos, s) + 1]

(* The inductive invariant.  The ring is in order only as long as no two   *)
(* tasks have been inside emac_dev_write at once; the types and the frame  *)
(* numbers are always right.                                               *)
TxInv ==
  /\ RingType /\ TaskType /\ HistoryType /\ FrameInv
  /\ ~overlap => WriterInv /\ OrderInv /\ ContentInv

-----------------------------------------------------------------------------
(* The ring's arithmetic.                                                  *)

(* The i-th descriptor from x on is i steps away from x.                   *)
LEMMA ShiftDist ==
  ASSUME NEW x \in Slot, NEW i \in Slot
  PROVE  (x + i) % Size \in Slot /\ Dist(x, (x + i) % Size) = i
<1>1. x + i \in 0 .. 2 * Size - 1
  BY SizeAssumption DEF Slot
<1> QED
  BY <1>1, SizeAssumption DEF Slot, Dist

(* The space of a ring is zero exactly when the next head is the tail,     *)
(* although C's remainder may be negative.                                 *)
LEMMA SpaceIsZero ==
  ASSUME NEW h \in Slot, NEW t \in Slot
  PROVE  CircSpace(h, t) = 0 <=> t = CircInc(h)
<1>1. CASE t - (h + 1) >= 0
  BY <1>1, SizeAssumption DEF Slot, CircSpace, CircCnt, CRem, CircInc
<1>2. CASE t - (h + 1) < 0
  <2>1. -(t - (h + 1)) \in 0 .. 2 * Size - 1
    BY <1>2, SizeAssumption DEF Slot
  <2>2. (-(t - (h + 1))) % Size = 0 <=> -(t - (h + 1)) = Size
    BY <1>2, <2>1, SizeAssumption DEF Slot
  <2> QED
    BY <1>2, <2>1, <2>2, SizeAssumption DEF Slot, CircSpace, CircCnt, CRem,
       CircInc
<1> QED
  BY <1>1, <1>2 DEF Slot

(* Behind z, which is ahead of y, which is ahead of x, there is room.      *)
LEMMA RoomAhead ==
  ASSUME NEW x \in Slot, NEW y \in Slot, NEW z \in Slot,
         Dist(x, y) + Dist(y, z) < Size, x # CircInc(z)
  PROVE  /\ Dist(x, y) + Dist(y, z) + 1 < Size
         /\ Dist(y, CircInc(z)) = Dist(y, z) + 1
BY SizeAssumption DEF Slot, Dist, CircInc

(* How a distance changes when one of its ends moves on by one.            *)
LEMMA Distances ==
  ASSUME NEW x \in Slot, NEW y \in Slot
  PROVE  /\ Dist(x, y) \in Slot
         /\ Dist(x, y) = 0 <=> x = y
         /\ CircInc(x) \in Slot
         /\ y # CircInc(x) => Dist(y, CircInc(x)) = Dist(y, x) + 1
         /\ x # y => Dist(CircInc(x), y) = Dist(x, y) - 1
         /\ x = y => Dist(CircInc(x), y) = Size - 1
BY SizeAssumption DEF Slot, Dist, CircInc

(* From x on to z, which is not behind y.                                  *)
LEMMA Advance ==
  ASSUME NEW x \in Slot, NEW y \in Slot, NEW z \in Slot,
         Dist(x, z) <= Dist(x, y)
  PROVE  /\ Dist(z, y) = Dist(x, y) - Dist(x, z)
         /\ x # CircInc(y) => z # CircInc(y)
BY SizeAssumption DEF Slot, Dist, CircInc

-----------------------------------------------------------------------------
(* Steps that do not touch the ring.                                       *)

(* A task that stays outside of emac_dev_write changes nothing there.      *)
Outside(t) ==
  \/ pc'[t] = pc[t] /\ td'[t] = td[t] /\ frame'[t] = frame[t]
  \/ ~Writing(t) /\ ~Writing(t)'

(* The claims about the ring survive a step that changes neither the ring  *)
(* nor the place of a task in emac_dev_write.                              *)
LEMMA RingKept ==
  ASSUME TxInv, UNCHANGED <<ring, hwPos, written, wire, overlap>>,
         \A t \in Writers : Outside(t)
  PROVE  ~overlap' => (WriterInv /\ OrderInv /\ ContentInv)'
<1> SUFFICES ASSUME ~overlap PROVE (WriterInv /\ OrderInv /\ ContentInv)'
  OBVIOUS
<1>1. WriterInv'
  BY DEF TxInv, WriterInv, Outside, Writing, ring
<1>2. FreeFrom' = FreeFrom /\ Pending' = Pending
  BY DEF Outside, Writing, FreeFrom, Pending, ring
<1>3. OrderInv'
  BY <1>2 DEF TxInv, OrderInv, ring
<1>4. ContentInv'
  BY <1>2 DEF TxInv, ContentInv, ring
<1> QED
  BY <1>1, <1>3, <1>4

(* low_level_output takes a new frame number.                              *)
LEMMA LowLevelOutputInv ==
  ASSUME TxInv, NEW t \in Writers, LowLevelOutput(t) PROVE TxInv'
<1>1. RingType'
  BY DEF TxInv, RingType, LowLevelOutput, ring, dma
<1>2. TaskType'
  <2>1. next \in 0 .. MaxFrames
    BY DEF TxInv, HistoryType, LowLevelOutput
  <2>2. frame' \in [Writers -> 0 .. MaxFrames]
    BY <2>1 DEF TxInv, TaskType, LowLevelOutput
  <2>3. pc' \in [Writers -> Point]
    BY DEF TxInv, TaskType, LowLevelOutput, Goto, Point
  <2>4. notified' \in [Writers -> BOOLEAN]
    BY DEF TxInv, TaskType, LowLevelOutput
  <2> QED
    BY <2>2, <2>3, <2>4 DEF TxInv, TaskType, LowLevelOutput
<1>3. HistoryType'
  BY MaxFramesAssumption DEF TxInv, HistoryType, LowLevelOutput
<1>4. FrameInv'
  <2>1. next \in Nat /\ next' = next + 1 /\ buffer' = buffer
    BY DEF TxInv, HistoryType, LowLevelOutput, ring
  <2>2. ASSUME NEW u \in Writers, pc'[u] # "idle"
        PROVE  \/ frame'[u] = next
               \/ pc[u] # "idle" /\ frame'[u] = frame[u]
    BY <2>2 DEF TxInv, TaskType, LowLevelOutput, Goto
  <2>3. ASSUME NEW u \in Writers, pc'[u] # "idle"
        PROVE  frame'[u] \in 1 .. next' - 1
    BY <2>1, <2>2, <2>3 DEF TxInv, HistoryType, FrameInv
  <2>4. \A s \in Slot : buffer'[s] \in 0 .. next' - 1
    BY <2>1 DEF TxInv, FrameInv
  <2> QED
    BY <2>3, <2>4 DEF FrameInv
<1>5. \A u \in Writers : Outside(u)
  BY DEF TxInv, TaskType, LowLevelOutput, At, Goto, Outside, Writing
<1> QED
  BY <1>1, <1>2, <1>3, <1>4, <1>5, RingKept DEF TxInv, LowLevelOutput, dma

(* emac_dev_set_tx_wakeup_callback, on a full ring, leaves the ring alone. *)
LEMMA RegisterInv ==
  ASSUME TxInv, NEW t \in Writers, Register(t) PROVE TxInv'
<1>1. RingType'
  BY DEF TxInv, RingType, Register, ring, dma, history
<1>2. TaskType'
  BY DEF TxInv, TaskType, Register, Goto, Point
<1>3. HistoryType'
  BY DEF TxInv, HistoryType, Register, history
<1>4. FrameInv'
  BY DEF TxInv, FrameInv, Register, At, Goto, ring, history
<1>5. \A u \in Writers : Outside(u)
  BY DEF Register, At, Goto, Outside, Writing
<1> QED
  BY <1>1, <1>2, <1>3, <1>4, <1>5, RingKept DEF TxInv, Register, dma,
     history

(* So do the calls of the notification API in low_level_output.            *)
LEMMA NotifyInv ==
  ASSUME TxInv, NEW t \in Writers, NotifyStateClear(t) \/ NotifyWait(t)
  PROVE  TxInv'
<1> USE DEF NotifyStateClear, NotifyWait
<1>1. RingType'
  BY DEF TxInv, RingType, ring, dma, history
<1>2. TaskType'
  BY DEF TxInv, TaskType, Goto, Point, local
<1>3. HistoryType'
  <2>1. UNCHANGED <<next, written, wire, reported, overlap>>
    BY DEF history
  <2> QED
    BY <2>1 DEF TxInv, HistoryType
<1>4. FrameInv'
  BY DEF TxInv, TaskType, FrameInv, At, Goto, ring, local, history
<1>5. \A u \in Writers : Outside(u)
  <2>1. /\ UNCHANGED <<td, frame>>
        /\ pc[t] \in {"clear", "wait"} /\ pc'[t] \in {"retry", "unregister"}
        /\ \A u \in Writers \ {t} : pc'[u] = pc[u]
    BY DEF TxInv, TaskType, At, Goto, local
  <2> QED
    BY <2>1 DEF Outside, Writing
<1> QED
  BY <1>1, <1>2, <1>3, <1>4, <1>5, RingKept DEF TxInv, dma, history

(* The end of low_level_output gives the frame up, transmitted or not.     *)
LEMMA UnregisterInv ==
  ASSUME TxInv, NEW t \in Writers, Unregister(t) PROVE TxInv'
<1>1. RingType'
  BY DEF TxInv, RingType, Unregister, ring, dma
<1>2. TaskType'
  <2>1. 0 \in 0 .. MaxFrames
    BY MaxFramesAssumption
  <2>2. frame' \in [Writers -> 0 .. MaxFrames] /\ waiting' \in [Writers -> BOOLEAN]
    BY <2>1 DEF TxInv, TaskType, Unregister
  <2>3. pc' \in [Writers -> Point]
    BY DEF TxInv, TaskType, Unregister, Goto, Point
  <2> QED
    BY <2>2, <2>3 DEF TxInv, TaskType, Unregister
<1>3. HistoryType'
  BY DEF TxInv, HistoryType, FrameInv, Unregister, At
<1>4. FrameInv'
  BY DEF TxInv, TaskType, FrameInv, Unregister, Goto, ring
<1>5. \A u \in Writers : Outside(u)
  BY DEF Unregister, At, Goto, Outside, Writing
<1> QED
  BY <1>1, <1>2, <1>3, <1>4, <1>5, RingKept DEF TxInv, Unregister, dma

(* The DMA stops at a descriptor that is marked used; no descriptor        *)
(* changes.                                                                *)
LEMMA HaltInv == ASSUME TxInv, Halt PROVE TxInv'
<1>1. RingType'
  BY DEF TxInv, RingType, Halt, ring, history
<1>2. TaskType'
  BY DEF TxInv, TaskType, Halt, wakeup, local
<1>3. HistoryType'
  BY DEF TxInv, HistoryType, Halt, history
<1>4. FrameInv'
  BY DEF TxInv, FrameInv, Halt, ring, local, history
<1>5. \A u \in Writers : Outside(u)
  BY DEF Halt, Outside, local
<1> QED
  BY <1>1, <1>2, <1>3, <1>4, <1>5, RingKept DEF TxInv, Halt, history

-----------------------------------------------------------------------------
(* emac_dev_write.                                                         *)

(* emac_dev_write begins with the test for space.  With space the          *)
(* descriptor at the head is the one that the task will fill; a second     *)
(* task inside is an overlap.                                              *)
LEMMA WriteBeginInv ==
  ASSUME TxInv, NEW t \in Writers, WriteBegin(t) PROVE TxInv'
<1>1. RingType'
  BY DEF TxInv, RingType, WriteBegin, ring, dma
<1>2. TaskType'
  BY DEF TxInv, RingType, TaskType, HistoryType, WriteBegin, At, Goto,
     Point, ring, dma, wakeup
<1>3. HistoryType'
  BY DEF TxInv, HistoryType, WriteBegin
<1>4. FrameInv'
  BY DEF TxInv, TaskType, FrameInv, WriteBegin, Goto, ring
<1>5. ASSUME ~overlap' PROVE (WriterInv /\ OrderInv /\ ContentInv)'
  <2>1. /\ UNCHANGED <<ring, hwPos, written, wire, overlap>>
        /\ \A u \in Writers \ {t} : Outside(u) /\ ~Writing(u)
    BY <1>5 DEF TxInv, TaskType, HistoryType, WriteBegin, Goto, Outside, dma
  <2>2. CASE pc'[t] # "fill"
    <3>1. \A u \in Writers : Outside(u)
      BY <2>1, <2>2 DEF TxInv, TaskType, WriteBegin, Goto, Outside, Writing
    <3> QED
      BY <1>5, <2>1, <3>1, RingKept
  <2>3. CASE pc'[t] = "fill"
    <3>1. tail # CircInc(head) /\ td'[t] = head
      BY <2>3, SpaceIsZero DEF TxInv, RingType, TaskType, WriteBegin, Goto
    <3>2. WriterInv'
      BY <2>1, <2>3, <3>1 DEF WriterInv, Outside, Writing, ring
    <3>3. FreeFrom' = FreeFrom /\ Pending' = Pending
      BY <2>1, <2>3 DEF WriteBegin, Outside, Writing, FreeFrom, Pending,
         ring
    <3>4. OrderInv' /\ ContentInv'
      BY <1>5, <2>1, <3>3 DEF TxInv, OrderInv, ContentInv, ring
    <3> QED
      BY <3>2, <3>4
  <2> QED
    BY <2>2, <2>3
<1> QED
  BY <1>1, <1>2, <1>3, <1>4, <1>5 DEF TxInv

(* The copy into the buffer changes a descriptor that the DMA does not     *)
(* read: the one at the head is marked used.                               *)
LEMMA WriteFillInv ==
  ASSUME TxInv, NEW t \in Writers, WriteFill(t) PROVE TxInv'
<1>1. frame[t] \in 0 .. MaxFrames /\ frame[t] \in 0 .. next - 1 /\ td[t] \in Slot
  BY DEF TxInv, TaskType, FrameInv, WriteFill, At
<1>2. RingType'
  BY <1>1 DEF TxInv, RingType, WriteFill, dma, history
<1>3. TaskType'
  BY <1>1 DEF TxInv, TaskType, WriteFill, Goto, Point, wakeup, local
<1>4. HistoryType'
  BY <1>1 DEF TxInv, HistoryType, WriteFill, history
<1>5. FrameInv'
  BY <1>1 DEF TxInv, FrameInv, WriteFill, At, Goto, local, history
<1>6. ASSUME ~overlap' PROVE (WriterInv /\ OrderInv /\ ContentInv)'
  <2>1. /\ ~overlap /\ hwPos \in Slot /\ head \in Slot /\ tail \in Slot
        /\ td[t] = head /\ tail # CircInc(head)
        /\ \A u \in Writers \ {t} : ~Writing(u)
    BY <1>6 DEF TxInv, RingType, WriterInv, WriteFill, At, Writing, history
  <2>2. WriterInv'
    BY <2>1 DEF TxInv, RingType, WriterInv, WriteFill, Goto, Writing, local
  <2>3. FreeFrom = head /\ FreeFrom' = FreeFrom /\ Pending' = Pending
    BY <2>1 DEF WriteFill, At, Goto, Writing, FreeFrom, Pending, history
  <2>4. OrderInv'
    BY <2>1, <2>3 DEF TxInv, OrderInv, WriteFill, dma
  <2>5. ContentInv'
    <3>1. ASSUME NEW s \in Slot, ~desc[s].used PROVE buffer'[s] = buffer[s]
      <4>1. Dist(hwPos, s) \in Slot /\ Dist(hwPos, head) \in Slot
        BY <2>1, Distances
      <4>2. Pending = Dist(hwPos, head) /\ ~(Dist(hwPos, s) >= Pending)
        BY <2>1, <2>3, <3>1 DEF TxInv, ContentInv, OrderInv
      <4>3. s # head
        BY <4>1, <4>2 DEF Slot
      <4> QED
        BY <2>1, <4>3 DEF WriteFill
    <3> QED
      BY <2>1, <2>3, <3>1 DEF TxInv, ContentInv, WriteFill, dma, history
  <2> QED
    BY <2>2, <2>4, <2>5
<1> QED
  BY <1>2, <1>3, <1>4, <1>5, <1>6 DEF TxInv

(* The store that clears USED hands the descriptor at the head to the DMA: *)
(* one more frame is pending, and there is still a gap before the tail.    *)
LEMMA WriteMarkInv ==
  ASSUME TxInv, NEW t \in Writers, WriteMark(t) PROVE TxInv'
<1>1. frame[t] \in 1 .. next - 1 /\ td[t] \in Slot /\ written \in Seq(1 .. next - 1)
  BY DEF TxInv, TaskType, HistoryType, FrameInv, WriteMark, At
<1>2. RingType'
  BY <1>1 DEF TxInv, RingType, WriteMark, dma
<1>3. TaskType'
  BY <1>1 DEF TxInv, TaskType, WriteMark, Goto, Point, wakeup, local
<1>4. HistoryType'
  BY <1>1 DEF TxInv, HistoryType, WriteMark
<1>5. FrameInv'
  BY <1>1 DEF TxInv, FrameInv, WriteMark, Goto, local
<1>6. ASSUME ~overlap' PROVE (WriterInv /\ OrderInv /\ ContentInv)'
  <2>1. /\ ~overlap /\ hwPos \in Slot /\ head \in Slot /\ tail \in Slot
        /\ td[t] = head /\ tail # CircInc(head) /\ buffer[head] = frame[t]
        /\ \A u \in Writers \ {t} : ~Writing(u)
    BY <1>6 DEF TxInv, RingType, WriterInv, WriteMark, At, Writing
  <2>2. WriterInv'
    BY <2>1 DEF WriterInv, WriteMark, Goto, Writing, local
  <2>3. FreeFrom = head /\ FreeFrom' = CircInc(head)
    BY <2>1 DEF TxInv, TaskType, WriteMark, At, Goto, Writing, FreeFrom
  <2>4. /\ Len(written') = Len(written) + 1 /\ wire' = wire
        /\ written'[Len(written) + 1] = frame[t]
        /\ \A i \in 1 .. Len(written) : written'[i] = written[i]
        /\ Len(written) \in Nat /\ Len(wire) \in Nat
    BY <1>1 DEF WriteMark
  <2>5. /\ Pending' = Pending + 1 /\ Pending = Dist(hwPos, head)
        /\ Dist(tail, hwPos) + Pending < Size
    BY <2>1, <2>3, <2>4 DEF TxInv, OrderInv, Pending
  <2>6. OrderInv'
    BY <2>1, <2>3, <2>5, RoomAhead, SizeAssumption DEF OrderInv, WriteMark,
       dma, Dist, Slot
  <2>7. ContentInv'
    <3>1. ASSUME NEW s \in Slot
          PROVE  /\ desc'[s].used <=> Dist(hwPos, s) >= Pending'
                 /\ ~desc'[s].used =>
                      /\ desc'[s].wrap = (s = Size - 1)
                      /\ buffer[s] = written'[Len(wire) + Dist(hwPos, s) + 1]
      <4>1. CASE s = head
        BY <4>1, <2>1, <2>4, <2>5 DEF TxInv, RingType, WriteMark, Pending
      <4>2. CASE s # head
        <5>1. desc'[s] = desc[s]
          BY <4>2, <2>1 DEF WriteMark
        <5>2. Dist(hwPos, s) # Pending /\ Dist(hwPos, s) \in Nat
          BY <4>2, <2>1, <2>5, SizeAssumption DEF Dist, Slot
        <5>3. ~desc[s].used => Len(wire) + Dist(hwPos, s) + 1 \in 1 .. Len(written)
          BY <5>2, <2>1, <2>4 DEF TxInv, ContentInv, Pending
        <5> QED
          BY <5>1, <5>2, <5>3, <2>1, <2>4, <2>5 DEF TxInv, ContentInv,
             Pending
      <4> QED
        BY <4>1, <4>2
    <3>2. /\ Len(wire') <= Len(written')
          /\ \A i \in 1 .. Len(wire') : wire'[i] = written'[i]
      BY <2>1, <2>4 DEF TxInv, ContentInv
    <3>3. UNCHANGED <<buffer, hwPos, wire>>
      BY DEF WriteMark, dma
    <3> QED
      BY <3>1, <3>2, <3>3 DEF ContentInv
  <2> QED
    BY <2>2, <2>6, <2>7
<1> QED
  BY <1>2, <1>3, <1>4, <1>5, <1>6 DEF TxInv

(* The head follows to the descriptor behind the one that was handed over. *)
LEMMA WriteAdvanceInv ==
  ASSUME TxInv, NEW t \in Writers, WriteAdvance(t) PROVE TxInv'
<1>1. CircInc(head) \in Slot
  BY Distances DEF TxInv, RingType
<1>2. 0 \in Slot
  BY SizeAssumption DEF Slot
<1>3. /\ head \in Slot /\ CircInc(head) \in Slot /\ 0 \in Slot
      /\ frame[t] \in 1 .. next - 1
  BY <1>1, <1>2 DEF TxInv, RingType, FrameInv, WriteAdvance, At
<1>4. RingType'
  BY <1>3 DEF TxInv, RingType, WriteAdvance
<1>5. TaskType'
  BY <1>3, MaxFramesAssumption DEF TxInv, TaskType, WriteAdvance, Goto,
     Point, wakeup
<1>6. HistoryType'
  BY <1>3 DEF TxInv, HistoryType, WriteAdvance
<1>7. FrameInv'
  BY DEF TxInv, TaskType, FrameInv, WriteAdvance, At, Goto
<1>8. ASSUME ~overlap' PROVE (WriterInv /\ OrderInv /\ ContentInv)'
  <2>1. /\ ~overlap /\ UNCHANGED <<hwPos, tail, desc, buffer, written, wire>>
        /\ head' = CircInc(head)
        /\ \A u \in Writers \ {t} : ~Writing(u)
    BY <1>8 DEF TxInv, WriterInv, WriteAdvance, At, Writing
  <2>2. \A u \in Writers : ~Writing(u)'
    BY <2>1 DEF TxInv, TaskType, WriteAdvance, Goto, Writing
  <2>3. WriterInv'
    BY <2>2 DEF WriterInv, Writing
  <2>4. FreeFrom' = FreeFrom /\ Pending' = Pending
    BY <2>1, <2>2 DEF WriteAdvance, At, Writing, FreeFrom, Pending
  <2>5. OrderInv' /\ ContentInv'
    BY <2>1, <2>4 DEF TxInv, OrderInv, ContentInv
  <2> QED
    BY <2>3, <2>5
<1> QED
  BY <1>4, <1>5, <1>6, <1>7, <1>8 DEF TxInv

-----------------------------------------------------------------------------
(* The EMAC and its interrupt.                                             *)

(* The DMA sends the oldest pending frame, marks its descriptor and goes   *)
(* on to the next, which the WRAP bit tells it.                            *)
LEMMA TransmitInv == ASSUME TxInv, Transmit PROVE TxInv'
<1>1. /\ hwPos \in Slot /\ ~desc[hwPos].used
      /\ buffer[hwPos] \in 0 .. next - 1
      /\ desc' \in [Slot -> [used : BOOLEAN, wrap : BOOLEAN]]
      /\ \A s \in Slot : /\ desc'[s].wrap = desc[s].wrap
                         /\ desc'[s].used = (s = hwPos \/ desc[s].used)
  BY DEF TxInv, RingType, FrameInv, Transmit
<1>2. ASSUME ~overlap
      PROVE  /\ Len(wire) < Len(written)
             /\ buffer[hwPos] = written[Len(wire) + 1]
             /\ hwPos' = CircInc(hwPos)
             /\ Pending' = Pending - 1 /\ Pending > 0
             /\ Len(wire') = Len(wire) + 1
  <2>1. Dist(hwPos, hwPos) = 0
    BY <1>1, Distances
  <2>2. Len(wire) \in Nat /\ Len(written) \in Nat
    OBVIOUS
  <2>3. Len(wire) < Len(written) /\ buffer[hwPos] = written[Len(wire) + 1]
    BY <1>1, <1>2, <2>1, <2>2 DEF TxInv, ContentInv, Pending
  <2>4. hwPos' = CircInc(hwPos)
    BY <1>1, <1>2, SizeAssumption DEF TxInv, ContentInv, Transmit, CircInc,
       Slot
  <2>5. Len(wire') = Len(wire) + 1 /\ written' = written
    BY DEF Transmit
  <2> QED
    BY <2>2, <2>3, <2>4, <2>5 DEF Pending
<1>3. RingType'
  <2>1. hwPos' \in Slot \/ (overlap /\ hwPos' = Size)
    <3>1. CASE overlap
      BY <3>1, <1>1, SizeAssumption DEF Transmit, Slot
    <3>2. CASE ~overlap
      BY <3>2, <1>1, <1>2, Distances
    <3> QED
      BY <3>1, <3>2
  <2> QED
    BY <1>1, <2>1 DEF TxInv, RingType, Transmit
<1>4. TaskType'
  BY DEF TxInv, TaskType, Transmit, wakeup, local
<1>5. HistoryType'
  <2>1. buffer[hwPos] \in (IF overlap THEN 0 ELSE 1) .. next - 1
    BY <1>1, <1>2 DEF TxInv, HistoryType
  <2> QED
    BY <2>1 DEF TxInv, HistoryType, Transmit
<1>6. FrameInv'
  BY DEF TxInv, FrameInv, Transmit, local
<1>7. ASSUME ~overlap' PROVE (WriterInv /\ OrderInv /\ ContentInv)'
  <2>1. ~overlap /\ UNCHANGED <<head, tail, buffer, written, pc, td, frame>>
    BY <1>7 DEF Transmit, local
  <2>2. WriterInv'
    BY <2>1 DEF TxInv, WriterInv, Writing
  <2>3. FreeFrom' = FreeFrom /\ FreeFrom \in Slot /\ tail \in Slot
    BY <2>1, Distances DEF TxInv, RingType, FreeFrom
  <2>4. /\ Pending \in Nat /\ Pending = Dist(hwPos, FreeFrom)
        /\ Dist(tail, hwPos) + Pending < Size
    BY <1>2, <2>1 DEF TxInv, OrderInv, Pending
  <2>5. /\ Dist(CircInc(hwPos), FreeFrom) = Dist(hwPos, FreeFrom) - 1
        /\ Dist(tail, CircInc(hwPos)) = Dist(tail, hwPos) + 1
    <3>1. hwPos # FreeFrom
      BY <1>1, <1>2, <2>1, <2>3, <2>4, Distances
    <3>2. tail # CircInc(hwPos)
      BY <1>1, <1>2, <2>1, <2>3, <2>4, SizeAssumption DEF Dist, CircInc,
         Slot
    <3> QED
      BY <1>1, <2>3, <3>1, <3>2, Distances
  <2>6. OrderInv'
    <3>1. Dist(tail, hwPos) \in Slot
      BY <1>1, <2>3, Distances
    <3> QED
      BY <1>2, <2>1, <2>3, <2>4, <2>5, <3>1 DEF OrderInv, Slot
  <2>7. ContentInv'
    <3>1. /\ Len(wire') <= Len(written')
          /\ \A i \in 1 .. Len(wire') : wire'[i] = written'[i]
      BY <1>2, <2>1 DEF TxInv, ContentInv, Transmit
    <3>2. ASSUME NEW s \in Slot
          PROVE  /\ desc'[s].used <=> Dist(hwPos', s) >= Pending'
                 /\ ~desc'[s].used =>
                      /\ desc'[s].wrap = (s = Size - 1)
                      /\ buffer[s] = written[Len(wire') + Dist(hwPos', s) + 1]
      <4>1. CASE s = hwPos
        <5>1. Dist(hwPos', s) = Size - 1
          BY <4>1, <1>1, <1>2, <2>1, Distances
        <5>2. Pending' < Size
          <6>1. Dist(tail, hwPos) \in Slot
            BY <1>1, <2>3, Distances
          <6> QED
            BY <6>1, <1>2, <2>1, <2>4, SizeAssumption DEF Slot
        <5> QED
          BY <4>1, <5>1, <5>2, <1>1, <1>2, SizeAssumption DEF Pending
      <4>2. CASE s # hwPos
        <5>1. Dist(hwPos', s) = Dist(hwPos, s) - 1 /\ Dist(hwPos, s) \in Nat
          BY <4>2, <1>1, <1>2, <2>1, Distances DEF Slot
        <5>2. Len(wire) \in Nat /\ Len(written) \in Nat
          OBVIOUS
        <5>3. Len(wire') + Dist(hwPos', s) + 1 = Len(wire) + Dist(hwPos, s) + 1
          BY <5>1, <5>2, <1>2, <2>1
        <5> QED
          BY <4>2, <5>1, <5>2, <5>3, <1>1, <1>2, <2>1 DEF TxInv, ContentInv,
             Pending
      <4> QED
        BY <4>1, <4>2
    <3> QED
      BY <2>1, <3>1, <3>2 DEF ContentInv
  <2> QED
    BY <2>2, <2>6, <2>7
<1> QED
  BY <1>3, <1>4, <1>5, <1>6, <1>7 DEF TxInv

(* The handler stops at the DMA's position at the latest.                  *)
LEMMA ReleaseBound ==
  ASSUME TxInv, ~overlap, NEW k \in Slot, Release(k)
  PROVE  /\ k <= Dist(tail, hwPos)
         /\ k <= Dist(tail, head)
<1>1. /\ tail \in Slot /\ hwPos \in Slot /\ head \in Slot
      /\ CircInc(head) \in Slot
  BY Distances DEF TxInv, RingType
<1>2. \A j \in Slot : After(j) \in Slot /\ Dist(tail, After(j)) = j
  BY <1>1, ShiftDist DEF After
<1>3. \A s \in Slot : Dist(tail, s) \in Slot /\ After(Dist(tail, s)) = s
  <2> SUFFICES ASSUME NEW s \in Slot
               PROVE  Dist(tail, s) \in Slot /\ After(Dist(tail, s)) = s
    OBVIOUS
  <2>1. Dist(tail, s) \in Slot
    BY <1>1, Distances
  <2>2. /\ After(Dist(tail, s)) \in Slot
        /\ Dist(tail, After(Dist(tail, s))) = Dist(tail, s)
    BY <1>2, <2>1
  <2> QED
    BY <1>1, <2>1, <2>2, SizeAssumption DEF Dist, Slot
<1>4. \A s \in Slot : Dist(tail, s) < k => s # head /\ desc[s].used
  BY <1>3 DEF Release, Slot
<1>5. k <= Dist(tail, head)
  BY <1>1, <1>3, <1>4 DEF Slot
<1>6. ASSUME k > Dist(tail, hwPos) PROVE FALSE
  <2>1. hwPos # head /\ desc[hwPos].used
    BY <1>1, <1>4, <1>6
  <2>2. Dist(hwPos, hwPos) = 0
    BY <1>1, Distances
  <2>3. Pending = 0
    BY <1>1, <2>1, <2>2 DEF TxInv, ContentInv, Pending
  <2>4. hwPos = FreeFrom
    BY <1>1, <2>3, Distances DEF TxInv, OrderInv, FreeFrom
  <2>5. hwPos = CircInc(head) /\ tail # CircInc(head)
    BY <2>1, <2>4 DEF TxInv, WriterInv, Writing, FreeFrom
  <2>6. Dist(tail, head) < Dist(tail, hwPos)
    BY <1>1, <2>5, SizeAssumption DEF Dist, CircInc, Slot
  <2> QED
    BY <1>1, <1>3, <1>5, <1>6, <2>6 DEF Slot
<1> QED
  BY <1>1, <1>3, <1>5, <1>6 DEF Slot

(* emac_handler takes the tail over descriptors that the DMA has marked,   *)
(* never past the DMA's position or the head.                              *)
LEMMA HandlerInv == ASSUME TxInv, Handler PROVE TxInv'
<1>1. PICK k \in Slot : Release(k) /\ tail' = After(k)
  BY DEF Handler
<1>2. tail \in Slot /\ tail' \in Slot /\ Dist(tail, tail') = k
  BY <1>1, ShiftDist DEF TxInv, RingType, After
<1>3. RingType'
  BY <1>2 DEF TxInv, RingType, Handler, history
<1>4. TaskType'
  BY DEF TxInv, TaskType, Handler, local
<1>5. HistoryType'
  BY DEF TxInv, HistoryType, Handler, history
<1>6. FrameInv'
  BY DEF TxInv, FrameInv, Handler, local, history
<1>7. ASSUME ~overlap' PROVE (WriterInv /\ OrderInv /\ ContentInv)'
  <2>1. /\ ~overlap /\ hwPos \in Slot /\ head \in Slot
        /\ UNCHANGED <<head, desc, buffer, hwPos, pc, td, frame, written, wire>>
    BY <1>7 DEF TxInv, RingType, Handler, local, history
  <2>2. k <= Dist(tail, hwPos) /\ k <= Dist(tail, head)
    BY <1>1, <2>1, ReleaseBound
  <2>3. FreeFrom' = FreeFrom /\ Pending' = Pending
    BY <2>1 DEF FreeFrom, Pending
  <2>4. WriterInv'
    <3>1. tail # CircInc(head) => tail' # CircInc(head)
      BY <1>2, <2>1, <2>2, Advance
    <3> QED
      BY <2>1, <3>1 DEF TxInv, WriterInv, Writing
  <2>5. OrderInv'
    <3>1. Dist(tail', hwPos) = Dist(tail, hwPos) - k
      BY <1>2, <2>1, <2>2, Advance
    <3>2. Dist(tail, hwPos) \in Slot
      BY <1>2, <2>1, Distances
    <3>3. Pending \in Int
      BY DEF Pending
    <3> QED
      BY <2>1, <2>3, <3>1, <3>2, <3>3, SizeAssumption DEF TxInv, OrderInv,
         Slot
  <2>6. ContentInv'
    BY <2>1, <2>3 DEF TxInv, ContentInv
  <2> QED
    BY <2>4, <2>5, <2>6
<1> QED
  BY <1>3, <1>4, <1>5, <1>6, <1>7 DEF TxInv

-----------------------------------------------------------------------------
(* The invariant of the specification.                                     *)

(* emac_reset_tx_mem leaves an empty ring.                                 *)
LEMMA InitTxInv == Init => TxInv
<1> SUFFICES ASSUME Init PROVE TxInv
  OBVIOUS
<1>1. 0 \in Slot /\ 0 \in 0 .. MaxFrames
  BY SizeAssumption, MaxFramesAssumption DEF Slot
<1>2. RingType
  BY <1>1 DEF Init, RingType
<1>3. TaskType
  BY <1>1 DEF Init, TaskType, Point
<1>4. HistoryType
  <2>1. overlap = FALSE /\ reported = {} /\ next \in 1 .. MaxFrames + 1
    BY MaxFramesAssumption DEF Init
  <2>2. written = <<>> /\ wire = <<>>
    BY DEF Init
  <2>3. \A S : <<>> \in Seq(S)
    OBVIOUS
  <2>4. written \in Seq(1 .. next - 1)
    BY <2>2, <2>3, Zenon
  <2>5. wire \in Seq((IF overlap THEN 0 ELSE 1) .. next - 1)
    BY <2>2, <2>3, Zenon
  <2> QED
    BY <2>1, <2>4, <2>5 DEF HistoryType
<1>5. FrameInv
  BY DEF Init, FrameInv
<1>6. WriterInv
  BY DEF Init, WriterInv, Writing
<1>7. Pending = 0 /\ FreeFrom = 0 /\ Dist(0, 0) = 0
  BY DEF Init, Pending, FreeFrom, Dist
<1>8. OrderInv
  BY <1>7, SizeAssumption DEF Init, OrderInv
<1>9. ContentInv
  <2>1. \A s \in Slot : Dist(hwPos, s) >= Pending /\ desc[s].used
    BY <1>1, <1>7, Distances DEF Init, Slot
  <2>2. Len(wire) = 0 /\ Len(written) = 0
    BY DEF Init
  <2> QED
    BY <2>1, <2>2 DEF ContentInv
<1> QED
  BY <1>2, <1>3, <1>4, <1>5, <1>6, <1>8, <1>9 DEF TxInv

(* Every step of the tasks, the DMA and the handler keeps the invariant.   *)
LEMMA TxInvStep == TxInv /\ [Next]_vars => TxInv'
<1> SUFFICES ASSUME TxInv, [Next]_vars PROVE TxInv'
  OBVIOUS
<1>1. ASSUME NEW t \in Writers, LowLevelOutput(t) \/ OutputStep(t) PROVE TxInv'
  BY <1>1, LowLevelOutputInv, WriteBeginInv, WriteFillInv, WriteMarkInv,
     WriteAdvanceInv, RegisterInv, NotifyInv, UnregisterInv DEF OutputStep
<1>2. CASE UNCHANGED vars
  <2>1. /\ RingType' /\ TaskType' /\ HistoryType' /\ FrameInv'
    BY <1>2 DEF TxInv, RingType, TaskType, HistoryType, FrameInv, vars,
       ring, dma, wakeup, local, history
  <2>2. \A t \in Writers : Outside(t)
    BY <1>2 DEF Outside, vars, local
  <2>3. UNCHANGED <<ring, hwPos, written, wire, overlap>>
    BY <1>2 DEF vars, dma, history
  <2> QED
    BY <2>1, <2>2, <2>3, RingKept DEF TxInv
<1> QED
  BY <1>1, <1>2, TransmitInv, HaltInv, HandlerInv DEF Next

(* It holds in every behaviour.                                            *)
LEMMA TxInvIsInvariant == Spec => []TxInv
BY InitTxInv, TxInvStep, PTL DEF Spec

(* It says what QueueIntact says.                                          *)
LEMMA TxInvIsIntact == TxInv => QueueIntact
<1> SUFFICES ASSUME TxInv, ~overlap
             PROVE  /\ IsPrefix(wire, written)
                    /\ \A i \in Slot :
                         LET s == (hwPos + i) % Size
                         IN  /\ desc[s].used <=> i >= Pending
                             /\ i < Pending =>
                                  buffer[s] = written[Len(wire) + i + 1]
                             /\ ~desc[s].used => desc[s].wrap = (s = Size - 1)
  BY DEF TxInv, QueueIntact, TypeOK
<1>1. hwPos \in Slot /\ Len(wire) \in Nat /\ Len(written) \in Nat
  BY DEF TxInv, RingType
<1>2. IsPrefix(wire, written)
  <2>1. Len(wire) <= Len(written) /\ \A i \in 1 .. Len(wire) : wire[i] = written[i]
    BY DEF TxInv, ContentInv
  <2>2. SubSeq(written, 1, Len(wire)) = wire
    <3>1. /\ SubSeq(written, 1, Len(wire)) = [i \in 1 .. Len(wire) |-> written[i]]
      BY <1>1, <2>1
    <3>2. wire = [i \in 1 .. Len(wire) |-> wire[i]]
      BY DEF TxInv, HistoryType
    <3> QED
      BY <2>1, <3>1, <3>2
  <2> QED
    BY <1>1, <2>1, <2>2 DEF IsPrefix
<1>3. ASSUME NEW i \in Slot, NEW s \in Slot, s = (hwPos + i) % Size
      PROVE  /\ desc[s].used <=> i >= Pending
             /\ i < Pending => buffer[s] = written[Len(wire) + i + 1]
             /\ ~desc[s].used => desc[s].wrap = (s = Size - 1)
  <2>1. Dist(hwPos, s) = i
    BY <1>1, <1>3, ShiftDist
  <2>2. i \in Int /\ Pending \in Int
    BY <1>1 DEF Slot, Pending
  <2>3. /\ desc[s].used <=> i >= Pending
        /\ ~desc[s].used => /\ desc[s].wrap = (s = Size - 1)
                            /\ buffer[s] = written[Len(wire) + i + 1]
    BY <2>1 DEF TxInv, ContentInv
  <2> QED
    BY <2>2, <2>3
<1>4. \A i \in Slot : (hwPos + i) % Size \in Slot
  BY <1>1, ShiftDist
<1> QED
  BY <1>2, <1>3, <1>4

(* QueueIntact: in a ring of any size, with any number of tasks, what the  *)
(* DMA of the EMAC will find is what emac_dev_write put there, and what it *)
(* has sent is a prefix of it, until two tasks meet in emac_dev_write.     *)
THEOREM RingHoldsWritten == Spec => []QueueIntact
BY TxInvIsInvariant, TxInvIsIntact, PTL
=============================================================================
