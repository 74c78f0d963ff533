------------------------------- MODULE EmacRx -------------------------------
(***************************************************************************)
(* The receive path of the Ethernet driver: ethernetif_input and           *)
(* low_level_input of ethernetif.c, which run in the task ETHINT,          *)
(* emac_dev_read and the receive half of emac_handler in emac.c, and the   *)
(* EMAC's DMA, which spreads a frame over buffers of EMAC_RX_UNITSIZE      *)
(* bytes and drops what does not fit into the ring.                        *)
(*                                                                         *)
(* The content of a buffer is a pair: the number of the frame and the      *)
(* number of the piece.  One iteration of emac_dev_read's loop is a step;  *)
(* the DMA and the interrupt handler run between any two of them.          *)
(***************************************************************************)
EXTENDS Naturals, Sequences, SequencesExt

CONSTANTS
  Size,       \* buffers in the ring: EMAC_RX_BUFFERS (16 in the code)
  MaxPieces,  \* buffers of the longest frame (12 for 1518 bytes)
  Capacity,   \* buffers that fit into pc_buf (12: NET_RW_BUFF_SIZE is 1536)
  MaxFrames   \* bound on the frames of a behaviour

ASSUME SizeAssumption == Size \in Nat /\ Size > 1
ASSUME MaxPiecesAssumption == MaxPieces \in Nat \ {0}
ASSUME CapacityAssumption == Capacity \in Nat \ {0}
ASSUME MaxFramesAssumption == MaxFrames \in Nat

VARIABLES
  owned,     \* the OWNERSHIP bit of each descriptor: software has the buffer
  status,    \* the status word of each descriptor: SOF, EOF, frame length
  content,   \* what is in each buffer
  hwPos,     \* the descriptor that the DMA uses next
  arriving,  \* the frame that the DMA is receiving: number, length, done
  arrived,   \* how many frames have begun to arrive
  complete,  \* the frames that are or were completely in the ring and fit
             \* into pc_buf, in order
  cut,       \* a frame was cut short because the ring was full
  rec,       \* RSR_REC / ISR_RCOMP: a frame has been received
  rxIdx,     \* us_rx_idx
  tmpIdx,    \* us_tmp_idx; p_rx_td points to this descriptor when the loop
             \* looks at it
  isFrame,   \* c_is_frame
  copied,    \* the frame buffer pc_buf
  pc,        \* program point of ETHINT
  rxCb,      \* func_rx_cb is ethernetif_rx_cb
  notified,  \* a notification of ETHINT is pending
  delivered  \* the frames that were passed to lwIP, or dropped for want of pbufs

rxRing == <<owned, status, content, rxIdx>>
dma == <<hwPos, arriving, arrived, complete, cut>>
reading == <<tmpIdx, isFrame, copied>>
vars == <<rxRing, dma, rec, reading, pc, rxCb, notified, delivered>>

Slot == 0 .. Size - 1
Piece == (1 .. MaxFrames) \X (1 .. MaxPieces)
Status == [sof : BOOLEAN, eof : BOOLEAN, length : 0 .. MaxPieces]
ArrivingFrame ==
  [number : 1 .. MaxFrames, length : 1 .. MaxPieces, done : 0 .. MaxPieces]
NoFrame == [number |-> 0, length |-> 0, done |-> 0]

(* Frames that the driver can pass on; a frame that needs every buffer of  *)
(* the ring, or more than pc_buf has room for, is dropped.                 *)
Fits(n) == n < Size /\ n <= Capacity

Pieces(f) == [i \in 1 .. f.length |-> <<f.number, i>>]

RingType ==
  /\ owned \in [Slot -> BOOLEAN]
  /\ status \in [Slot -> Status]
  /\ content \in [Slot -> Piece \cup {<<0, 0>>}]
  /\ hwPos \in Slot /\ rxIdx \in Slot

FrameType ==
  /\ arriving \in ArrivingFrame \cup {NoFrame}
  /\ arriving # NoFrame => /\ arriving.number = arrived
                           /\ arriving.done < arriving.length
  /\ arrived \in 0 .. MaxFrames
  /\ complete \in Seq(Seq(Piece)) /\ delivered \in Seq(Seq(Piece))
  /\ cut \in BOOLEAN /\ rec \in BOOLEAN

TaskType ==
  /\ tmpIdx \in Slot /\ isFrame \in BOOLEAN
  /\ copied \in Seq(Piece) /\ Len(copied) <= Capacity
  /\ pc \in {"read", "gather", "null", "clear", "wait", "ok", "error", "sleep"}
  /\ rxCb \in BOOLEAN /\ notified \in BOOLEAN

TypeOK == RingType /\ FrameType /\ TaskType

(* emac_reset_rx_mem, from emac_dev_init; ETHINT is about to read.         *)
Init ==
  /\ owned = [s \in Slot |-> FALSE]
  /\ status = [s \in Slot |-> [sof |-> FALSE, eof |-> FALSE, length |-> 0]]
  /\ content = [s \in Slot |-> <<0, 0>>]
  /\ hwPos = 0 /\ rxIdx = 0 /\ tmpIdx = 0
  /\ arriving = NoFrame
  /\ arrived = 0
  /\ complete = <<>>
  /\ cut = FALSE /\ rec = FALSE /\ isFrame = FALSE
  /\ copied = <<>>
  /\ pc = "read"
  /\ rxCb = FALSE /\ notified = FALSE
  /\ delivered = <<>>

CircInc(i) == IF i + 1 >= Size THEN 0 ELSE i + 1

-----------------------------------------------------------------------------
(* The EMAC.                                                               *)

FrameBegins ==
  /\ arriving = NoFrame
  /\ arrived < MaxFrames
  /\ arrived' = arrived + 1
  /\ \E n \in 1 .. MaxPieces :
       arriving' = [number |-> arrived + 1, length |-> n, done |-> 0]
  /\ UNCHANGED <<rxRing, hwPos, complete, cut, rec, reading, pc, rxCb, notified,
                 delivered>>

(* The next piece of the frame fills a buffer; the last piece sets EOF and *)
(* the length, and signals the frame.                                      *)
PieceArrives ==
  /\ arriving # NoFrame
  /\ ~owned[hwPos]
  /\ LET i    == arriving.done + 1
         last == i = arriving.length
     IN  /\ content' = [content EXCEPT ![hwPos] = <<arriving.number, i>>]
         /\ status' = [status EXCEPT ![hwPos] =
              [sof |-> i = 1, eof |-> last,
               length |-> IF last THEN arriving.length ELSE 0]]
         /\ arriving' = IF last THEN NoFrame ELSE [arriving EXCEPT !.done = i]
         /\ complete' = IF last /\ Fits(i) THEN Append(complete, Pieces(arriving))
                        ELSE complete
         /\ rec' = (rec \/ last)
  /\ owned' = [owned EXCEPT ![hwPos] = TRUE]
  /\ hwPos' = CircInc(hwPos)
  /\ UNCHANGED <<rxIdx, arrived, cut, reading, pc, rxCb, notified, delivered>>

(* No buffer is free: the rest of the frame is lost.                       *)
NoBuffer ==
  /\ arriving # NoFrame
  /\ owned[hwPos]
  /\ arriving' = NoFrame
  /\ cut' = (cut \/ arriving.done > 0)
  /\ UNCHANGED <<rxRing, hwPos, arrived, complete, rec, reading, pc, rxCb,
                 notified, delivered>>

-----------------------------------------------------------------------------
(* emac_handler, receive part.  While no callback is registered RCOMP is   *)
(* masked, but an interrupt of the transmitter runs the same code.         *)
Handler ==
  /\ rec
  /\ rec' = FALSE
  /\ notified' = (notified \/ rxCb)
  /\ UNCHANGED <<rxRing, dma, reading, pc, rxCb, delivered>>

-----------------------------------------------------------------------------
(* emac_dev_read.                                                          *)

ReadBegin ==
  /\ pc = "read"
  /\ tmpIdx' = rxIdx
  /\ isFrame' = FALSE
  /\ copied' = <<>>
  /\ pc' = "gather"
  /\ UNCHANGED <<rxRing, dma, rec, rxCb, notified, delivered>>

(* The descriptors from a up to, and without, b (all of them if a = b and  *)
(* whole).                                                                 *)
Between(a, b, whole) ==
  {s \in Slot : IF a = b THEN whole
                ELSE IF a < b THEN a <= s /\ s < b ELSE a <= s \/ s < b}

(* Mutant: no buffer is given back.                                        *)
FreeNothing(slots) == UNCHANGED owned

Free(slots) == owned' = [s \in Slot |-> owned[s] /\ s \notin slots]

(* After the pieces of a broken frame have been skipped p_rx_td is left at *)
(* the last one of them.                                                   *)
AfterSkip ==
  IF status[tmpIdx].sof /\ tmpIdx # rxIdx
  THEN IF tmpIdx = 0 THEN Size - 1 ELSE tmpIdx - 1
  ELSE tmpIdx

FirstIdx == IF status[tmpIdx].sof THEN tmpIdx ELSE rxIdx

(* pc_buf with the piece added, as far as it has room.                     *)
Collected ==
  LET c == IF status[tmpIdx].sof THEN <<>> ELSE copied
  IN  IF Len(c) < Capacity THEN Append(c, content[AfterSkip]) ELSE c

(* Mutant: the pieces of a frame that is still arriving are discarded.     *)
GatherNoneDiscard ==
  /\ pc = "gather"
  /\ ~owned[tmpIdx]
  /\ pc' = "null"
  /\ Free(Between(rxIdx, tmpIdx, FALSE))
  /\ rxIdx' = tmpIdx
  /\ UNCHANGED <<status, content, dma, rec, reading, rxCb, notified, delivered>>

(* No more buffers: the pieces so far are left where they are.             *)
GatherNone ==
  /\ pc = "gather"
  /\ ~owned[tmpIdx]
  /\ pc' = "null"
  /\ UNCHANGED <<rxRing, dma, rec, reading, rxCb, notified, delivered>>

(* A piece without a beginning is skipped.                                 *)
GatherSkip ==
  /\ pc = "gather"
  /\ owned[tmpIdx]
  /\ ~status[tmpIdx].sof /\ ~isFrame
  /\ owned' = [owned EXCEPT ![tmpIdx] = FALSE]
  /\ rxIdx' = CircInc(tmpIdx)
  /\ tmpIdx' = CircInc(tmpIdx)
  /\ UNCHANGED <<status, content, dma, rec, isFrame, copied, pc, rxCb, notified,
                 delivered>>

(* The frame goes on around the whole ring: everything is given back.      *)
GatherWhole ==
  /\ pc = "gather"
  /\ owned[tmpIdx]
  /\ status[tmpIdx].sof \/ isFrame
  /\ CircInc(tmpIdx) = FirstIdx
  /\ Free(Slot)
  /\ rxIdx' = FirstIdx
  /\ pc' = "null"
  /\ UNCHANGED <<status, content, dma, rec, reading, rxCb, notified, delivered>>

(* A piece is copied.  SOF starts a new frame and gives the pieces before  *)
(* it back.                                                                *)
GatherPiece ==
  /\ pc = "gather"
  /\ owned[tmpIdx]
  /\ status[tmpIdx].sof \/ isFrame
  /\ CircInc(tmpIdx) # FirstIdx
  /\ ~status[AfterSkip].eof
  /\ Free(Between(rxIdx, FirstIdx, FALSE))
  /\ rxIdx' = FirstIdx
  /\ tmpIdx' = CircInc(tmpIdx)
  /\ isFrame' = TRUE
  /\ copied' = Collected
  /\ UNCHANGED <<status, content, dma, rec, pc, rxCb, notified, delivered>>

(* Mutant: the buffer of the last piece is not given back.                 *)
GatherLastLeak ==
  /\ pc = "gather"
  /\ owned[tmpIdx]
  /\ status[tmpIdx].sof \/ isFrame
  /\ CircInc(tmpIdx) # FirstIdx
  /\ status[AfterSkip].eof
  /\ Free(Between(rxIdx, tmpIdx, FALSE))
  /\ rxIdx' = CircInc(tmpIdx)
  /\ pc' = "ok"
  /\ copied' = Collected
  /\ UNCHANGED <<status, content, dma, rec, tmpIdx, isFrame, rxCb, notified,
                 delivered>>

(* The last piece: the frame's buffers are given back.                     *)
GatherLast ==
  /\ pc = "gather"
  /\ owned[tmpIdx]
  /\ status[tmpIdx].sof \/ isFrame
  /\ CircInc(tmpIdx) # FirstIdx
  /\ status[AfterSkip].eof
  /\ Free(Between(rxIdx, tmpIdx, FALSE) \cup {tmpIdx})
  /\ rxIdx' = CircInc(tmpIdx)
  /\ LET n == status[AfterSkip].length
     IN  IF Len(Collected) < n
         THEN pc' = "error" /\ UNCHANGED copied
         ELSE pc' = "ok" /\ copied' = SubSeq(Collected, 1, n)
  /\ UNCHANGED <<status, content, dma, rec, tmpIdx, isFrame, rxCb, notified,
                 delivered>>

DevRead ==
  ReadBegin \/ GatherNone \/ GatherSkip \/ GatherWhole \/ GatherPiece \/ GatherLast

-----------------------------------------------------------------------------
(* low_level_input and ethernetif_input.                                   *)

(* Nothing to read: register the callback (the first time), forget an old  *)
(* notification and, if there was one, try again.                          *)
SetRxCallback ==
  /\ pc = "null"
  /\ rxCb' = TRUE
  /\ pc' = IF rxCb THEN "wait" ELSE "clear"
  /\ UNCHANGED <<rxRing, dma, rec, reading, notified, delivered>>

NotifyStateClear ==
  /\ pc = "clear"
  /\ notified' = FALSE
  /\ pc' = IF notified THEN "read" ELSE "wait"
  /\ UNCHANGED <<rxRing, dma, rec, reading, rxCb, delivered>>

(* Mutant: the task waits for the notification without a timeout.          *)
NotifyWaitForever ==
  /\ pc = "wait"
  /\ notified
  /\ notified' = FALSE
  /\ pc' = "read"
  /\ UNCHANGED <<rxRing, dma, rec, reading, rxCb, delivered>>

(* xTaskNotifyWait returns with a notification or after 100 ticks.         *)
NotifyWait ==
  /\ pc = "wait"
  /\ notified' = FALSE
  /\ pc' = "read"
  /\ UNCHANGED <<rxRing, dma, rec, reading, rxCb, delivered>>

(* The frame is passed to lwIP (or dropped because there is no pbuf, after *)
(* which the task sleeps for 100 ticks); the callback is unregistered.     *)
(* lwIP runs the UDP server and low_level_output in this task: their waits *)
(* use the same notification, may clear it and may leave one behind.       *)
Input ==
  /\ pc = "ok"
  /\ rxCb' = FALSE
  /\ delivered' = Append(delivered, copied)
  /\ copied' = <<>>
  /\ \/ pc' = "read" /\ notified' \in BOOLEAN
     \/ pc' = "sleep" /\ UNCHANGED notified
  /\ UNCHANGED <<rxRing, dma, rec, tmpIdx, isFrame>>

InputError ==
  /\ pc = "error"
  /\ rxCb' = FALSE
  /\ pc' = "sleep"
  /\ UNCHANGED <<rxRing, dma, rec, reading, notified, delivered>>

Wake ==
  /\ pc = "sleep"
  /\ pc' = "read"
  /\ UNCHANGED <<rxRing, dma, rec, reading, rxCb, notified, delivered>>

Ethint ==
  \/ DevRead
  \/ SetRxCallback
  \/ NotifyStateClear
  \/ NotifyWait
  \/ Input
  \/ InputError
  \/ Wake

Next == FrameBegins \/ PieceArrives \/ NoBuffer \/ Handler \/ Ethint

Spec == Init /\ [][Next]_vars

(* ETHINT has the highest priority and never waits longer than 100 ticks;  *)
(* a frame that has begun to arrive goes on.                               *)
FairSpec ==
  /\ Spec
  /\ WF_vars(Ethint)
  /\ WF_vars(PieceArrives \/ NoBuffer)
  /\ WF_vars(Handler /\ rxCb)

-----------------------------------------------------------------------------
(* Properties.                                                             *)

(* As long as the ring has not overflowed in the middle of a frame, lwIP   *)
(* gets the complete frames, whole and in order.                           *)
FramesInOrder == ~cut => IsPrefix(delivered, complete)

(* The indices stay inside the ring and pc_buf is never overrun.  The DMA  *)
(* never waits for a buffer that the driver has forgotten to give back:    *)
(* every buffer that software owns lies between us_rx_idx and the    *)
(* DMA's position.                                                         *)
OwnedInOrder ==
  /\ TypeOK
  /\ {s \in Slot : owned[s]} = Between(rxIdx, hwPos, owned[hwPos])

(* As long as nothing was cut short, every complete frame is delivered,    *)
(* whichever way its arrival races with ETHINT going to sleep and whatever *)
(* became of the notification while lwIP ran.                              *)
AllDelivered ==
  \A n \in 1 .. MaxFrames :
    (Len(complete) >= n) ~> (cut \/ Len(delivered) >= n)

(* The ring does not stay full: after an overflow reception goes on.       *)
Recovers == []<>(\E s \in Slot : ~owned[s])
=============================================================================
