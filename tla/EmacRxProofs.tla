---------------------------- MODULE EmacRxProofs ----------------------------
(***************************************************************************)
(* The receive path of EmacRx: the buffers that software owns follow each  *)
(* other around the ring, and lwIP gets the complete frames in order, for  *)
(* rings, frames and frame buffers of any size.                            *)
(***************************************************************************)
EXTENDS EmacRx, Integers, SequenceTheorems, TLAPS

-----------------------------------------------------------------------------
(* The inductive invariant.                                                *)

(* Steps from descriptor x on to descriptor y.                             *)
Dist(x, y) == IF x <= y THEN y - x ELSE y - x + Size

(* The place of a descriptor, counted from us_rx_idx, and how many of them *)
(* software owns.                                                          *)
Place(s) == Dist(rxIdx, s)
(* How many descriptors software owns: all, or those up to the DMA's.      *)
Held == IF owned[hwPos] THEN Size ELSE Dist(rxIdx, hwPos)

(* Software owns the first descriptors, the DMA is at the next one.        *)
HeldInv ==
  /\ owned[hwPos] => hwPos = rxIdx
  /\ \A s \in Slot : owned[s] <=> Place(s) < Held
  /\ \A s \in Slot : owned[s] => content[s] \in Piece

(* emac_dev_read stays among them.                                         *)
GatherInv ==
  pc = "gather" => /\ Place(tmpIdx) <= Held
                   /\ isFrame <=> tmpIdx # rxIdx

(* The inductive invariant of the ring.                                    *)
RxInv == RingType /\ FrameType /\ TaskType /\ HeldInv /\ GatherInv

-----------------------------------------------------------------------------
(* What is in the ring as long as no frame was cut short.                  *)

(* The frame in the buffer of descriptor s.                                *)
Number(s) == content[s][1]
(* The piece of that frame.                                                *)
Part(s) == content[s][2]

(* The piece that the DMA will store next.                                 *)
NextNumber == IF arriving = NoFrame THEN arrived + 1 ELSE arriving.number
(* Which piece of its frame that is.                                       *)
NextPart == IF arriving = NoFrame THEN 1 ELSE arriving.done + 1

(* Piece p of frame n may be d descriptors behind the one at s: it belongs *)
(* to the same frame or to a later one, which begins behind s.             *)
Follows(s, n, p, d) ==
  \/ Number(s) < n /\ p <= d /\ (d = 1 => status[s].eof)
  \/ Number(s) = n /\ p = Part(s) + d /\ ~status[s].eof

(* The status words say where a frame begins and, with its length, where   *)
(* it ends.                                                                *)
StatusInv ==
  \A s \in Slot : owned[s] =>
    /\ status[s].sof <=> Part(s) = 1
    /\ status[s].eof => status[s].length = Part(s)

(* The pieces are in the order of their arrival, from the next one back,   *)
(* and none is missing within a frame.                                     *)
OrderInv ==
  /\ \A s \in Slot : owned[s] => Follows(s, NextNumber, NextPart, Held - Place(s))
  /\ \A s, t \in Slot : owned[s] /\ owned[t] /\ Place(s) < Place(t) =>
       Follows(s, Number(t), Part(t), Place(t) - Place(s))

(* A frame whose beginning is gone is too long for the ring.               *)
HeadInv ==
  /\ owned[rxIdx] => Part(rxIdx) = 1 \/ Part(rxIdx) > Size
  /\ Held = 0 => NextPart = 1 \/ NextPart > Size

(* pc_buf holds the pieces that were walked through.                       *)
CopyInv ==
  pc = "gather" /\ isFrame =>
    /\ Part(rxIdx) = 1
    /\ \A s \in Slot : Place(s) < Place(tmpIdx) =>
         Number(s) = Number(rxIdx) /\ ~status[s].eof
    /\ Len(copied) = IF Place(tmpIdx) <= Capacity THEN Place(tmpIdx) ELSE Capacity
    /\ \A i \in 1 .. Len(copied) : copied[i] = <<Number(rxIdx), i>>

(* The frames that have left the ring for lwIP.                            *)
Done == IF pc = "ok" THEN Append(delivered, copied) ELSE delivered

(* Frame n, complete in l pieces.                                          *)
FrameOf(n, l) == [i \in 1 .. l |-> <<n, i>>]

(* The frames that arrived completely and fit into the buffer of lwIP are  *)
(* in the order of their numbers.                                          *)
CompleteInv ==
  /\ \A k \in 1 .. Len(complete) :
       Len(complete[k]) > 0 /\ Fits(Len(complete[k])) /\ complete[k][1][1] < NextNumber
  /\ \A j, k \in 1 .. Len(complete) : j < k => complete[j][1][1] < complete[k][1][1]

(* The others are in the ring, and no frame else that fits.                *)
MatchInv ==
  /\ Len(Done) <= Len(complete)
  /\ \A k \in 1 .. Len(Done) : Done[k] = complete[k]
  /\ \A k \in Len(Done) + 1 .. Len(complete) :
       \E s \in Slot : /\ owned[s] /\ status[s].eof
                       /\ Number(s) = complete[k][1][1] /\ Part(s) = Len(complete[k])
  /\ \A s \in Slot : owned[s] /\ status[s].eof /\ Fits(Part(s)) =>
       \E k \in Len(Done) + 1 .. Len(complete) :
         complete[k] = FrameOf(Number(s), Part(s))

(* What holds of the contents.  StatusInv, OrderInv and HeadInv follow the *)
(* pieces from the wire to the ring, CopyInv from the ring to pc_buf,      *)
(* MatchInv from there to lwIP.                                            *)
StreamInv ==
  StatusInv /\ OrderInv /\ HeadInv /\ CopyInv /\ CompleteInv /\ MatchInv

(* The inductive invariant of the whole path: a frame that was cut short   *)
(* takes the claim about the contents away, not the one about the ring.    *)
FullInv == RxInv /\ (~cut => StreamInv)

-----------------------------------------------------------------------------
(* The ring's arithmetic.                                                  *)

(* Places are counted around the ring.                                     *)
LEMMA Distances ==
  ASSUME NEW x \in Slot, NEW y \in Slot
  PROVE  /\ Dist(x, y) \in Slot
         /\ Dist(x, y) = 0 <=> x = y
         /\ CircInc(x) \in Slot /\ CircInc(x) # x
         /\ y # CircInc(x) => Dist(y, CircInc(x)) = Dist(y, x) + 1
         /\ y = CircInc(x) => Dist(y, x) = Size - 1
BY SizeAssumption DEF Slot, Dist, CircInc

(* What the place of z becomes when the ring begins at y instead of x.     *)
LEMMA Rebase ==
  ASSUME NEW x \in Slot, NEW y \in Slot, NEW z \in Slot
  PROVE  /\ Dist(x, y) <= Dist(x, z) => Dist(y, z) = Dist(x, z) - Dist(x, y)
         /\ Dist(x, y) > Dist(x, z) => Dist(y, z) = Dist(x, z) - Dist(x, y) + Size
         /\ Dist(x, y) = Dist(x, z) => y = z
BY SizeAssumption DEF Slot, Dist

(* The model's set of descriptors between two, in places.                  *)
LEMMA BetweenPlaces ==
  ASSUME NEW x \in Slot, NEW y \in Slot, NEW s \in Slot
  PROVE  s \in Between(x, y, FALSE) <=> Dist(x, s) < Dist(x, y)
BY SizeAssumption DEF Slot, Dist, Between

(* Software owns no more descriptors than there are.                       *)
LEMMA HeldType == ASSUME RxInv PROVE Held \in 0 .. Size
<1>1. Dist(rxIdx, hwPos) \in Slot
  BY Distances DEF RxInv, RingType
<1> QED
  BY <1>1, SizeAssumption DEF Held, Slot

(* The first m descriptors are given back.                                 *)
LEMMA ShiftRing ==
  ASSUME RxInv, NEW r \in Slot, rxIdx' = r, Place(r) <= Held,
         owned' \in [Slot -> BOOLEAN],
         \A s \in Slot : owned'[s] <=> owned[s] /\ Place(s) >= Place(r),
         UNCHANGED <<hwPos, content>>
  PROVE  /\ HeldInv'
         /\ Held' = Held - Place(r)
         /\ \A s \in Slot : Place(s) >= Place(r) => Place(s)' = Place(s) - Place(r)
<1>1. rxIdx \in Slot /\ hwPos \in Slot /\ \A s \in Slot : Place(s) \in Slot
  BY Distances DEF RxInv, RingType, Place
<1>2. ASSUME NEW s \in Slot
      PROVE  Place(s)' = IF Place(s) >= Place(r) THEN Place(s) - Place(r)
                         ELSE Place(s) - Place(r) + Size
  <2>1. Place(s)' = Dist(r, s)
    BY DEF Place
  <2> QED
    BY <1>1, <2>1, Rebase, SizeAssumption DEF Place, Slot
<1>3. Held' = Held - Place(r) /\ (owned'[hwPos] => hwPos = r)
  <2>1. CASE owned'[hwPos]
    <3>1. owned[hwPos] /\ hwPos = rxIdx /\ Held = Size
      BY <1>1, <2>1 DEF RxInv, HeldInv, Held
    <3>2. Place(hwPos) = 0 /\ Place(hwPos) >= Place(r)
      BY <1>1, <2>1, <3>1, Distances DEF Place
    <3>3. Place(r) = 0 /\ r = rxIdx
      BY <1>1, <3>2, Distances, SizeAssumption DEF Place, Slot
    <3> QED
      BY <1>1, <2>1, <3>1, <3>3, SizeAssumption DEF Held
  <2>2. CASE ~owned'[hwPos]
    <3>1. Held' = Place(hwPos)'
      BY <2>2 DEF Held, Place
    <3>2. CASE owned[hwPos]
      <4>1. hwPos = rxIdx /\ Held = Size /\ Place(hwPos) = 0
        BY <1>1, <3>2, Distances DEF RxInv, HeldInv, Held, Place
      <4>2. ~(Place(hwPos) >= Place(r))
        BY <1>1, <2>2, <3>2
      <4> QED
        BY <1>1, <1>2, <2>2, <3>1, <4>1, <4>2, SizeAssumption DEF Slot
    <3>3. CASE ~owned[hwPos]
      <4>1. Held = Place(hwPos)
        BY <3>3 DEF Held, Place
      <4> QED
        BY <1>1, <1>2, <2>2, <3>1, <4>1
    <3> QED
      BY <3>2, <3>3
  <2> QED
    BY <2>1, <2>2
<1>4. Held \in 0 .. Size
  BY HeldType
<1>5. ASSUME NEW s \in Slot PROVE owned'[s] <=> Place(s)' < Held'
  <2>1. owned[s] <=> Place(s) < Held
    BY DEF RxInv, HeldInv
  <2> QED
    BY <1>1, <1>2, <1>3, <1>4, <2>1, SizeAssumption DEF Slot
<1>6. \A s \in Slot : owned'[s] => content'[s] \in Piece
  BY DEF RxInv, HeldInv
<1> QED
  BY <1>2, <1>3, <1>5, <1>6 DEF HeldInv

(* All descriptors are given back.                                         *)
LEMMA EmptyRing ==
  ASSUME RxInv, rxIdx' = hwPos, \A s \in Slot : ~owned'[s], hwPos' = hwPos
  PROVE  HeldInv' /\ Held' = 0
<1>1. hwPos \in Slot /\ Dist(hwPos, hwPos) = 0
  BY Distances DEF RxInv, RingType
<1>2. Held' = 0
  BY <1>1 DEF Held
<1>3. \A s \in Slot : Place(s)' \in Slot
  BY <1>1, Distances DEF Place
<1> QED
  BY <1>1, <1>2, <1>3 DEF HeldInv, Slot

-----------------------------------------------------------------------------
(* The steps of RxInv.                                                     *)

(* Steps that leave the ring alone.                                        *)
LEMMA RingKept ==
  ASSUME RxInv, UNCHANGED <<rxRing, hwPos>>
  PROVE  /\ RingType' /\ HeldInv' /\ Held' = Held
         /\ \A s \in Slot : Place(s)' = Place(s)
BY DEF RxInv, RingType, HeldInv, Held, Place, rxRing

(* A new frame on the wire does not touch the ring.                        *)
LEMMA FrameBeginsInv == ASSUME RxInv, FrameBegins PROVE RxInv'
<1>1. UNCHANGED <<rxRing, hwPos, reading, pc>>
  BY DEF FrameBegins
<1>2. FrameType'
  <2>1. PICK n \in 1 .. MaxPieces :
          arriving' = [number |-> arrived + 1, length |-> n, done |-> 0]
    BY DEF FrameBegins
  <2>2. arrived + 1 \in 1 .. MaxFrames /\ arrived' = arrived + 1
    BY MaxFramesAssumption DEF RxInv, FrameType, FrameBegins
  <2>3. 0 \in 0 .. MaxPieces /\ 0 < n
    BY MaxPiecesAssumption
  <2>4. arriving' \in ArrivingFrame
    BY <2>1, <2>2, <2>3 DEF ArrivingFrame
  <2>5. arriving'.number = arrived' /\ arriving'.done < arriving'.length
    BY <2>1, <2>2, <2>3
  <2>6. UNCHANGED <<complete, delivered, cut, rec>> /\ arrived' \in 0 .. MaxFrames
    BY <2>2 DEF FrameBegins
  <2> QED
    BY <2>4, <2>5, <2>6 DEF RxInv, FrameType
<1>3. TaskType'
  BY DEF RxInv, TaskType, FrameBegins, reading
<1>4. GatherInv'
  BY <1>1, RingKept DEF RxInv, GatherInv, TaskType, rxRing, reading
<1> QED
  BY <1>1, <1>2, <1>3, <1>4, RingKept DEF RxInv

(* Nor does a frame that finds no free buffer.                             *)
LEMMA NoBufferInv == ASSUME RxInv, NoBuffer PROVE RxInv'
<1>1. UNCHANGED <<rxRing, hwPos, reading, pc>>
  BY DEF NoBuffer
<1>2. FrameType'
  BY DEF RxInv, FrameType, NoBuffer
<1>3. TaskType'
  BY DEF RxInv, TaskType, NoBuffer, reading
<1>4. GatherInv'
  BY <1>1, RingKept DEF RxInv, GatherInv, TaskType, rxRing, reading
<1> QED
  BY <1>1, <1>2, <1>3, <1>4, RingKept DEF RxInv

(* The interrupt handler only wakes the task.                              *)
LEMMA HandlerInv == ASSUME RxInv, Handler PROVE RxInv'
<1>1. UNCHANGED <<rxRing, hwPos, reading, pc>>
  BY DEF Handler, dma
<1>2. FrameType'
  BY DEF RxInv, FrameType, Handler, dma
<1>3. TaskType'
  BY DEF RxInv, TaskType, Handler, reading
<1>4. GatherInv'
  BY <1>1, RingKept DEF RxInv, GatherInv, TaskType, rxRing, reading
<1> QED
  BY <1>1, <1>2, <1>3, <1>4, RingKept DEF RxInv

(* The task outside of emac_dev_read.                                      *)
TaskStep ==
  SetRxCallback \/ NotifyStateClear \/ NotifyWait \/ Input \/ InputError \/ Wake

(* The task outside of emac_dev_read leaves the ring alone.                *)
LEMMA TaskStepInv == ASSUME RxInv, TaskStep PROVE RxInv'
<1>1. UNCHANGED <<rxRing, dma, rec, tmpIdx, isFrame>> /\ pc' # "gather"
  BY DEF TaskStep, SetRxCallback, NotifyStateClear, NotifyWait, Input,
     InputError, Wake, reading
<1>2. FrameType'
  <2>1. delivered' = delivered \/ delivered' = Append(delivered, copied)
    BY DEF TaskStep, SetRxCallback, NotifyStateClear, NotifyWait, Input,
       InputError, Wake
  <2>2. delivered' \in Seq(Seq(Piece))
    <3>1. delivered \in Seq(Seq(Piece)) /\ copied \in Seq(Piece)
      BY DEF RxInv, FrameType, TaskType
    <3> QED
      BY <2>1, <3>1
  <2> QED
    BY <1>1, <2>2 DEF RxInv, FrameType, dma
<1>3. TaskType'
  <2>1. copied' = copied \/ copied' = <<>>
    BY DEF TaskStep, SetRxCallback, NotifyStateClear, NotifyWait, Input,
       InputError, Wake, reading
  <2>2. copied' \in Seq(Piece) /\ Len(copied') <= Capacity
    <3>1. copied \in Seq(Piece) /\ Len(copied) <= Capacity
      BY DEF RxInv, TaskType
    <3>2. <<>> \in Seq(Piece) /\ Len(<<>>) <= Capacity
      BY CapacityAssumption
    <3> QED
      BY <2>1, <3>1, <3>2
  <2>3. /\ rxCb' \in BOOLEAN /\ notified' \in BOOLEAN
        /\ pc' \in {"read", "gather", "null", "clear", "wait", "ok", "error", "sleep"}
    BY DEF RxInv, TaskType, TaskStep, SetRxCallback, NotifyStateClear,
       NotifyWait, Input, InputError, Wake
  <2> QED
    BY <1>1, <2>2, <2>3 DEF RxInv, TaskType
<1>4. GatherInv'
  BY <1>1 DEF GatherInv
<1> QED
  BY <1>1, <1>2, <1>3, <1>4, RingKept DEF RxInv, dma

(* emac_dev_read begins its walk at us_rx_idx.                             *)
LEMMA ReadBeginInv == ASSUME RxInv, ReadBegin PROVE RxInv'
<1>1. UNCHANGED <<rxRing, hwPos>> /\ rxIdx \in Slot
  BY DEF ReadBegin, dma, RxInv, RingType
<1>2. FrameType'
  BY DEF RxInv, FrameType, ReadBegin, dma
<1>3. TaskType'
  <2>1. <<>> \in Seq(Piece) /\ Len(<<>>) <= Capacity
    BY CapacityAssumption
  <2> QED
    BY <1>1, <2>1 DEF RxInv, TaskType, ReadBegin
<1>4. GatherInv'
  <2>1. Place(rxIdx) = 0 /\ Held \in 0 .. Size /\ tmpIdx' = rxIdx
    BY <1>1, Distances, HeldType DEF Place, ReadBegin
  <2>2. Place(tmpIdx)' = 0 /\ Held' = Held /\ rxIdx' = rxIdx
    BY <1>1, <2>1, RingKept DEF rxRing
  <2> QED
    BY <2>1, <2>2 DEF GatherInv, ReadBegin
<1> QED
  BY <1>1, <1>2, <1>3, <1>4, RingKept DEF RxInv

(* The walk ends at a descriptor that the DMA still owns.                  *)
LEMMA GatherNoneInv == ASSUME RxInv, GatherNone PROVE RxInv'
<1>1. UNCHANGED <<rxRing, hwPos>>
  BY DEF GatherNone, dma
<1>2. FrameType'
  BY DEF RxInv, FrameType, GatherNone, dma
<1>3. TaskType'
  BY DEF RxInv, TaskType, GatherNone, reading
<1>4. GatherInv'
  BY DEF GatherInv, GatherNone
<1> QED
  BY <1>1, <1>2, <1>3, <1>4, RingKept DEF RxInv

(* The frame that is arriving.                                             *)
LEMMA ArrivingFacts ==
  ASSUME RxInv, arriving # NoFrame
  PROVE  /\ arriving.number \in 1 .. MaxFrames /\ arriving.length \in 1 .. MaxPieces
         /\ arriving.done \in Nat /\ arriving.done + 1 \in 1 .. arriving.length
         /\ arriving.number = arrived /\ arriving \in ArrivingFrame
BY DEF RxInv, FrameType, ArrivingFrame

(* The DMA fills the next descriptor.                                      *)
LEMMA PieceArrivesInv ==
  ASSUME RxInv, PieceArrives
  PROVE  /\ RxInv' /\ Held' = Held + 1 /\ Place(hwPos) = Held
         /\ \A s \in Slot : Place(s)' = Place(s)
<1> DEFINE i == arriving.done + 1
           last == i = arriving.length
<1>1. /\ arriving # NoFrame /\ ~owned[hwPos]
      /\ content' = [content EXCEPT ![hwPos] = <<arriving.number, i>>]
      /\ status' = [status EXCEPT ![hwPos] =
           [sof |-> i = 1, eof |-> last,
            length |-> IF last THEN arriving.length ELSE 0]]
      /\ arriving' = IF last THEN NoFrame ELSE [arriving EXCEPT !.done = i]
      /\ complete' = IF last /\ Fits(i) THEN Append(complete, Pieces(arriving))
                     ELSE complete
      /\ rec' = (rec \/ last)
      /\ owned' = [owned EXCEPT ![hwPos] = TRUE]
      /\ hwPos' = CircInc(hwPos)
      /\ UNCHANGED <<rxIdx, arrived, cut, reading, pc, rxCb, notified, delivered>>
  BY DEF PieceArrives
<1>2. /\ arriving.number \in 1 .. MaxFrames /\ arriving.length \in 1 .. MaxPieces
      /\ i \in 1 .. arriving.length /\ arriving.number = arrived
      /\ arriving \in ArrivingFrame /\ arriving.done \in Nat
  BY <1>1, ArrivingFacts
<1>3. rxIdx \in Slot /\ hwPos \in Slot /\ hwPos' \in Slot
  BY <1>1, Distances DEF RxInv, RingType
<1>4. RingType'
  <2>1. <<arriving.number, i>> \in Piece
    BY <1>2, MaxPiecesAssumption DEF Piece
  <2>2. [sof |-> i = 1, eof |-> last,
         length |-> IF last THEN arriving.length ELSE 0] \in Status
    BY <1>2, MaxPiecesAssumption DEF Status
  <2>3. owned' \in [Slot -> BOOLEAN] /\ rxIdx' \in Slot
    BY <1>1, <1>3 DEF RxInv, RingType
  <2>4. content' \in [Slot -> Piece \cup {<<0, 0>>}]
    BY <1>1, <2>1 DEF RxInv, RingType
  <2>5. status' \in [Slot -> Status]
    BY <1>1, <2>2 DEF RxInv, RingType
  <2> QED
    BY <1>3, <2>3, <2>4, <2>5 DEF RingType
<1>5. FrameType'
  <2>1. arriving' \in ArrivingFrame \cup {NoFrame}
    BY <1>1, <1>2, MaxPiecesAssumption DEF ArrivingFrame
  <2>2. arriving' # NoFrame => /\ arriving'.number = arrived'
                               /\ arriving'.done < arriving'.length
    <3> SUFFICES ASSUME ~last PROVE arriving'.number = arrived
                                    /\ arriving'.done < arriving'.length
      BY <1>1
    <3>1. arriving' = [arriving EXCEPT !.done = i]
      BY <1>1
    <3>2. /\ arriving'.number = arriving.number /\ arriving'.length = arriving.length
          /\ arriving'.done = i
      BY <1>2, <3>1
    <3> QED
      BY <1>2, <3>2
  <2>3. Pieces(arriving) \in Seq(Piece)
    <3>1. \A j \in 1 .. arriving.length : <<arriving.number, j>> \in Piece
      BY <1>2, MaxPiecesAssumption DEF Piece
    <3> QED
      BY <1>2, <3>1 DEF Pieces
  <2>4. complete' \in Seq(Seq(Piece))
    BY <1>1, <2>3 DEF RxInv, FrameType
  <2>5. /\ UNCHANGED <<arrived, delivered, cut>> /\ rec' \in BOOLEAN
    BY <1>1
  <2> QED
    BY <2>1, <2>2, <2>4, <2>5 DEF RxInv, FrameType
<1>6. TaskType'
  BY <1>1 DEF RxInv, TaskType, reading
<1>7. Place(hwPos) = Held
  BY <1>1 DEF Held, Place
<1>8. \A s \in Slot : Place(s)' = Place(s)
  BY <1>1 DEF Place
<1>9. \A s \in Slot : Place(s) \in Slot /\ (owned'[s] <=> owned[s] \/ s = hwPos)
  BY <1>1, <1>3, Distances DEF RxInv, RingType, Place
<1>10. Held' = Held + 1 /\ (owned'[hwPos'] => hwPos' = rxIdx)
  <2>1. CASE hwPos' = rxIdx
    <3>1. Place(hwPos) = Size - 1 /\ Place(rxIdx) = 0
      <4>1. CircInc(hwPos) = rxIdx
        BY <1>1, <2>1
      <4> QED
        BY <1>3, <4>1, Distances DEF Place
    <3>2. owned[rxIdx]
      BY <1>3, <1>7, <3>1, SizeAssumption DEF RxInv, HeldInv
    <3>3. Held' = Size
      BY <1>3, <1>9, <2>1, <3>2 DEF Held
    <3> QED
      BY <1>7, <2>1, <3>1, <3>3, SizeAssumption
  <2>2. CASE hwPos' # rxIdx
    <3>1. Place(hwPos') = Held + 1
      BY <1>1, <1>3, <1>7, <2>2, Distances DEF Place
    <3>2. ~owned'[hwPos']
      <4>1. Held \in Slot /\ (owned[hwPos'] <=> Place(hwPos') < Held)
        BY <1>3, <1>7, <1>9 DEF RxInv, HeldInv
      <4>2. ~owned[hwPos'] /\ hwPos' # hwPos
        <5>1. hwPos' # hwPos
          BY <1>1, <1>3, Distances
        <5> QED
          BY <3>1, <4>1, <5>1 DEF Slot
      <4> QED
        BY <1>3, <1>9, <4>2
    <3>3. Held' = Dist(rxIdx, hwPos')
      BY <1>1, <3>2 DEF Held
    <3> QED
      BY <3>1, <3>2, <3>3 DEF Place
  <2> QED
    BY <2>1, <2>2
<1>11. HeldInv'
  <2>1. ASSUME NEW s \in Slot PROVE owned'[s] <=> Place(s)' < Held'
    <3>1. (owned[s] <=> Place(s) < Held) /\ (s = hwPos <=> Place(s) = Held)
      BY <1>3, <1>7, Rebase DEF RxInv, HeldInv, Place
    <3>2. Held \in Slot /\ Place(s) \in Slot
      BY <1>3, <1>7, <1>9
    <3> QED
      BY <1>8, <1>9, <1>10, <3>1, <3>2 DEF Slot
  <2>2. \A s \in Slot : owned'[s] => content'[s] \in Piece
    <3>1. <<arriving.number, i>> \in Piece
      BY <1>2, MaxPiecesAssumption DEF Piece
    <3> QED
      BY <1>1, <1>3, <1>9, <3>1 DEF RxInv, RingType, HeldInv
  <2> QED
    BY <1>1, <1>10, <2>1, <2>2 DEF HeldInv
<1>12. GatherInv'
  <2>1. Place(tmpIdx)' = Place(tmpIdx) /\ tmpIdx \in Slot
    BY <1>1 DEF RxInv, TaskType, Place, reading
  <2>2. Place(tmpIdx) \in Slot /\ Held \in Slot
    BY <1>3, <1>7, <1>9, <2>1
  <2>3. UNCHANGED <<tmpIdx, isFrame, rxIdx, pc>>
    BY <1>1 DEF reading
  <2> QED
    BY <1>10, <2>1, <2>2, <2>3 DEF RxInv, GatherInv, Slot
<1> QED
  BY <1>4, <1>5, <1>6, <1>7, <1>8, <1>10, <1>11, <1>12 DEF RxInv

-----------------------------------------------------------------------------
(* emac_dev_read gives buffers back.                                       *)

(* Where emac_dev_read is.                                                 *)
LEMMA GatherFacts ==
  ASSUME RxInv, pc = "gather", owned[tmpIdx]
  PROVE  /\ rxIdx \in Slot /\ hwPos \in Slot /\ tmpIdx \in Slot
         /\ CircInc(tmpIdx) \in Slot /\ CircInc(tmpIdx) # tmpIdx
         /\ FirstIdx \in Slot /\ AfterSkip \in Slot /\ owned[AfterSkip]
         /\ Place(tmpIdx) \in Slot /\ Place(tmpIdx) < Held /\ Held \in 0 .. Size
         /\ Place(rxIdx) = 0
         /\ CircInc(tmpIdx) # rxIdx => Place(CircInc(tmpIdx)) = Place(tmpIdx) + 1
         /\ CircInc(tmpIdx) = rxIdx => /\ Place(tmpIdx) = Size - 1 /\ hwPos = rxIdx
                                       /\ FirstIdx # tmpIdx => FirstIdx = rxIdx
         /\ isFrame <=> tmpIdx # rxIdx
<1>1. /\ rxIdx \in Slot /\ hwPos \in Slot /\ tmpIdx \in Slot
      /\ CircInc(tmpIdx) \in Slot /\ CircInc(tmpIdx) # tmpIdx
      /\ FirstIdx \in Slot
      /\ Place(tmpIdx) \in Slot /\ Held \in 0 .. Size /\ Place(rxIdx) = 0
  BY Distances, HeldType DEF RxInv, RingType, TaskType, FirstIdx, Place
<1>2. Place(tmpIdx) < Held /\ (isFrame <=> tmpIdx # rxIdx)
  BY <1>1 DEF RxInv, HeldInv, GatherInv
<1>3. CircInc(tmpIdx) # rxIdx => Place(CircInc(tmpIdx)) = Place(tmpIdx) + 1
  BY <1>1, Distances DEF Place
<1>4. CircInc(tmpIdx) = rxIdx => Place(tmpIdx) = Size - 1 /\ hwPos = rxIdx
  <2> SUFFICES ASSUME CircInc(tmpIdx) = rxIdx
               PROVE  Place(tmpIdx) = Size - 1 /\ hwPos = rxIdx
    OBVIOUS
  <2>1. Place(tmpIdx) = Size - 1
    BY <1>1, Distances DEF Place
  <2>2. Held = Size
    BY <1>1, <1>2, <2>1, SizeAssumption
  <2>3. owned[hwPos]
    BY <1>1, <2>2, Distances DEF Held, Slot
  <2> QED
    BY <2>1, <2>3 DEF RxInv, HeldInv
<1>5. AfterSkip \in Slot /\ owned[AfterSkip]
  <2>1. CASE status[tmpIdx].sof /\ tmpIdx # rxIdx
    <3>1. AfterSkip = IF tmpIdx = 0 THEN Size - 1 ELSE tmpIdx - 1
      BY <2>1 DEF AfterSkip
    <3>2. AfterSkip \in Slot /\ Place(AfterSkip) = Place(tmpIdx) - 1
      BY <1>1, <2>1, <3>1, SizeAssumption DEF Place, Dist, Slot
    <3> QED
      BY <1>1, <1>2, <3>2 DEF RxInv, HeldInv, Slot
  <2>2. CASE ~(status[tmpIdx].sof /\ tmpIdx # rxIdx)
    BY <1>1, <2>2 DEF AfterSkip
  <2> QED
    BY <2>1, <2>2
<1> QED
  BY <1>1, <1>2, <1>3, <1>4, <1>5 DEF FirstIdx

(* A piece without a beginning is given back, and the walk is at           *)
(* us_rx_idx.                                                              *)
LEMMA GatherSkipInv ==
  ASSUME RxInv, GatherSkip
  PROVE  /\ RxInv' /\ rxIdx = tmpIdx /\ Held' = Held - 1
         /\ \A s \in Slot : /\ owned'[s] <=> owned[s] /\ s # rxIdx
                            /\ s # rxIdx => Place(s)' = Place(s) - 1
<1>1. /\ pc = "gather" /\ owned[tmpIdx] /\ ~isFrame
      /\ owned' = [owned EXCEPT ![tmpIdx] = FALSE]
      /\ rxIdx' = CircInc(tmpIdx) /\ tmpIdx' = CircInc(tmpIdx)
      /\ UNCHANGED <<status, content, dma, rec, isFrame, copied, pc, rxCb, notified,
                     delivered>>
  BY DEF GatherSkip
<1>2. rxIdx = tmpIdx /\ rxIdx \in Slot /\ CircInc(rxIdx) \in Slot
      /\ Place(rxIdx) = 0 /\ Held \in 1 .. Size /\ Place(CircInc(rxIdx)) = 1
      /\ CircInc(rxIdx) # rxIdx
  BY <1>1, GatherFacts
<1>3. ASSUME NEW s \in Slot
      PROVE  /\ Place(s) \in Slot /\ (s # rxIdx <=> Place(s) >= 1)
             /\ owned'[s] <=> owned[s] /\ s # rxIdx
  <2>1. Place(s) \in Slot /\ (Place(s) = 0 <=> s = rxIdx)
    BY <1>2, Distances DEF Place
  <2>2. s # rxIdx <=> Place(s) >= 1
    BY <2>1 DEF Slot
  <2>3. owned'[s] <=> owned[s] /\ s # rxIdx
    BY <1>1, <1>2 DEF RxInv, RingType
  <2> QED
    BY <2>1, <2>2, <2>3
<1>4. owned' \in [Slot -> BOOLEAN] /\ UNCHANGED <<hwPos, content>>
  BY <1>1 DEF RxInv, RingType, dma
<1>5. HeldInv' /\ Held' = Held - 1 /\ \A s \in Slot : s # rxIdx => Place(s)' = Place(s) - 1
  BY <1>1, <1>2, <1>3, <1>4, ShiftRing
<1>6. RingType'
  BY <1>1, <1>2, <1>4 DEF RxInv, RingType
<1>7. FrameType'
  BY <1>1 DEF RxInv, FrameType, dma
<1>8. TaskType'
  BY <1>1, <1>2 DEF RxInv, TaskType
<1>9. GatherInv'
  <2>1. Place(tmpIdx)' = 0
    BY <1>1, <1>2, Distances DEF Place
  <2> QED
    BY <1>1, <1>2, <1>5, <2>1 DEF GatherInv
<1> QED
  BY <1>2, <1>3, <1>5, <1>6, <1>7, <1>8, <1>9 DEF RxInv

(* A frame that fills the ring to the last descriptor empties it.          *)
LEMMA GatherWholeInv ==
  ASSUME RxInv, GatherWhole
  PROVE  /\ RxInv' /\ Held' = 0 /\ FirstIdx = rxIdx /\ Place(tmpIdx) = Size - 1
         /\ \A s \in Slot : ~owned'[s]
<1>1. /\ pc = "gather" /\ owned[tmpIdx] /\ CircInc(tmpIdx) = FirstIdx
      /\ owned' = [s \in Slot |-> owned[s] /\ s \notin Slot]
      /\ rxIdx' = FirstIdx /\ pc' = "null"
      /\ UNCHANGED <<status, content, dma, rec, reading, rxCb, notified, delivered>>
  BY DEF GatherWhole, Free
<1>2. FirstIdx = rxIdx /\ rxIdx \in Slot /\ Place(tmpIdx) = Size - 1 /\ hwPos = rxIdx
  BY <1>1, GatherFacts DEF FirstIdx
<1>3. (\A s \in Slot : ~owned'[s]) /\ owned' \in [Slot -> BOOLEAN]
  BY <1>1
<1>4. HeldInv' /\ Held' = 0
  BY <1>1, <1>2, <1>3, EmptyRing DEF dma
<1>5. RingType'
  BY <1>1, <1>2, <1>3 DEF RxInv, RingType, dma
<1>6. FrameType'
  BY <1>1 DEF RxInv, FrameType, dma
<1>7. TaskType'
  BY <1>1 DEF RxInv, TaskType, reading
<1>8. GatherInv'
  BY <1>1 DEF GatherInv
<1> QED
  BY <1>2, <1>3, <1>4, <1>5, <1>6, <1>7, <1>8 DEF RxInv

(* pc_buf is not overrun.                                                  *)
LEMMA CollectedType ==
  ASSUME RxInv, pc = "gather", owned[tmpIdx]
  PROVE  Collected \in Seq(Piece) /\ Len(Collected) <= Capacity
<1>1. content[AfterSkip] \in Piece
  BY GatherFacts DEF RxInv, HeldInv
<1> DEFINE c == IF status[tmpIdx].sof THEN <<>> ELSE copied
<1>2. c \in Seq(Piece) /\ Len(c) \in Nat /\ Len(c) <= Capacity
  <2>1. copied \in Seq(Piece) /\ Len(copied) <= Capacity
    BY DEF RxInv, TaskType
  <2>2. <<>> \in Seq(Piece) /\ Len(<<>>) <= Capacity
    BY CapacityAssumption
  <2> QED
    BY <2>1, <2>2
<1>3. Collected = IF Len(c) < Capacity THEN Append(c, content[AfterSkip]) ELSE c
  BY DEF Collected
<1> HIDE DEF c
<1> QED
  BY <1>1, <1>2, <1>3, CapacityAssumption

(* A piece in the middle is copied; the pieces before a new beginning are  *)
(* given back.                                                             *)
LEMMA GatherPieceInv ==
  ASSUME RxInv, GatherPiece
  PROVE  /\ RxInv' /\ Held' = Held - Place(FirstIdx)
         /\ \A s \in Slot :
              /\ owned'[s] <=> owned[s] /\ Place(s) >= Place(FirstIdx)
              /\ Place(s) >= Place(FirstIdx) => Place(s)' = Place(s) - Place(FirstIdx)
         /\ Place(tmpIdx)' = Place(tmpIdx) - Place(FirstIdx) + 1
<1>1. /\ pc = "gather" /\ owned[tmpIdx] /\ CircInc(tmpIdx) # FirstIdx
      /\ owned' = [s \in Slot |-> owned[s] /\ s \notin Between(rxIdx, FirstIdx, FALSE)]
      /\ rxIdx' = FirstIdx /\ tmpIdx' = CircInc(tmpIdx) /\ isFrame' = TRUE
      /\ copied' = Collected
      /\ UNCHANGED <<status, content, dma, rec, pc, rxCb, notified, delivered>>
  BY DEF GatherPiece, Free
<1>2. /\ rxIdx \in Slot /\ tmpIdx \in Slot /\ FirstIdx \in Slot
      /\ CircInc(tmpIdx) \in Slot /\ Place(tmpIdx) \in Slot
      /\ Place(tmpIdx) < Held /\ Held \in 0 .. Size
  BY <1>1, GatherFacts
<1>3. ASSUME NEW s \in Slot
      PROVE  /\ Place(s) \in Slot
             /\ owned'[s] <=> owned[s] /\ Place(s) >= Place(FirstIdx)
  <2>1. Place(s) \in Slot /\ Place(FirstIdx) \in Slot
    BY <1>2, Distances DEF Place
  <2>2. s \in Between(rxIdx, FirstIdx, FALSE) <=> Place(s) < Place(FirstIdx)
    BY <1>2, BetweenPlaces DEF Place
  <2>3. owned'[s] <=> owned[s] /\ s \notin Between(rxIdx, FirstIdx, FALSE)
    BY <1>1
  <2>4. ~(Place(s) < Place(FirstIdx)) <=> Place(s) >= Place(FirstIdx)
    BY <2>1 DEF Slot
  <2> QED
    BY <2>1, <2>2, <2>3, <2>4, Zenon
<1>4. Place(FirstIdx) <= Place(tmpIdx) /\ Place(FirstIdx) <= Held
      /\ Place(FirstIdx) \in Slot
  BY <1>1, <1>2, GatherFacts, SizeAssumption DEF FirstIdx, Slot
<1>5. owned' \in [Slot -> BOOLEAN] /\ UNCHANGED <<hwPos, content>>
  BY <1>1 DEF dma
<1>6. /\ HeldInv' /\ Held' = Held - Place(FirstIdx)
      /\ \A s \in Slot : Place(s) >= Place(FirstIdx) =>
                           Place(s)' = Place(s) - Place(FirstIdx)
  BY <1>1, <1>2, <1>3, <1>4, <1>5, ShiftRing
<1>7. RingType'
  BY <1>1, <1>2, <1>5 DEF RxInv, RingType
<1>8. FrameType'
  BY <1>1 DEF RxInv, FrameType, dma
<1>9. TaskType'
  BY <1>1, <1>2, CollectedType DEF RxInv, TaskType
<1>10. Place(tmpIdx)' = Place(tmpIdx) - Place(FirstIdx) + 1
  <2>1. Place(tmpIdx)' = Dist(FirstIdx, CircInc(tmpIdx))
    BY <1>1 DEF Place
  <2>2. Dist(FirstIdx, CircInc(tmpIdx)) = Dist(FirstIdx, tmpIdx) + 1
    BY <1>1, <1>2, Distances
  <2>3. Dist(FirstIdx, tmpIdx) = Place(tmpIdx) - Place(FirstIdx)
    BY <1>2, <1>4, Rebase DEF Place
  <2> QED
    BY <2>1, <2>2, <2>3
<1>11. GatherInv'
  BY <1>1, <1>2, <1>4, <1>6, <1>10 DEF GatherInv, Slot
<1> QED
  BY <1>3, <1>6, <1>7, <1>8, <1>9, <1>10, <1>11 DEF RxInv

(* The last piece is copied and all pieces of the frame are given back.    *)
LEMMA GatherLastInv ==
  ASSUME RxInv, GatherLast
  PROVE  /\ RxInv'
         /\ CircInc(tmpIdx) # rxIdx =>
              /\ Held' = Held - Place(tmpIdx) - 1
              /\ \A s \in Slot :
                   /\ owned'[s] <=> owned[s] /\ Place(s) > Place(tmpIdx)
                   /\ Place(s) > Place(tmpIdx) =>
                        Place(s)' = Place(s) - Place(tmpIdx) - 1
<1> DEFINE n == status[AfterSkip].length
<1>1. /\ pc = "gather" /\ owned[tmpIdx] /\ CircInc(tmpIdx) # FirstIdx
      /\ owned' = [s \in Slot |->
           owned[s] /\ s \notin Between(rxIdx, tmpIdx, FALSE) \cup {tmpIdx}]
      /\ rxIdx' = CircInc(tmpIdx)
      /\ IF Len(Collected) < n
         THEN pc' = "error" /\ UNCHANGED copied
         ELSE pc' = "ok" /\ copied' = SubSeq(Collected, 1, n)
      /\ UNCHANGED <<status, content, dma, rec, tmpIdx, isFrame, rxCb, notified,
                     delivered>>
  BY DEF GatherLast, Free
<1>2. /\ rxIdx \in Slot /\ tmpIdx \in Slot /\ CircInc(tmpIdx) \in Slot
      /\ Place(tmpIdx) \in Slot /\ Place(tmpIdx) < Held /\ Held \in 0 .. Size
  BY <1>1, GatherFacts
<1>3. ASSUME NEW s \in Slot
      PROVE  /\ Place(s) \in Slot
             /\ owned'[s] <=> owned[s] /\ Place(s) > Place(tmpIdx)
  <2>1. Place(s) \in Slot /\ (s = tmpIdx <=> Place(s) = Place(tmpIdx))
    <3>1. Place(s) = Place(tmpIdx) => s = tmpIdx
      BY <1>2, Rebase DEF Place
    <3>2. Place(s) \in Slot
      BY <1>2, Distances DEF Place
    <3> QED
      BY <3>1, <3>2
  <2>2. s \in Between(rxIdx, tmpIdx, FALSE) <=> Place(s) < Place(tmpIdx)
    BY <1>2, BetweenPlaces DEF Place
  <2>3. owned'[s] <=> /\ owned[s] /\ s \notin Between(rxIdx, tmpIdx, FALSE)
                      /\ s # tmpIdx
    BY <1>1
  <2>4. Place(s) > Place(tmpIdx) <=> /\ ~(Place(s) < Place(tmpIdx))
                                     /\ Place(s) # Place(tmpIdx)
    BY <1>2, <2>1 DEF Slot
  <2> QED
    BY <2>1, <2>2, <2>3, <2>4, Zenon
<1>4. owned' \in [Slot -> BOOLEAN] /\ UNCHANGED <<hwPos, content>>
  BY <1>1 DEF dma
<1>5. ASSUME CircInc(tmpIdx) # rxIdx
      PROVE  /\ HeldInv' /\ Held' = Held - Place(tmpIdx) - 1
             /\ \A s \in Slot : Place(s) > Place(tmpIdx) =>
                                  Place(s)' = Place(s) - Place(tmpIdx) - 1
  <2>1. Place(CircInc(tmpIdx)) = Place(tmpIdx) + 1
    BY <1>1, <1>5, GatherFacts
  <2>2. Place(CircInc(tmpIdx)) <= Held
    BY <1>2, <2>1 DEF Slot
  <2>3. \A s \in Slot : /\ owned'[s] <=> owned[s] /\ Place(s) >= Place(CircInc(tmpIdx))
                        /\ Place(s) > Place(tmpIdx) <=> Place(s) >= Place(CircInc(tmpIdx))
    BY <1>2, <1>3, <2>1 DEF Slot
  <2>4. /\ HeldInv' /\ Held' = Held - Place(CircInc(tmpIdx))
        /\ \A s \in Slot : Place(s) >= Place(CircInc(tmpIdx)) =>
                             Place(s)' = Place(s) - Place(CircInc(tmpIdx))
    BY <1>1, <1>2, <1>4, <2>2, <2>3, ShiftRing
  <2> QED
    BY <1>2, <1>3, <2>1, <2>3, <2>4 DEF Slot
<1>6. ASSUME CircInc(tmpIdx) = rxIdx PROVE HeldInv'
  <2>1. Place(tmpIdx) = Size - 1 /\ hwPos = rxIdx
    BY <1>1, <1>6, GatherFacts
  <2>2. \A s \in Slot : ~owned'[s]
    BY <1>3, <2>1, SizeAssumption DEF Slot
  <2> QED
    BY <1>1, <1>4, <1>6, <2>1, <2>2, EmptyRing
<1>7. RingType'
  BY <1>1, <1>2, <1>4 DEF RxInv, RingType
<1>8. FrameType'
  BY <1>1 DEF RxInv, FrameType, dma
<1>9. TaskType'
  <2>1. n \in 0 .. MaxPieces
    BY <1>1, GatherFacts DEF RxInv, RingType, Status
  <2>2. copied' \in Seq(Piece) /\ Len(copied') <= Capacity
    <3>1. CASE Len(Collected) < n
      BY <1>1, <3>1 DEF RxInv, TaskType
    <3>2. CASE ~(Len(Collected) < n)
      <4>1. Collected \in Seq(Piece) /\ Len(Collected) <= Capacity
        BY <1>1, CollectedType
      <4>2. copied' = SubSeq(Collected, 1, n) /\ n \in 0 .. Len(Collected)
        BY <1>1, <2>1, <3>2, <4>1
      <4>3. copied' \in Seq(Piece) /\ Len(copied') = n
        BY <4>1, <4>2
      <4> QED
        BY <2>1, <4>1, <4>2, <4>3, CapacityAssumption
    <3> QED
      BY <3>1, <3>2
  <2>3. pc' \in {"error", "ok"}
    BY <1>1
  <2> QED
    BY <1>1, <2>2, <2>3 DEF RxInv, TaskType
<1>10. GatherInv'
  BY <1>1 DEF GatherInv
<1> QED
  BY <1>3, <1>5, <1>6, <1>7, <1>8, <1>9, <1>10 DEF RxInv

-----------------------------------------------------------------------------

(* emac_reset_rx_mem gives all descriptors to the DMA.                     *)
LEMMA InitRxInv == Init => RxInv
<1> SUFFICES ASSUME Init PROVE RxInv
  OBVIOUS
<1>1. 0 \in Slot
  BY SizeAssumption DEF Slot
<1>2. RingType
  BY <1>1, MaxPiecesAssumption DEF Init, RingType, Status
<1>3. FrameType
  <2>1. \A S : <<>> \in Seq(S)
    OBVIOUS
  <2>2. complete \in Seq(Seq(Piece)) /\ delivered \in Seq(Seq(Piece))
    BY <2>1, Zenon DEF Init
  <2>3. arriving = NoFrame /\ arrived \in 0 .. MaxFrames
    BY MaxFramesAssumption DEF Init
  <2>4. cut \in BOOLEAN /\ rec \in BOOLEAN
    BY DEF Init
  <2> QED
    BY <2>2, <2>3, <2>4 DEF FrameType
<1>4. TaskType
  <2>1. <<>> \in Seq(Piece) /\ Len(<<>>) <= Capacity
    BY CapacityAssumption
  <2> QED
    BY <1>1, <2>1 DEF Init, TaskType
<1>5. HeldInv
  <2>1. Held = 0
    BY <1>1, Distances DEF Init, Held
  <2>2. \A s \in Slot : Place(s) \in Slot /\ ~owned[s]
    BY <1>1, Distances DEF Init, Place
  <2> QED
    BY <1>1, <2>1, <2>2 DEF Init, HeldInv, Slot
<1>6. GatherInv
  BY DEF Init, GatherInv
<1> QED
  BY <1>2, <1>3, <1>4, <1>5, <1>6 DEF RxInv

(* Every step of the DMA, the handler and the task keeps the invariant.    *)
LEMMA RxInvStep == RxInv /\ [Next]_vars => RxInv'
<1> SUFFICES ASSUME RxInv, [Next]_vars PROVE RxInv'
  OBVIOUS
<1>1. CASE UNCHANGED vars
  <2>1. UNCHANGED <<rxRing, hwPos, reading, pc>>
    BY <1>1 DEF vars, dma
  <2>2. FrameType' /\ TaskType'
    BY <1>1 DEF RxInv, FrameType, TaskType, vars, dma, reading
  <2>3. GatherInv'
    BY <2>1, RingKept DEF RxInv, GatherInv, TaskType, rxRing, reading
  <2> QED
    BY <2>1, <2>2, <2>3, RingKept DEF RxInv
<1> QED
  BY <1>1, FrameBeginsInv, PieceArrivesInv, NoBufferInv, HandlerInv,
     ReadBeginInv, GatherNoneInv, GatherSkipInv, GatherWholeInv,
     GatherPieceInv, GatherLastInv, TaskStepInv DEF Next, Ethint, DevRead,
     TaskStep

(* It holds in every behaviour.                                            *)
LEMMA RxInvIsInvariant == Spec => []RxInv
BY InitRxInv, RxInvStep, PTL DEF Spec

(* It says what OwnedInOrder says.                                         *)
LEMMA RxInvInOrder == RxInv => OwnedInOrder
<1> SUFFICES ASSUME RxInv
             PROVE {s \in Slot : owned[s]} = Between(rxIdx, hwPos, owned[hwPos])
  BY DEF RxInv, OwnedInOrder, TypeOK
<1>1. rxIdx \in Slot /\ hwPos \in Slot
  BY DEF RxInv, RingType
<1>2. ASSUME NEW s \in Slot
      PROVE  owned[s] <=> s \in Between(rxIdx, hwPos, owned[hwPos])
  <2>1. Place(s) \in Slot /\ (owned[s] <=> Place(s) < Held)
    BY <1>1, Distances DEF RxInv, HeldInv, Place
  <2>2. CASE owned[hwPos]
    BY <1>1, <2>1, <2>2, SizeAssumption DEF RxInv, HeldInv, Held, Between,
       Slot
  <2>3. CASE ~owned[hwPos]
    <3>1. owned[s] <=> Dist(rxIdx, s) < Dist(rxIdx, hwPos)
      BY <2>1, <2>3 DEF Held, Place
    <3>2. owned[s] <=> s \in Between(rxIdx, hwPos, FALSE)
      BY <1>1, <3>1, BetweenPlaces
    <3>3. Between(rxIdx, hwPos, FALSE) = Between(rxIdx, hwPos, owned[hwPos])
      BY <2>3 DEF Between
    <3> QED
      BY <3>2, <3>3
  <2> QED
    BY <2>2, <2>3
<1>3. Between(rxIdx, hwPos, owned[hwPos]) \subseteq Slot
  BY DEF Between
<1> QED
  BY <1>2, <1>3

(* OwnedInOrder: in a ring of any size, the descriptors that software owns *)
(* are exactly those from us_rx_idx up to the DMA's position, whatever     *)
(* emac_dev_read gives back and however it meets the DMA: none is lost to  *)
(* both, none is read twice.                                               *)
THEOREM BuffersInOrder == Spec => []OwnedInOrder
BY RxInvIsInvariant, RxInvInOrder, PTL

-----------------------------------------------------------------------------
(* The stream of pieces.                                                   *)

(* What an owned descriptor holds.                                         *)
LEMMA PieceFacts ==
  ASSUME RxInv, NEW s \in Slot, owned[s]
  PROVE  /\ Number(s) \in 1 .. MaxFrames /\ Part(s) \in 1 .. MaxPieces
         /\ content[s] = <<Number(s), Part(s)>>
         /\ Place(s) \in Slot /\ Place(s) < Held /\ Held \in 0 .. Size
<1>1. content[s] \in Piece /\ Place(s) < Held
  BY DEF RxInv, HeldInv
<1>2. Place(s) \in Slot
  BY Distances DEF RxInv, RingType, Place
<1> QED
  BY <1>1, <1>2, HeldType DEF Number, Part, Piece

(* The next piece has a number and a part.                                 *)
LEMMA NextFacts == ASSUME RxInv PROVE NextNumber \in Nat /\ NextPart \in Nat \ {0}
<1>1. arrived \in Nat
  BY DEF RxInv, FrameType
<1>2. CASE arriving = NoFrame
  BY <1>1, <1>2 DEF NextNumber, NextPart
<1>3. CASE arriving # NoFrame
  BY <1>1, <1>3, ArrivingFacts DEF NextNumber, NextPart
<1> QED
  BY <1>2, <1>3

(* Steps that leave the ring and the reader's frames alone.                *)
LEMMA SameRing ==
  ASSUME RxInv, StreamInv, UNCHANGED <<rxRing, hwPos, complete>>, Done' = Done,
         NextNumber' \in Nat, NextNumber' >= NextNumber, NextPart' = NextPart,
         NextNumber' = NextNumber \/ NextPart = 1,
         CopyInv'
  PROVE  StreamInv'
<1>1. /\ Held' = Held /\ \A s \in Slot : Place(s)' = Place(s)
      /\ UNCHANGED <<owned, status, content, rxIdx>>
  BY RingKept DEF rxRing
<1>2. StatusInv'
  BY <1>1 DEF StreamInv, StatusInv, Part
<1>3. OrderInv'
  <2>1. ASSUME NEW s \in Slot, owned'[s]
        PROVE  Follows(s, NextNumber, NextPart, Held - Place(s))'
    <3>1. Follows(s, NextNumber, NextPart, Held - Place(s)) /\ owned[s]
      BY <1>1, <2>1 DEF StreamInv, OrderInv
    <3>2. /\ Number(s) \in Nat /\ Part(s) \in Nat \ {0} /\ Held \in Nat
          /\ Place(s) \in Nat /\ Held - Place(s) > 0
      BY <3>1, PieceFacts DEF Slot
    <3>3. UNCHANGED <<Number(s), Part(s), status[s], Held, Place(s)>>
      BY <1>1 DEF Number, Part
    <3> QED
      BY <3>1, <3>2, <3>3, NextFacts DEF Follows
  <2>2. \A s, t \in Slot : owned'[s] /\ owned'[t] /\ Place(s)' < Place(t)' =>
          Follows(s, Number(t), Part(t), Place(t) - Place(s))'
    BY <1>1 DEF StreamInv, OrderInv, Follows, Number, Part
  <2> QED
    BY <2>1, <2>2 DEF OrderInv
<1>4. HeadInv'
  BY <1>1 DEF StreamInv, HeadInv, Part
<1>5. CompleteInv'
  <2>1. \A k \in 1 .. Len(complete) : Len(complete[k]) > 0 => complete[k][1][1] \in Nat
    <3> SUFFICES ASSUME NEW k \in 1 .. Len(complete), Len(complete[k]) > 0
                 PROVE  complete[k][1][1] \in Nat
      OBVIOUS
    <3>1. complete[k] \in Seq(Piece)
      BY DEF RxInv, FrameType
    <3>2. complete[k][1] \in Piece
      BY <3>1
    <3> QED
      BY <3>2 DEF Piece
  <2>2. ASSUME NEW k \in 1 .. Len(complete)
        PROVE  /\ Len(complete[k]) > 0 /\ Fits(Len(complete[k]))
               /\ complete[k][1][1] < NextNumber'
    <3>1. /\ Len(complete[k]) > 0 /\ Fits(Len(complete[k]))
          /\ complete[k][1][1] < NextNumber
      BY DEF StreamInv, CompleteInv
    <3> QED
      BY <2>1, <3>1, NextFacts
  <2>3. complete' = complete
    OBVIOUS
  <2> QED
    BY <2>2, <2>3 DEF StreamInv, CompleteInv
<1>6. MatchInv'
  BY <1>1 DEF StreamInv, MatchInv, Number, Part
<1> QED
  BY <1>2, <1>3, <1>4, <1>5, <1>6 DEF StreamInv

(* The first m descriptors are given back: what is left is in order.       *)
LEMMA PopOrder ==
  ASSUME RxInv, StatusInv, OrderInv, NEW m \in 1 .. Size, m <= Held, Held' = Held - m,
         UNCHANGED <<status, content, arriving, arrived>>,
         \A s \in Slot : /\ owned'[s] <=> owned[s] /\ Place(s) >= m
                         /\ Place(s) >= m => Place(s)' = Place(s) - m
  PROVE  StatusInv' /\ OrderInv'
<1>1. \A s \in Slot : UNCHANGED <<Number(s), Part(s), status[s]>>
  BY DEF Number, Part
<1>2. UNCHANGED <<NextNumber, NextPart>>
  BY DEF NextNumber, NextPart
<1>3. \A s \in Slot : owned'[s] =>
        /\ owned[s] /\ Place(s)' = Place(s) - m
        /\ Held \in Int /\ Place(s) \in Int
  BY PieceFacts DEF Slot
<1>4. StatusInv'
  BY <1>1, <1>3 DEF StatusInv
<1>5. ASSUME NEW s \in Slot, owned'[s]
      PROVE  Follows(s, NextNumber, NextPart, Held - Place(s))'
  <2>1. Follows(s, NextNumber, NextPart, Held - Place(s))
    BY <1>3, <1>5 DEF OrderInv
  <2>2. (Held - Place(s))' = Held - Place(s)
    BY <1>3, <1>5
  <2> QED
    BY <1>1, <1>2, <2>1, <2>2 DEF Follows
<1>6. ASSUME NEW s \in Slot, NEW t \in Slot, owned'[s], owned'[t], Place(s)' < Place(t)'
      PROVE  Follows(s, Number(t), Part(t), Place(t) - Place(s))'
  <2>1. Place(s) < Place(t) /\ (Place(t) - Place(s))' = Place(t) - Place(s)
    BY <1>3, <1>6
  <2>2. Follows(s, Number(t), Part(t), Place(t) - Place(s))
    BY <1>3, <1>6, <2>1 DEF OrderInv
  <2> QED
    BY <1>1, <2>1, <2>2 DEF Follows
<1> QED
  BY <1>4, <1>5, <1>6 DEF OrderInv

(* The next piece begins a frame, unless its frame is too long.            *)
LEMMA PopHead ==
  ASSUME RxInv, OrderInv, NEW m \in 1 .. Size, m <= Held, Held' = Held - m,
         UNCHANGED <<status, content, arriving, arrived>>, rxIdx' \in Slot,
         \A s \in Slot : /\ owned'[s] <=> owned[s] /\ Place(s) >= m
                         /\ Place(s) >= m => Place(s)' = Place(s) - m,
         NEW l \in Slot, owned[l], Place(l) = m - 1, status[l].eof \/ Part(l) >= Size
  PROVE  HeadInv'
<1>1. Number(l) \in Nat /\ Part(l) \in Nat /\ Place(l) \in Nat /\ Held \in Nat
  BY PieceFacts
<1>2. ASSUME NEW n, NEW p \in Nat \ {0}, Follows(l, n, p, 1)
      PROVE  p = 1 \/ p > Size
  BY <1>1, <1>2, SizeAssumption DEF Follows
<1>3. ASSUME owned'[rxIdx'] PROVE Part(rxIdx)' = 1 \/ Part(rxIdx)' > Size
  <2>1. PICK t \in Slot : t = rxIdx'
    OBVIOUS
  <2>2. owned[t] /\ Place(t) >= m /\ Place(t)' = Place(t) - m /\ Place(t)' = 0
    <3>1. Place(t)' = Dist(t, t)
      BY <2>1 DEF Place
    <3> QED
      BY <1>3, <2>1, <3>1, Distances
  <2>3. Place(t) \in Nat /\ Number(t) \in Nat /\ Part(t) \in Nat \ {0}
    BY <2>2, PieceFacts DEF Slot
  <2>4. Place(t) - Place(l) = 1 /\ Place(l) < Place(t)
    BY <1>1, <2>2, <2>3
  <2>5. Follows(l, Number(t), Part(t), 1)
    BY <2>2, <2>4 DEF OrderInv
  <2>6. Part(rxIdx)' = Part(t)
    BY <2>1 DEF Part
  <2> QED
    BY <1>2, <2>3, <2>5, <2>6
<1>4. ASSUME Held' = 0 PROVE NextPart' = 1 \/ NextPart' > Size
  <2>1. Held - Place(l) = 1
    BY <1>1, <1>4
  <2>2. Follows(l, NextNumber, NextPart, 1)
    BY <2>1 DEF OrderInv
  <2> QED
    BY <1>2, <2>2, NextFacts DEF NextPart
<1> QED
  BY <1>3, <1>4 DEF HeadInv

(* Pieces that are given back without a complete frame that fits.          *)
LEMMA DropMatch ==
  ASSUME RxInv, StreamInv, NEW m \in 1 .. Size,
         UNCHANGED <<status, content, complete>>, Done' = Done,
         \A s \in Slot : owned'[s] <=> owned[s] /\ Place(s) >= m,
         \A s \in Slot : owned[s] /\ Place(s) < m /\ status[s].eof => ~Fits(Part(s))
  PROVE  MatchInv'
<1>1. \A s \in Slot : UNCHANGED <<Number(s), Part(s), status[s]>>
  BY DEF Number, Part
<1>2. ASSUME NEW k \in Len(Done) + 1 .. Len(complete)
      PROVE  \E s \in Slot : /\ owned'[s] /\ status[s].eof
                             /\ Number(s) = complete[k][1][1]
                             /\ Part(s) = Len(complete[k])
  <2>1. PICK s \in Slot : /\ owned[s] /\ status[s].eof
                          /\ Number(s) = complete[k][1][1] /\ Part(s) = Len(complete[k])
    BY <1>2 DEF StreamInv, MatchInv
  <2>2. Len(Done) \in Nat
    OBVIOUS
  <2>3. Fits(Part(s))
    BY <2>1, <2>2 DEF StreamInv, CompleteInv
  <2>4. Place(s) >= m
    BY <2>1, <2>3, PieceFacts DEF Slot
  <2> QED
    BY <2>1, <2>4
<1>3. complete' = complete /\ Done' = Done
  OBVIOUS
<1>4. Len(Done) <= Len(complete) /\ \A k \in 1 .. Len(Done) : Done[k] = complete[k]
  BY DEF StreamInv, MatchInv
<1>5. ASSUME NEW s \in Slot, owned'[s], status[s].eof, Fits(Part(s))
      PROVE  \E k \in Len(Done) + 1 .. Len(complete) :
               complete[k] = FrameOf(Number(s), Part(s))
  BY <1>5 DEF StreamInv, MatchInv
<1> QED
  BY <1>1, <1>2, <1>3, <1>4, <1>5 DEF MatchInv

-----------------------------------------------------------------------------
(* The steps of StreamInv.                                                 *)

(* A new frame begins behind all that is in the ring.                      *)
LEMMA FrameBeginsStream ==
  ASSUME RxInv, StreamInv, FrameBegins PROVE StreamInv'
<1>1. /\ UNCHANGED <<rxRing, hwPos, complete>> /\ UNCHANGED <<reading, pc, delivered>>
      /\ arriving = NoFrame
  BY DEF FrameBegins
<1>2. UNCHANGED <<NextNumber, NextPart>>
  <2>1. PICK n \in 1 .. MaxPieces :
          arriving' = [number |-> arrived + 1, length |-> n, done |-> 0]
    BY DEF FrameBegins
  <2>2. arriving'.length # 0 /\ NoFrame.length = 0
    BY <2>1 DEF NoFrame
  <2>3. arriving' # NoFrame
    BY <2>2
  <2> QED
    BY <1>1, <2>1, <2>3 DEF NextNumber, NextPart
<1>3. Done' = Done /\ CopyInv'
  BY <1>1 DEF Done, StreamInv, CopyInv, Place, Number, Part, rxRing, reading
<1> QED
  BY <1>1, <1>2, <1>3, SameRing, NextFacts

(* A frame that finds no buffer for its first piece leaves no trace.       *)
LEMMA NoBufferStream ==
  ASSUME RxInv, StreamInv, NoBuffer, ~cut' PROVE StreamInv'
<1>1. /\ UNCHANGED <<rxRing, hwPos, complete>> /\ UNCHANGED <<reading, pc, delivered>>
      /\ arriving # NoFrame /\ arriving' = NoFrame /\ arrived' = arrived
      /\ ~(arriving.done > 0)
  BY DEF NoBuffer
<1>2. arriving.done = 0 /\ arriving.number = arrived /\ arrived \in Nat
  BY <1>1, ArrivingFacts
<1>3. NextNumber' = NextNumber + 1 /\ NextPart' = 1 /\ NextPart = 1
  BY <1>1, <1>2 DEF NextNumber, NextPart
<1>4. Done' = Done /\ CopyInv'
  BY <1>1 DEF Done, StreamInv, CopyInv, Place, Number, Part, rxRing, reading
<1> QED
  BY <1>1, <1>3, <1>4, SameRing, NextFacts

(* The handler changes nothing in the ring.                                *)
LEMMA HandlerStream ==
  ASSUME RxInv, StreamInv, Handler PROVE StreamInv'
<1>1. UNCHANGED <<rxRing, dma, reading, pc, delivered>>
  BY DEF Handler
<1>2. UNCHANGED <<NextNumber, NextPart>>
  BY <1>1 DEF NextNumber, NextPart, dma
<1>3. Done' = Done /\ CopyInv'
  BY <1>1 DEF Done, StreamInv, CopyInv, Place, Number, Part, rxRing, reading
<1> QED
  BY <1>1, <1>2, <1>3, SameRing, NextFacts DEF dma

(* Nor do the steps of the task around its walk; a frame that is passed to *)
(* lwIP was counted when the walk ended.                                   *)
LEMMA TaskStepStream ==
  ASSUME RxInv, StreamInv, TaskStep \/ ReadBegin \/ GatherNone PROVE StreamInv'
<1>1. UNCHANGED <<rxRing, dma>>
  BY DEF TaskStep, SetRxCallback, NotifyStateClear, NotifyWait, Input,
     InputError, Wake, ReadBegin, GatherNone
<1>2. UNCHANGED <<NextNumber, NextPart>>
  BY <1>1 DEF NextNumber, NextPart, dma
<1>3. Done' = Done
  BY DEF Done, TaskStep, SetRxCallback, NotifyStateClear, NotifyWait, Input,
     InputError, Wake, ReadBegin, GatherNone
<1>4. CopyInv'
  <2>1. pc' = "gather" => ~isFrame'
    BY DEF TaskStep, SetRxCallback, NotifyStateClear, NotifyWait, Input,
       InputError, Wake, ReadBegin, GatherNone
  <2> QED
    BY <2>1 DEF CopyInv
<1> QED
  BY <1>1, <1>2, <1>3, <1>4, SameRing, NextFacts DEF dma

(* Only a frame that is too long for the ring loses its beginning, so no   *)
(* frame that fits is skipped.                                             *)
LEMMA GatherSkipStream ==
  ASSUME RxInv, StreamInv, GatherSkip PROVE StreamInv'
<1>1. /\ owned[tmpIdx] /\ ~status[tmpIdx].sof /\ ~isFrame /\ pc = "gather"
      /\ UNCHANGED <<status, content, dma, isFrame, pc, delivered>>
  BY DEF GatherSkip
<1>2. /\ RxInv' /\ rxIdx = tmpIdx /\ Held' = Held - 1
      /\ \A s \in Slot : /\ owned'[s] <=> owned[s] /\ s # rxIdx
                         /\ s # rxIdx => Place(s)' = Place(s) - 1
  BY GatherSkipInv
<1>3. rxIdx \in Slot /\ rxIdx' \in Slot /\ Place(rxIdx) = 0 /\ Held \in 1 .. Size
  BY <1>1, <1>2, GatherFacts DEF RxInv, RingType
<1>4. \A s \in Slot : Place(s) \in Slot /\ (s # rxIdx <=> Place(s) >= 1)
  <2>1. \A s \in Slot : Place(s) \in Slot /\ (s = rxIdx <=> Place(s) = 0)
    BY <1>3, Distances DEF Place
  <2> QED
    BY <2>1 DEF Slot
<1>5. \A s \in Slot : /\ owned'[s] <=> owned[s] /\ Place(s) >= 1
                      /\ Place(s) >= 1 => Place(s)' = Place(s) - 1
  BY <1>2, <1>4
<1>6. Part(rxIdx) > Size
  BY <1>1, <1>2, <1>3 DEF StreamInv, StatusInv, HeadInv
<1>7. 1 \in 1 .. Size /\ 1 <= Held
  BY <1>3, SizeAssumption
<1>8. UNCHANGED <<status, content, arriving, arrived, complete>>
  BY <1>1 DEF dma
<1>9. StatusInv' /\ OrderInv'
  BY <1>2, <1>5, <1>7, <1>8, PopOrder DEF StreamInv
<1>10. HeadInv'
  <2>1. owned[rxIdx] /\ Place(rxIdx) = 1 - 1 /\ Part(rxIdx) >= Size
    BY <1>1, <1>2, <1>3, <1>6, PieceFacts, SizeAssumption
  <2> QED
    BY <1>2, <1>3, <1>5, <1>7, <1>8, <2>1, PopHead DEF StreamInv
<1>11. CopyInv'
  BY <1>1 DEF CopyInv
<1>12. CompleteInv'
  BY <1>8 DEF StreamInv, CompleteInv, NextNumber
<1>13. MatchInv'
  <2>1. \A s \in Slot : Place(s) < 1 => s = rxIdx
    BY <1>4 DEF Slot
  <2>2. ~Fits(Part(rxIdx))
    BY <1>1, <1>2, <1>3, <1>6, PieceFacts, SizeAssumption DEF Fits
  <2>3. Done' = Done
    BY <1>1 DEF Done
  <2> QED
    BY <1>5, <1>7, <1>8, <2>1, <2>2, <2>3, DropMatch
<1> QED
  BY <1>9, <1>10, <1>11, <1>12, <1>13 DEF StreamInv

(* emac_dev_read meets no SOF inside of a frame, and pc_buf holds what it  *)
(* has walked through.                                                     *)
LEMMA Walking ==
  ASSUME RxInv, StreamInv, pc = "gather", owned[tmpIdx], status[tmpIdx].sof \/ isFrame
  PROVE  /\ FirstIdx = rxIdx /\ AfterSkip = tmpIdx
         /\ Part(rxIdx) = 1 /\ Number(tmpIdx) = Number(rxIdx)
         /\ Part(tmpIdx) = Place(tmpIdx) + 1
         /\ \A s \in Slot : Place(s) < Place(tmpIdx) =>
              Number(s) = Number(rxIdx) /\ ~status[s].eof
         /\ Len(Collected) = IF Place(tmpIdx) + 1 <= Capacity THEN Place(tmpIdx) + 1
                             ELSE Capacity
         /\ \A i \in 1 .. Len(Collected) : Collected[i] = <<Number(rxIdx), i>>
<1>1. /\ rxIdx \in Slot /\ tmpIdx \in Slot /\ Place(tmpIdx) \in Slot
      /\ Place(tmpIdx) < Held /\ Place(rxIdx) = 0 /\ (isFrame <=> tmpIdx # rxIdx)
  BY GatherFacts
<1>2. /\ Number(tmpIdx) \in Nat /\ Part(tmpIdx) \in Nat
      /\ content[tmpIdx] = <<Number(tmpIdx), Part(tmpIdx)>>
  BY <1>1, PieceFacts
<1>3. \A s \in Slot : Place(s) \in Slot
  BY <1>1, Distances DEF Place
<1>4. CASE tmpIdx = rxIdx
  <2>1. status[tmpIdx].sof /\ Part(tmpIdx) = 1
    BY <1>1, <1>4 DEF StreamInv, StatusInv
  <2>2. FirstIdx = rxIdx /\ AfterSkip = tmpIdx
    BY <1>4 DEF FirstIdx, AfterSkip
  <2>3. Collected = <<content[tmpIdx]>>
    <3>1. Len(<<>>) < Capacity /\ Append(<<>>, content[tmpIdx]) = <<content[tmpIdx]>>
      BY CapacityAssumption
    <3> QED
      BY <2>1, <2>2, <3>1 DEF Collected
  <2>4. Len(Collected) = 1 /\ \A i \in 1 .. 1 : Collected[i] = <<Number(rxIdx), i>>
    BY <1>2, <1>4, <2>1, <2>3
  <2> QED
    BY <1>1, <1>3, <1>4, <2>1, <2>2, <2>4, CapacityAssumption DEF Slot
<1>5. CASE tmpIdx # rxIdx
  <2>1. /\ Part(rxIdx) = 1
        /\ \A s \in Slot : Place(s) < Place(tmpIdx) =>
             Number(s) = Number(rxIdx) /\ ~status[s].eof
        /\ Len(copied) = IF Place(tmpIdx) <= Capacity THEN Place(tmpIdx) ELSE Capacity
        /\ \A i \in 1 .. Len(copied) : copied[i] = <<Number(rxIdx), i>>
    BY <1>1, <1>5 DEF StreamInv, CopyInv
  <2>2. PICK p \in Slot : Place(p) = Place(tmpIdx) - 1
    <3>1. LET p == IF tmpIdx = 0 THEN Size - 1 ELSE tmpIdx - 1
          IN  p \in Slot /\ Place(p) = Place(tmpIdx) - 1
      BY <1>1, <1>5, SizeAssumption DEF Place, Dist, Slot
    <3> QED
      BY <3>1
  <2>3. /\ Place(p) < Place(tmpIdx) /\ Place(tmpIdx) - Place(p) = 1
        /\ Place(rxIdx) < Place(tmpIdx) /\ Place(tmpIdx) - Place(rxIdx) = Place(tmpIdx)
    BY <1>1, <1>3, <2>2 DEF Slot
  <2>4. owned[p] /\ owned[rxIdx]
    <3>1. Place(p) < Held /\ Place(rxIdx) < Held
      BY <1>1, <1>3, <2>2, <2>3, HeldType DEF Slot
    <3> QED
      BY <1>1, <3>1 DEF RxInv, HeldInv
  <2>5. /\ Number(p) = Number(rxIdx) /\ ~status[p].eof
        /\ Number(p) \in Nat /\ Part(p) \in Nat \ {0}
    BY <2>1, <2>3, <2>4, PieceFacts
  <2>6. Number(tmpIdx) = Number(rxIdx)
    <3>1. Follows(p, Number(tmpIdx), Part(tmpIdx), 1)
      BY <1>1, <2>3, <2>4 DEF StreamInv, OrderInv
    <3> QED
      BY <2>5, <3>1 DEF Follows
  <2>7. Part(tmpIdx) = Place(tmpIdx) + 1
    <3>1. Follows(rxIdx, Number(tmpIdx), Part(tmpIdx), Place(tmpIdx))
      BY <1>1, <2>3, <2>4 DEF StreamInv, OrderInv
    <3> QED
      BY <1>1, <1>2, <2>1, <2>6, <3>1 DEF Follows, Slot
  <2>8. ~status[tmpIdx].sof
    BY <1>1, <2>3, <2>7 DEF StreamInv, StatusInv, Slot
  <2>9. FirstIdx = rxIdx /\ AfterSkip = tmpIdx
    BY <2>8 DEF FirstIdx, AfterSkip
  <2>10. Collected = IF Len(copied) < Capacity THEN Append(copied, content[tmpIdx])
                     ELSE copied
    BY <2>8, <2>9 DEF Collected
  <2>11. /\ Len(Collected) = IF Place(tmpIdx) + 1 <= Capacity THEN Place(tmpIdx) + 1
                             ELSE Capacity
         /\ \A i \in 1 .. Len(Collected) : Collected[i] = <<Number(rxIdx), i>>
    <3>1. copied \in Seq(Piece) /\ content[tmpIdx] = <<Number(rxIdx), Place(tmpIdx) + 1>>
      BY <1>2, <2>6, <2>7 DEF RxInv, TaskType
    <3>2. CASE Len(copied) < Capacity
      <4>1. Len(copied) = Place(tmpIdx) /\ Place(tmpIdx) < Capacity
        BY <1>1, <2>1, <3>2
      <4>2. Collected = Append(copied, content[tmpIdx])
        BY <2>10, <3>2
      <4>3. /\ Len(Collected) = Len(copied) + 1
            /\ Collected[Len(copied) + 1] = content[tmpIdx]
            /\ \A i \in 1 .. Len(copied) : Collected[i] = copied[i]
        BY <3>1, <4>2
      <4>4. Len(copied) \in Nat
        BY <3>1
      <4> QED
        BY <2>1, <3>1, <4>1, <4>3, <4>4, CapacityAssumption
    <3>3. CASE ~(Len(copied) < Capacity)
      <4>1. Len(copied) = Capacity /\ Collected = copied /\ Place(tmpIdx) >= Capacity
        BY <1>1, <2>1, <2>10, <3>3, CapacityAssumption DEF Slot
      <4> QED
        BY <1>1, <2>1, <4>1 DEF Slot
    <3> QED
      BY <3>2, <3>3
  <2> QED
    BY <2>1, <2>6, <2>7, <2>9, <2>11
<1> QED
  BY <1>4, <1>5

(* A frame that fills the whole ring is longer than the buffer for lwIP.   *)
LEMMA GatherWholeStream ==
  ASSUME RxInv, StreamInv, GatherWhole PROVE StreamInv'
<1>1. /\ pc = "gather" /\ owned[tmpIdx] /\ (status[tmpIdx].sof \/ isFrame)
      /\ pc' = "null"
      /\ UNCHANGED <<status, content, dma, delivered>>
  BY DEF GatherWhole
<1>2. /\ RxInv' /\ Held' = 0 /\ Place(tmpIdx) = Size - 1
      /\ \A s \in Slot : ~owned'[s]
  BY GatherWholeInv
<1>3. tmpIdx \in Slot /\ Held \in 0 .. Size /\ Place(tmpIdx) < Held
  BY <1>1, GatherFacts
<1>4. Held = Size /\ Size \in 1 .. Size
  BY <1>2, <1>3, SizeAssumption
<1>5. \A s \in Slot : Place(s) \in Slot /\ ~(Place(s) >= Size)
  BY <1>1, GatherFacts, Distances, SizeAssumption DEF Place, Slot
<1>6. UNCHANGED <<status, content, arriving, arrived, complete>>
  BY <1>1 DEF dma
<1>7. Held' = Held - Size /\ Size <= Held /\ rxIdx' \in Slot
  BY <1>2, <1>4 DEF RxInv, RingType
<1>8. \A s \in Slot : /\ owned'[s] <=> owned[s] /\ Place(s) >= Size
                      /\ Place(s) >= Size => Place(s)' = Place(s) - Size
  BY <1>2, <1>5
<1>9. StatusInv' /\ OrderInv'
  BY <1>4, <1>6, <1>7, <1>8, PopOrder DEF StreamInv
<1>10. Part(tmpIdx) = Size
  BY <1>1, <1>2, Walking, SizeAssumption
<1>11. HeadInv'
  <2>1. Part(tmpIdx) >= Size
    BY <1>10, SizeAssumption
  <2> QED
    BY <1>1, <1>2, <1>3, <1>4, <1>6, <1>7, <1>8, <2>1, PopHead DEF StreamInv
<1>12. CopyInv'
  BY <1>1 DEF CopyInv
<1>13. CompleteInv'
  BY <1>6 DEF StreamInv, CompleteInv, NextNumber
<1>14. MatchInv'
  <2>1. ASSUME NEW s \in Slot, status[s].eof PROVE ~Fits(Part(s))
    <3>1. ~(Place(s) < Place(tmpIdx))
      BY <1>1, <2>1, Walking
    <3>2. Place(s) = Place(tmpIdx)
      BY <1>2, <1>5, <3>1, SizeAssumption DEF Slot
    <3>3. s = tmpIdx
      BY <1>1, <3>2, GatherFacts, Rebase DEF Place
    <3> QED
      BY <1>10, <3>3, SizeAssumption DEF Fits
  <2>2. Done' = Done
    BY <1>1 DEF Done
  <2> QED
    BY <1>4, <1>6, <1>8, <2>1, <2>2, DropMatch
<1> QED
  BY <1>9, <1>11, <1>12, <1>13, <1>14 DEF StreamInv

(* The walk goes on in the same frame, and pc_buf holds one piece more, up *)
(* to its capacity.                                                        *)
LEMMA GatherPieceStream ==
  ASSUME RxInv, StreamInv, GatherPiece PROVE StreamInv'
<1>1. /\ pc = "gather" /\ owned[tmpIdx] /\ (status[tmpIdx].sof \/ isFrame)
      /\ ~status[AfterSkip].eof /\ rxIdx' = FirstIdx /\ copied' = Collected
      /\ UNCHANGED <<status, content, dma, pc, delivered>>
  BY DEF GatherPiece
<1>2. /\ FirstIdx = rxIdx /\ AfterSkip = tmpIdx
      /\ Part(rxIdx) = 1 /\ Number(tmpIdx) = Number(rxIdx)
      /\ \A s \in Slot : Place(s) < Place(tmpIdx) =>
           Number(s) = Number(rxIdx) /\ ~status[s].eof
      /\ Len(Collected) = IF Place(tmpIdx) + 1 <= Capacity THEN Place(tmpIdx) + 1
                          ELSE Capacity
      /\ \A i \in 1 .. Len(Collected) : Collected[i] = <<Number(rxIdx), i>>
  BY <1>1, Walking
<1>3. /\ rxIdx \in Slot /\ tmpIdx \in Slot /\ Place(rxIdx) = 0
      /\ \A s \in Slot : Place(s) \in Slot
  BY <1>1, GatherFacts, Distances DEF Place
<1>4. /\ Place(tmpIdx)' = Place(tmpIdx) + 1
      /\ \A s \in Slot : (owned'[s] <=> owned[s]) /\ Place(s)' = Place(s)
  <2>1. /\ \A s \in Slot :
             /\ owned'[s] <=> owned[s] /\ Place(s) >= Place(FirstIdx)
             /\ Place(s) >= Place(FirstIdx) => Place(s)' = Place(s) - Place(FirstIdx)
        /\ Place(tmpIdx)' = Place(tmpIdx) - Place(FirstIdx) + 1
    BY GatherPieceInv
  <2> QED
    BY <1>2, <1>3, <2>1, SizeAssumption DEF Slot
<1>5. UNCHANGED <<rxRing, hwPos, complete>>
  <2>1. owned' = owned
    <3>1. owned' \in [Slot -> BOOLEAN] /\ owned \in [Slot -> BOOLEAN]
      BY GatherPieceInv DEF RxInv, RingType
    <3> QED
      BY <1>4, <3>1
  <2> QED
    BY <1>1, <1>2, <2>1 DEF rxRing, dma
<1>6. UNCHANGED <<NextNumber, NextPart>>
  BY <1>1 DEF NextNumber, NextPart, dma
<1>7. Done' = Done
  BY <1>1 DEF Done
<1>8. CopyInv'
  <2>1. UNCHANGED <<rxIdx, status, content>>
    BY <1>1, <1>2
  <2>2. \A s \in Slot : UNCHANGED <<Number(s), Part(s), Place(s)>>
    BY <1>4, <2>1 DEF Number, Part
  <2>3. Part(rxIdx)' = 1 /\ Number(rxIdx)' = Number(rxIdx)
    BY <1>2, <2>1 DEF Number, Part
  <2>4. ASSUME NEW s \in Slot, Place(s)' < Place(tmpIdx)'
        PROVE  Number(s)' = Number(rxIdx)' /\ ~status'[s].eof
    <3>1. Place(s) < Place(tmpIdx) \/ Place(s) = Place(tmpIdx)
      BY <1>3, <1>4, <2>4 DEF Slot
    <3>2. Place(s) = Place(tmpIdx) => s = tmpIdx
      BY <1>3, Rebase DEF Place
    <3>3. Number(s) = Number(rxIdx) /\ ~status[s].eof
      BY <1>1, <1>2, <3>1, <3>2
    <3> QED
      BY <2>1, <2>2, <2>3, <3>3
  <2> QED
    BY <1>1, <1>2, <1>4, <2>3, <2>4 DEF CopyInv
<1> QED
  BY <1>5, <1>6, <1>7, <1>8, SameRing, NextFacts

(* The walk has come to the end of a frame: if it fits, it is the next one *)
(* that lwIP has to get, and pc_buf holds all of it.                       *)
LEMMA GatherLastStream ==
  ASSUME RxInv, StreamInv, GatherLast PROVE StreamInv'
<1> DEFINE n == Place(tmpIdx) + 1
<1>1. /\ pc = "gather" /\ owned[tmpIdx] /\ (status[tmpIdx].sof \/ isFrame)
      /\ status[AfterSkip].eof /\ CircInc(tmpIdx) # FirstIdx
      /\ rxIdx' = CircInc(tmpIdx)
      /\ IF Len(Collected) < status[AfterSkip].length
         THEN pc' = "error" /\ UNCHANGED copied
         ELSE pc' = "ok" /\ copied' = SubSeq(Collected, 1, status[AfterSkip].length)
      /\ UNCHANGED <<status, content, dma, delivered>>
  BY DEF GatherLast
<1>2. /\ FirstIdx = rxIdx /\ AfterSkip = tmpIdx
      /\ Part(rxIdx) = 1 /\ Number(tmpIdx) = Number(rxIdx)
      /\ Part(tmpIdx) = n
      /\ \A s \in Slot : Place(s) < Place(tmpIdx) =>
           Number(s) = Number(rxIdx) /\ ~status[s].eof
      /\ Len(Collected) = IF n <= Capacity THEN n ELSE Capacity
      /\ \A i \in 1 .. Len(Collected) : Collected[i] = <<Number(rxIdx), i>>
  BY <1>1, Walking
<1>3. /\ rxIdx \in Slot /\ tmpIdx \in Slot /\ Held \in 0 .. Size
      /\ Place(tmpIdx) < Held /\ rxIdx' \in Slot
      /\ Place(CircInc(tmpIdx)) = n
  BY <1>1, <1>2, GatherFacts
<1>4. \A s \in Slot : Place(s) \in Slot
  BY <1>3, Distances DEF Place
<1>5. n \in 1 .. Size - 1 /\ n <= Held
  <2>1. n \in Slot
    BY <1>1, <1>3, <1>4
  <2> QED
    BY <1>3, <1>4, <2>1 DEF Slot
<1>6. /\ Held' = Held - n
      /\ \A s \in Slot : /\ owned'[s] <=> owned[s] /\ Place(s) >= n
                         /\ Place(s) >= n => Place(s)' = Place(s) - n
  <2>1. /\ Held' = Held - Place(tmpIdx) - 1
        /\ \A s \in Slot :
             /\ owned'[s] <=> owned[s] /\ Place(s) > Place(tmpIdx)
             /\ Place(s) > Place(tmpIdx) => Place(s)' = Place(s) - Place(tmpIdx) - 1
    BY <1>1, <1>2, GatherLastInv
  <2>2. \A s \in Slot : Place(s) > Place(tmpIdx) <=> Place(s) >= n
    BY <1>3, <1>4 DEF Slot
  <2>3. \A s \in Slot : Place(s) - Place(tmpIdx) - 1 = Place(s) - n
    BY <1>3, <1>4 DEF Slot
  <2>4. Held - Place(tmpIdx) - 1 = Held - n
    BY <1>3, <1>4 DEF Slot
  <2> QED
    BY <2>1, <2>2, <2>3, <2>4
<1>7. UNCHANGED <<status, content, arriving, arrived, complete>>
  BY <1>1 DEF dma
<1>8. n \in 1 .. Size
  BY <1>5, SizeAssumption
<1>9. StatusInv' /\ OrderInv'
  BY <1>5, <1>6, <1>7, <1>8, PopOrder DEF StreamInv
<1>10. HeadInv'
  <2>1. Place(tmpIdx) = n - 1 /\ status[tmpIdx].eof
    BY <1>1, <1>2, <1>3, <1>4 DEF Slot
  <2> QED
    BY <1>1, <1>3, <1>5, <1>6, <1>7, <1>8, <2>1, PopHead DEF StreamInv
<1>11. CopyInv'
  BY <1>1 DEF CopyInv
<1>12. CompleteInv'
  BY <1>7 DEF StreamInv, CompleteInv, NextNumber
<1>13. status[tmpIdx].eof /\ status[tmpIdx].length = n /\ n \in Nat
  BY <1>1, <1>2, <1>3, <1>5 DEF StreamInv, StatusInv
<1>14. ASSUME NEW s \in Slot, Place(s) < n PROVE ~status[s].eof \/ s = tmpIdx
  <2>1. Place(s) < Place(tmpIdx) \/ Place(s) = Place(tmpIdx)
    BY <1>3, <1>4, <1>14 DEF Slot
  <2>2. Place(s) = Place(tmpIdx) => s = tmpIdx
    BY <1>3, Rebase DEF Place
  <2> QED
    BY <1>2, <2>1, <2>2
<1> HIDE DEF n
<1>15. CASE Len(Collected) < n
  <2>1. ~Fits(n)
    BY <1>2, <1>13, <1>15 DEF Fits
  <2>2. \A s \in Slot : owned[s] /\ Place(s) < n /\ status[s].eof => ~Fits(Part(s))
    BY <1>2, <1>14, <2>1
  <2>3. Done' = Done
    BY <1>1, <1>2, <1>13, <1>15 DEF Done
  <2>4. MatchInv'
    BY <1>6, <1>7, <1>8, <2>2, <2>3, DropMatch
  <2> QED
    BY <1>9, <1>10, <1>11, <1>12, <2>4 DEF StreamInv
<1>16. CASE ~(Len(Collected) < n)
  <2>1. Len(Collected) = n /\ n <= Capacity /\ Collected \in Seq(Piece)
    BY <1>1, <1>2, <1>13, <1>16, CollectedType
  <2>2. copied' = FrameOf(Number(tmpIdx), n)
    <3>1. copied' = SubSeq(Collected, 1, n)
      BY <1>1, <1>2, <1>13, <1>16
    <3>2. SubSeq(Collected, 1, n) = [i \in 1 .. n |-> Collected[i]]
      BY <1>13, <2>1
    <3>3. \A i \in 1 .. n : Collected[i] = <<Number(tmpIdx), i>>
      BY <1>2, <2>1
    <3> QED
      BY <3>1, <3>2, <3>3 DEF FrameOf
  <2>3. /\ Done = delivered /\ Done' = Append(delivered, copied')
        /\ delivered \in Seq(Seq(Piece)) /\ Len(delivered) \in Nat
    BY <1>1, <1>2, <1>13, <1>16 DEF Done, RxInv, FrameType
  <2>4. /\ Len(Done') = Len(Done) + 1 /\ Done'[Len(Done) + 1] = copied'
        /\ \A k \in 1 .. Len(Done) : Done'[k] = Done[k]
        /\ Len(Done) \in Nat
    <3>1. copied' \in Seq(Piece)
      BY GatherLastInv DEF RxInv, TaskType
    <3> QED
      BY <2>3, <3>1
  <2>5. Fits(n)
    BY <1>5, <1>13, <2>1, SizeAssumption DEF Fits
  <2>6. PICK k \in Len(Done) + 1 .. Len(complete) :
          complete[k] = FrameOf(Number(tmpIdx), n)
    BY <1>1, <1>2, <1>3, <1>13, <2>5 DEF StreamInv, MatchInv
  <2>7. complete[k][1][1] = Number(tmpIdx)
    BY <1>5, <2>6 DEF FrameOf
  <2>8. Len(complete) \in Nat /\ k \in 1 .. Len(complete)
    BY <2>4
  <2>9. ASSUME NEW t \in Slot, owned[t], Place(t) >= n
        PROVE  Number(tmpIdx) < Number(t)
    <3>1. Place(tmpIdx) < Place(t)
      BY <1>3, <1>4, <1>13, <2>9, SizeAssumption DEF Slot, n
    <3>2. Follows(tmpIdx, Number(t), Part(t), Place(t) - Place(tmpIdx))
      BY <1>1, <1>3, <2>9, <3>1 DEF StreamInv, OrderInv
    <3> QED
      BY <1>13, <3>2 DEF Follows
  <2>10. ASSUME NEW j \in Len(Done) + 1 .. Len(complete), j # k
         PROVE  \E t \in Slot : /\ owned[t] /\ Place(t) >= n /\ status[t].eof
                                /\ Number(t) = complete[j][1][1]
                                /\ Part(t) = Len(complete[j])
    <3>1. PICK t \in Slot : /\ owned[t] /\ status[t].eof
                            /\ Number(t) = complete[j][1][1]
                            /\ Part(t) = Len(complete[j])
      BY DEF StreamInv, MatchInv
    <3>2. t # tmpIdx
      <4>1. j \in 1 .. Len(complete)
        BY <2>4, <2>8
      <4>2. complete[j][1][1] # complete[k][1][1]
        <5>1. /\ j < k => complete[j][1][1] < complete[k][1][1]
              /\ k < j => complete[k][1][1] < complete[j][1][1]
          BY <2>8, <4>1 DEF StreamInv, CompleteInv
        <5>2. j < k \/ k < j
          BY <2>8, <2>10, <4>1
        <5>3. complete[j][1][1] \in Nat /\ complete[k][1][1] \in Nat
          BY <1>1, <1>3, <2>7, <3>1, PieceFacts, MaxFramesAssumption
        <5> QED
          BY <5>1, <5>2, <5>3
      <4> QED
        BY <2>7, <3>1, <4>2
    <3>3. ~(Place(t) < n)
      BY <1>14, <3>1, <3>2
    <3> QED
      BY <1>4, <1>13, <3>1, <3>3, SizeAssumption DEF Slot
  <2>11. k = Len(Done) + 1
    <3> SUFFICES ASSUME k # Len(Done) + 1 PROVE FALSE
      OBVIOUS
    <3>1. Len(Done) + 1 \in Len(Done) + 1 .. Len(complete) /\ Len(Done) + 1 < k
          /\ Len(Done) + 1 \in 1 .. Len(complete)
      BY <2>4, <2>8
    <3>2. PICK t \in Slot : /\ owned[t] /\ Place(t) >= n
                            /\ Number(t) = complete[Len(Done) + 1][1][1]
      BY <2>10, <3>1
    <3>3. complete[Len(Done) + 1][1][1] < complete[k][1][1]
      BY <2>8, <3>1 DEF StreamInv, CompleteInv
    <3>4. Number(tmpIdx) < Number(t) /\ Number(tmpIdx) \in Nat /\ Number(t) \in Nat
      BY <1>1, <1>3, <2>9, <3>2, PieceFacts, MaxFramesAssumption
    <3> QED
      BY <2>7, <3>2, <3>3, <3>4
  <2>12. \A s \in Slot : UNCHANGED <<Number(s), Part(s), status[s]>>
    BY <1>7 DEF Number, Part
  <2>13. MatchInv'
    <3>1. Len(Done') <= Len(complete)
      BY <2>4, <2>8, <2>11
    <3>2. \A j \in 1 .. Len(Done') : Done'[j] = complete[j]
      <4>1. \A j \in 1 .. Len(Done) : Done[j] = complete[j]
        BY DEF StreamInv, MatchInv
      <4> QED
        BY <2>2, <2>4, <2>6, <2>11, <4>1
    <3>3. ASSUME NEW j \in Len(Done') + 1 .. Len(complete)
          PROVE  \E t \in Slot : /\ owned'[t] /\ status[t].eof
                                 /\ Number(t) = complete[j][1][1]
                                 /\ Part(t) = Len(complete[j])
      <4>1. j \in Len(Done) + 1 .. Len(complete) /\ j # k
        BY <2>4, <2>8, <2>11
      <4> QED
        BY <1>6, <2>10, <4>1
    <3>4. ASSUME NEW t \in Slot, owned'[t], status[t].eof, Fits(Part(t))
          PROVE  \E j \in Len(Done') + 1 .. Len(complete) :
                   complete[j] = FrameOf(Number(t), Part(t))
      <4>1. owned[t] /\ Place(t) >= n
        BY <1>6, <3>4
      <4>2. PICK j \in Len(Done) + 1 .. Len(complete) :
              complete[j] = FrameOf(Number(t), Part(t))
        BY <3>4, <4>1 DEF StreamInv, MatchInv
      <4>3. complete[j][1][1] = Number(t)
        BY <4>1, <4>2, PieceFacts DEF FrameOf
      <4>4. Number(tmpIdx) < Number(t) /\ Number(tmpIdx) \in Nat /\ Number(t) \in Nat
        BY <1>1, <1>3, <2>9, <4>1, PieceFacts
      <4>5. j # k
        BY <2>7, <4>3, <4>4
      <4>6. j \in Len(Done') + 1 .. Len(complete)
        BY <2>4, <2>8, <2>11, <4>5
      <4> QED
        BY <4>2, <4>6
    <3>5. complete' = complete
      BY <1>7
    <3>6. /\ Len(Done') <= Len(complete')
          /\ \A j \in 1 .. Len(Done') : Done'[j] = complete'[j]
      BY <3>1, <3>2, <3>5
    <3>7. \A j \in Len(Done') + 1 .. Len(complete') :
            \E t \in Slot : /\ owned'[t] /\ status'[t].eof
                            /\ Number(t)' = complete'[j][1][1]
                            /\ Part(t)' = Len(complete'[j])
      BY <2>12, <3>3, <3>5
    <3>8. \A t \in Slot : owned'[t] /\ status'[t].eof /\ Fits(Part(t)') =>
            \E j \in Len(Done') + 1 .. Len(complete') :
              complete'[j] = FrameOf(Number(t)', Part(t)')
      BY <2>12, <3>4, <3>5
    <3> QED
      BY <3>6, <3>7, <3>8 DEF MatchInv
  <2> QED
    BY <1>9, <1>10, <1>11, <1>12, <2>13 DEF StreamInv
<1> QED
  BY <1>15, <1>16

(* A piece that the DMA stores continues the stream; the last piece of a   *)
(* frame that fits makes it one that lwIP has to get.                      *)
LEMMA PieceArrivesStream ==
  ASSUME RxInv, StreamInv, PieceArrives PROVE StreamInv'
<1> DEFINE i == arriving.done + 1
           last == i = arriving.length
<1>1. /\ arriving # NoFrame /\ ~owned[hwPos]
      /\ content' = [content EXCEPT ![hwPos] = <<arriving.number, i>>]
      /\ status' = [status EXCEPT ![hwPos] =
           [sof |-> i = 1, eof |-> last,
            length |-> IF last THEN arriving.length ELSE 0]]
      /\ arriving' = IF last THEN NoFrame ELSE [arriving EXCEPT !.done = i]
      /\ complete' = IF last /\ Fits(i) THEN Append(complete, Pieces(arriving))
                     ELSE complete
      /\ owned' = [owned EXCEPT ![hwPos] = TRUE]
      /\ UNCHANGED <<rxIdx, arrived, reading, pc, delivered>>
  BY DEF PieceArrives
<1>2. /\ RxInv' /\ Held' = Held + 1 /\ Place(hwPos) = Held
      /\ \A s \in Slot : Place(s)' = Place(s)
  BY PieceArrivesInv
<1>3. /\ arriving.number \in 1 .. MaxFrames /\ arriving.length \in 1 .. MaxPieces
      /\ i \in 1 .. arriving.length /\ arriving.number = arrived
      /\ arriving \in ArrivingFrame /\ arrived \in Nat
  BY <1>1, ArrivingFacts
<1>4. hwPos \in Slot /\ rxIdx \in Slot /\ tmpIdx \in Slot /\ Held \in Slot
  <2>1. hwPos \in Slot /\ rxIdx \in Slot /\ tmpIdx \in Slot
    BY DEF RxInv, RingType, TaskType
  <2> QED
    BY <1>2, <2>1, Distances DEF Place
<1>5. NextNumber = arriving.number /\ NextPart = i
  BY <1>1 DEF NextNumber, NextPart
<1>6. PICK h \in Slot : h = hwPos
  BY <1>4
<1>7. Place(h) = Held
  BY <1>2, <1>6
<1>8. /\ Number(h)' = NextNumber /\ Part(h)' = NextPart
      /\ status'[h].sof = (i = 1) /\ status'[h].eof = last
      /\ last => status'[h].length = i
  BY <1>1, <1>5, <1>6 DEF RxInv, RingType, Number, Part
<1>9. ASSUME NEW s \in Slot, s # h
      PROVE  UNCHANGED <<Number(s), Part(s), status[s], owned[s]>>
  BY <1>1, <1>6, <1>9 DEF Number, Part
<1>10. \A s \in Slot : /\ owned'[s] <=> owned[s] \/ s = h
                       /\ s # h /\ owned'[s] => owned[s] /\ Place(s) < Held
  BY <1>1, <1>6 DEF RxInv, RingType, HeldInv
<1>11. IF last THEN NextNumber' = NextNumber + 1 /\ NextPart' = 1
       ELSE NextNumber' = NextNumber /\ NextPart' = NextPart + 1
  <2>1. CASE last
    BY <1>1, <1>3, <1>5, <2>1 DEF NextNumber, NextPart
  <2>2. CASE ~last
    <3>1. /\ arriving'.number = arriving.number /\ arriving'.done = i
          /\ arriving'.length = arriving.length
      BY <1>1, <1>3, <2>2
    <3>2. arriving' # NoFrame
      BY <1>3, <3>1 DEF NoFrame
    <3> QED
      BY <1>3, <1>5, <2>2, <3>1, <3>2 DEF NextNumber, NextPart
  <2> QED
    BY <2>1, <2>2
<1>12. NextNumber \in Nat /\ NextPart \in Nat \ {0}
  BY NextFacts
<1> HIDE DEF i, last
<1>13. StatusInv'
  <2>1. ASSUME NEW s \in Slot, owned'[s]
        PROVE  /\ status'[s].sof <=> Part(s)' = 1
               /\ status'[s].eof => status'[s].length = Part(s)'
    <3>1. CASE s = h
      BY <1>5, <1>8, <3>1
    <3>2. CASE s # h
      BY <1>9, <1>10, <2>1, <3>2 DEF StreamInv, StatusInv
    <3> QED
      BY <3>1, <3>2
  <2> QED
    BY <2>1 DEF StatusInv
<1>14. OrderInv'
  <2>1. ASSUME NEW s \in Slot, owned'[s]
        PROVE  Follows(s, NextNumber, NextPart, Held - Place(s))'
    <3>1. CASE s = h
      <4>1. (Held - Place(s))' = 1
        BY <1>2, <1>7, <1>4, <3>1 DEF Slot
      <4>2. \/ /\ Number(s)' < NextNumber' /\ NextPart' <= 1 /\ status'[s].eof
            \/ /\ Number(s)' = NextNumber' /\ NextPart' = Part(s)' + 1
               /\ ~status'[s].eof
        BY <1>8, <1>11, <1>12, <3>1
      <4> QED
        BY <4>1, <4>2 DEF Follows
    <3>2. CASE s # h
      <4>1. owned[s] /\ Place(s) < Held
        BY <1>10, <2>1, <3>2
      <4>2. Follows(s, NextNumber, NextPart, Held - Place(s))
        BY <4>1 DEF StreamInv, OrderInv
      <4>3. /\ Number(s) \in Nat /\ Part(s) \in Nat /\ Held \in Nat /\ Place(s) \in Nat
        BY <4>1, PieceFacts DEF Slot
      <4>4. (Held - Place(s))' = Held - Place(s) + 1 /\ Held - Place(s) > 0
        BY <1>2, <4>1, <4>3
      <4>5. UNCHANGED <<Number(s), Part(s), status[s]>>
        BY <1>9, <3>2
      <4> QED
        BY <1>11, <1>12, <4>2, <4>3, <4>4, <4>5 DEF Follows
    <3> QED
      BY <3>1, <3>2
  <2>2. ASSUME NEW s \in Slot, NEW t \in Slot, owned'[s], owned'[t],
               Place(s)' < Place(t)'
        PROVE  Follows(s, Number(t), Part(t), Place(t) - Place(s))'
    <3>1. Place(s) \in Slot /\ Place(t) \in Slot
      BY <1>4, Distances DEF Place
    <3>2. s # h
      <4>1. Place(t) = Held \/ Place(t) < Held
        BY <1>2, <1>7, <1>10, <2>2
      <4> QED
        BY <1>2, <1>7, <1>4, <2>2, <3>1, <4>1 DEF Slot
    <3>3. owned[s] /\ UNCHANGED <<Number(s), Part(s), status[s], Place(s), Place(t)>>
      BY <1>2, <1>9, <1>10, <2>2, <3>2
    <3>4. CASE t = h
      <4>1. Follows(s, NextNumber, NextPart, Held - Place(s))
        BY <3>3 DEF StreamInv, OrderInv
      <4>2. Number(t)' = NextNumber /\ Part(t)' = NextPart /\ Place(t)' = Held
        BY <1>2, <1>7, <1>8, <3>4
      <4> QED
        BY <3>3, <4>1, <4>2 DEF Follows
    <3>5. CASE t # h
      <4>1. owned[t] /\ UNCHANGED <<Number(t), Part(t)>>
        BY <1>9, <1>10, <2>2, <3>5
      <4>2. Follows(s, Number(t), Part(t), Place(t) - Place(s))
        BY <2>2, <3>3, <4>1 DEF StreamInv, OrderInv
      <4> QED
        BY <3>3, <4>1, <4>2 DEF Follows
    <3> QED
      BY <3>4, <3>5
  <2> QED
    BY <2>1, <2>2 DEF OrderInv
<1>15. HeadInv'
  <2>1. Held' # 0
    BY <1>2, <1>4 DEF Slot
  <2>2. CASE rxIdx = h
    <3>1. Held = 0
      BY <1>7, <1>4, <2>2, Distances DEF Place
    <3>2. NextPart = 1 \/ NextPart > Size
      BY <3>1 DEF StreamInv, HeadInv
    <3>3. Part(rxIdx)' = NextPart
      BY <1>1, <1>8, <2>2
    <3> QED
      BY <2>1, <3>2, <3>3 DEF HeadInv
  <2>3. CASE rxIdx # h
    <3>1. UNCHANGED <<Part(rxIdx), owned[rxIdx]>>
      BY <1>1, <1>4, <1>9, <2>3
    <3> QED
      BY <2>1, <3>1 DEF StreamInv, HeadInv
  <2> QED
    BY <2>2, <2>3
<1>16. CopyInv'
  <2> SUFFICES ASSUME pc' = "gather", isFrame' PROVE CopyInv'
    BY DEF CopyInv
  <2>1. UNCHANGED <<pc, isFrame, tmpIdx, copied, rxIdx>> /\ pc = "gather" /\ isFrame
    BY <1>1 DEF reading
  <2>2. Place(tmpIdx) <= Held /\ tmpIdx # rxIdx
    BY <2>1 DEF RxInv, GatherInv
  <2>3. Place(tmpIdx) \in Slot /\ Place(tmpIdx) # 0 /\ Place(rxIdx) = 0
    BY <1>4, <2>2, Distances DEF Place
  <2>4. rxIdx # h
    BY <1>7, <1>4, <2>2, <2>3 DEF Slot
  <2>5. UNCHANGED <<Number(rxIdx), Part(rxIdx)>> /\ Place(tmpIdx)' = Place(tmpIdx)
    BY <1>2, <1>4, <1>9, <2>1, <2>4
  <2>6. ASSUME NEW s \in Slot, Place(s)' < Place(tmpIdx)'
        PROVE  Number(s)' = Number(rxIdx)' /\ ~status'[s].eof
    <3>1. Place(s) < Place(tmpIdx) /\ Place(s) \in Slot
      BY <1>2, <1>4, <2>5, <2>6, Distances DEF Place
    <3>2. s # h
      BY <1>7, <1>4, <2>2, <2>3, <3>1 DEF Slot
    <3>3. Number(s) = Number(rxIdx) /\ ~status[s].eof
      BY <2>1, <3>1 DEF StreamInv, CopyInv
    <3> QED
      BY <1>9, <2>5, <3>2, <3>3
  <2>7. /\ Part(rxIdx) = 1
        /\ Len(copied) = IF Place(tmpIdx) <= Capacity THEN Place(tmpIdx) ELSE Capacity
        /\ \A j \in 1 .. Len(copied) : copied[j] = <<Number(rxIdx), j>>
    BY <2>1 DEF StreamInv, CopyInv
  <2> QED
    BY <2>1, <2>5, <2>6, <2>7 DEF CopyInv
<1>17. /\ Done' = Done /\ Len(Done) \in Nat
       /\ complete \in Seq(Seq(Piece)) /\ Len(complete) \in Nat
  BY <1>1 DEF Done, RxInv, FrameType, reading
<1>18. \A k \in 1 .. Len(complete) : Len(complete[k]) > 0 => complete[k][1][1] \in Nat
  <2> SUFFICES ASSUME NEW k \in 1 .. Len(complete), Len(complete[k]) > 0
               PROVE  complete[k][1][1] \in Nat
    OBVIOUS
  <2>1. complete[k] \in Seq(Piece)
    BY <1>17
  <2>2. complete[k][1] \in Piece
    BY <2>1
  <2> QED
    BY <2>2 DEF Piece
<1>19. \A k \in 1 .. Len(complete) :
         /\ Len(complete[k]) > 0 /\ Fits(Len(complete[k]))
         /\ complete[k][1][1] < NextNumber /\ complete[k][1][1] < NextNumber'
  <2>1. NextNumber' \in Nat /\ NextNumber <= NextNumber'
    BY <1>11, <1>12
  <2>2. ASSUME NEW k \in 1 .. Len(complete)
        PROVE  /\ Len(complete[k]) > 0 /\ Fits(Len(complete[k]))
               /\ complete[k][1][1] < NextNumber /\ complete[k][1][1] < NextNumber'
    <3>1. /\ Len(complete[k]) > 0 /\ Fits(Len(complete[k]))
          /\ complete[k][1][1] < NextNumber
      BY DEF StreamInv, CompleteInv
    <3> QED
      BY <1>12, <1>18, <2>1, <3>1
  <2> QED
    BY <2>2
<1>20. \A s \in Slot : owned[s] => s # h
  BY <1>1, <1>6
<1>21. CASE ~(last /\ Fits(NextPart))
  <2>1. complete' = complete
    BY <1>1, <1>5, <1>21
  <2>2. CompleteInv'
    BY <1>19, <2>1 DEF StreamInv, CompleteInv
  <2>3. MatchInv'
    <3>1. \A k \in Len(Done') + 1 .. Len(complete') :
            \E s \in Slot : /\ owned'[s] /\ status'[s].eof
                            /\ Number(s)' = complete'[k][1][1]
                            /\ Part(s)' = Len(complete'[k])
      <4> SUFFICES ASSUME NEW k \in Len(Done) + 1 .. Len(complete)
                   PROVE  \E s \in Slot : /\ owned'[s] /\ status'[s].eof
                                          /\ Number(s)' = complete[k][1][1]
                                          /\ Part(s)' = Len(complete[k])
        BY <1>17, <2>1
      <4>1. PICK s \in Slot : /\ owned[s] /\ status[s].eof
                              /\ Number(s) = complete[k][1][1]
                              /\ Part(s) = Len(complete[k])
        BY DEF StreamInv, MatchInv
      <4>2. owned'[s] /\ UNCHANGED <<Number(s), Part(s), status[s]>>
        BY <1>9, <1>10, <1>20, <4>1
      <4> QED
        BY <4>1, <4>2
    <3>2. \A s \in Slot : owned'[s] /\ status'[s].eof /\ Fits(Part(s)') =>
            \E k \in Len(Done') + 1 .. Len(complete') :
              complete'[k] = FrameOf(Number(s)', Part(s)')
      <4> SUFFICES ASSUME NEW s \in Slot, owned'[s], status'[s].eof, Fits(Part(s)')
                   PROVE  \E k \in Len(Done') + 1 .. Len(complete') :
                            complete'[k] = FrameOf(Number(s)', Part(s)')
        OBVIOUS
      <4>1. s # h
        BY <1>8, <1>21
      <4>2. owned[s] /\ UNCHANGED <<Number(s), Part(s), status[s]>>
        BY <1>9, <1>10, <4>1
      <4> QED
        BY <1>17, <2>1, <4>2 DEF StreamInv, MatchInv
    <3>3. Len(Done') <= Len(complete') /\ \A k \in 1 .. Len(Done') : Done'[k] = complete'[k]
      BY <1>17, <2>1 DEF StreamInv, MatchInv
    <3> QED
      BY <3>1, <3>2, <3>3 DEF MatchInv
  <2> QED
    BY <1>13, <1>14, <1>15, <1>16, <2>2, <2>3 DEF StreamInv
<1>22. CASE last /\ Fits(NextPart)
  <2> DEFINE f == FrameOf(NextNumber, NextPart)
  <2>1. complete' = Append(complete, f)
    <3>1. Pieces(arriving) = f
      BY <1>5, <1>22 DEF Pieces, FrameOf, last
    <3> QED
      BY <1>1, <1>5, <1>22, <3>1
  <2>2. Len(f) = NextPart /\ f[1][1] = NextNumber
    BY <1>12 DEF FrameOf
  <2> HIDE DEF f
  <2>3. /\ Len(complete') = Len(complete) + 1
        /\ complete'[Len(complete) + 1] = f
        /\ \A k \in 1 .. Len(complete) : complete'[k] = complete[k]
    <3>1. complete' \in Seq(Seq(Piece))
      BY <1>2 DEF RxInv, FrameType
    <3> QED
      BY <1>17, <2>1
  <2>4. NextNumber' = NextNumber + 1
    BY <1>11, <1>22
  <2>5. CompleteInv'
    <3>1. ASSUME NEW k \in 1 .. Len(complete')
          PROVE  /\ Len(complete'[k]) > 0 /\ Fits(Len(complete'[k]))
                 /\ complete'[k][1][1] < NextNumber'
      <4>1. CASE k = Len(complete) + 1
        BY <1>12, <1>22, <2>2, <2>3, <2>4, <4>1
      <4>2. CASE k # Len(complete) + 1
        <5>1. k \in 1 .. Len(complete)
          BY <1>17, <2>3, <4>2
        <5> QED
          BY <1>19, <2>3, <5>1
      <4> QED
        BY <4>1, <4>2
    <3>2. ASSUME NEW j \in 1 .. Len(complete'), NEW k \in 1 .. Len(complete'), j < k
          PROVE  complete'[j][1][1] < complete'[k][1][1]
      <4>1. j \in 1 .. Len(complete) /\ complete'[j] = complete[j]
        BY <1>17, <2>3, <3>2
      <4>2. CASE k = Len(complete) + 1
        BY <1>19, <2>2, <2>3, <4>1, <4>2
      <4>3. CASE k # Len(complete) + 1
        <5>1. k \in 1 .. Len(complete) /\ complete'[k] = complete[k]
          BY <1>17, <2>3, <4>3
        <5> QED
          BY <3>2, <4>1, <5>1 DEF StreamInv, CompleteInv
      <4> QED
        BY <4>2, <4>3
    <3> QED
      BY <3>1, <3>2 DEF CompleteInv
  <2>6. MatchInv'
    <3>1. /\ Len(Done) <= Len(complete)
          /\ \A k \in 1 .. Len(Done) : Done[k] = complete[k]
      BY DEF StreamInv, MatchInv
    <3>2. /\ Len(Done') <= Len(complete')
          /\ \A k \in 1 .. Len(Done') : Done'[k] = complete'[k]
      BY <1>17, <2>3, <3>1
    <3>3. ASSUME NEW k \in Len(Done') + 1 .. Len(complete')
          PROVE  \E s \in Slot : /\ owned'[s] /\ status'[s].eof
                                 /\ Number(s)' = complete'[k][1][1]
                                 /\ Part(s)' = Len(complete'[k])
      <4>1. CASE k = Len(complete) + 1
        BY <1>4, <1>8, <1>10, <1>22, <2>2, <2>3, <4>1
      <4>2. CASE k # Len(complete) + 1
        <5>1. k \in Len(Done) + 1 .. Len(complete) /\ complete'[k] = complete[k]
          BY <1>17, <2>3, <3>1, <4>2
        <5>2. PICK s \in Slot : /\ owned[s] /\ status[s].eof
                                /\ Number(s) = complete[k][1][1]
                                /\ Part(s) = Len(complete[k])
          BY <5>1 DEF StreamInv, MatchInv
        <5>3. owned'[s] /\ UNCHANGED <<Number(s), Part(s), status[s]>>
          BY <1>9, <1>10, <1>20, <5>2
        <5> QED
          BY <5>1, <5>2, <5>3
      <4> QED
        BY <4>1, <4>2
    <3>4. ASSUME NEW s \in Slot, owned'[s], status'[s].eof, Fits(Part(s)')
          PROVE  \E k \in Len(Done') + 1 .. Len(complete') :
                   complete'[k] = FrameOf(Number(s)', Part(s)')
      <4>1. CASE s = h
        <5>1. Len(complete) + 1 \in Len(Done') + 1 .. Len(complete')
          BY <1>17, <2>3, <3>1
        <5>2. complete'[Len(complete) + 1] = FrameOf(Number(s)', Part(s)')
          BY <1>8, <2>3, <4>1 DEF f
        <5> QED
          BY <5>1, <5>2
      <4>2. CASE s # h
        <5>1. owned[s] /\ UNCHANGED <<Number(s), Part(s), status[s]>>
          BY <1>9, <1>10, <3>4, <4>2
        <5>2. PICK k \in Len(Done) + 1 .. Len(complete) :
                complete[k] = FrameOf(Number(s), Part(s))
          BY <3>4, <5>1 DEF StreamInv, MatchInv
        <5>3. k \in Len(Done') + 1 .. Len(complete') /\ complete'[k] = complete[k]
          BY <1>17, <2>3
        <5>4. complete'[k] = FrameOf(Number(s)', Part(s)')
          BY <5>1, <5>2, <5>3
        <5> QED
          BY <5>3, <5>4
      <4> QED
        BY <4>1, <4>2
    <3> QED
      BY <3>2, <3>3, <3>4 DEF MatchInv
  <2> QED
    BY <1>13, <1>14, <1>15, <1>16, <2>5, <2>6 DEF StreamInv
<1> QED
  BY <1>21, <1>22

-----------------------------------------------------------------------------

(* Nothing has arrived at first.                                           *)
LEMMA InitStream == Init => StreamInv
<1> SUFFICES ASSUME Init PROVE StreamInv
  OBVIOUS
<1>1. 0 \in Slot /\ \A s \in Slot : ~owned[s]
  BY SizeAssumption DEF Init, Slot
<1>2. StatusInv /\ OrderInv
  BY <1>1 DEF StatusInv, OrderInv
<1>3. HeadInv /\ CopyInv
  BY <1>1 DEF Init, HeadInv, CopyInv, NextPart
<1>4. Len(complete) = 0 /\ Len(Done) = 0
  BY DEF Init, Done
<1>5. CompleteInv /\ MatchInv
  BY <1>1, <1>4 DEF CompleteInv, MatchInv
<1> QED
  BY <1>2, <1>3, <1>5 DEF StreamInv

(* Every step keeps the invariant of the whole path.                       *)
LEMMA FullInvStep == FullInv /\ [Next]_vars => FullInv'
<1> SUFFICES ASSUME FullInv, [Next]_vars PROVE FullInv'
  OBVIOUS
<1>1. RxInv /\ RxInv'
  BY RxInvStep DEF FullInv
<1>2. ASSUME ~cut' PROVE StreamInv'
  <2>1. ~cut
    BY <1>2 DEF Next, FrameBegins, PieceArrives, NoBuffer, Handler, Ethint,
       DevRead, ReadBegin, GatherNone, GatherSkip, GatherWhole, GatherPiece,
       GatherLast, SetRxCallback, NotifyStateClear, NotifyWait, Input,
       InputError, Wake, dma, vars
  <2>2. StreamInv
    BY <2>1 DEF FullInv
  <2>3. CASE UNCHANGED vars
    <3>1. UNCHANGED <<rxRing, dma, reading, pc, delivered>>
      BY <2>3 DEF vars
    <3>2. UNCHANGED <<NextNumber, NextPart>>
      BY <3>1 DEF NextNumber, NextPart, dma
    <3>3. Done' = Done /\ CopyInv'
      BY <2>2, <3>1 DEF Done, StreamInv, CopyInv, Place, Number, Part,
         rxRing, reading
    <3> QED
      BY <1>1, <2>2, <3>1, <3>2, <3>3, SameRing, NextFacts DEF dma
  <2> QED
    BY <1>1, <1>2, <2>2, <2>3, FrameBeginsStream, PieceArrivesStream,
       NoBufferStream, HandlerStream, TaskStepStream, GatherSkipStream,
       GatherWholeStream, GatherPieceStream, GatherLastStream DEF Next,
       Ethint, DevRead, TaskStep
<1> QED
  BY <1>1, <1>2 DEF FullInv

(* It holds in every behaviour.                                            *)
LEMMA FullInvIsInvariant == Spec => []FullInv
<1>1. Init => FullInv
  BY InitRxInv, InitStream DEF FullInv
<1> QED
  BY <1>1, FullInvStep, PTL DEF Spec

(* It says what FramesInOrder says.                                        *)
LEMMA FullInvInOrder == FullInv => FramesInOrder
<1> SUFFICES ASSUME RxInv, StreamInv PROVE IsPrefix(delivered, complete)
  BY DEF FullInv, FramesInOrder
<1>1. /\ delivered \in Seq(Seq(Piece)) /\ complete \in Seq(Seq(Piece))
      /\ copied \in Seq(Piece)
  BY DEF RxInv, FrameType, TaskType
<1>2. /\ Len(delivered) \in Nat /\ Len(delivered) <= Len(Done) /\ Len(Done) \in Nat
      /\ \A k \in 1 .. Len(delivered) : Done[k] = delivered[k]
  BY <1>1 DEF Done
<1>3. /\ Len(delivered) <= Len(complete)
      /\ \A k \in 1 .. Len(delivered) : delivered[k] = complete[k]
  BY <1>1, <1>2 DEF StreamInv, MatchInv
<1>4. SubSeq(complete, 1, Len(delivered)) = delivered
  <2>1. SubSeq(complete, 1, Len(delivered))
          = [k \in 1 .. Len(delivered) |-> complete[k]]
    BY <1>1, <1>2, <1>3
  <2>2. delivered = [k \in 1 .. Len(delivered) |-> delivered[k]]
    BY <1>1
  <2> QED
    BY <1>3, <2>1, <2>2
<1> QED
  BY <1>1, <1>3, <1>4 DEF IsPrefix

(* FramesInOrder: for rings, frames and buffers of any size, as long as    *)
(* the DMA never cut a frame short, lwIP gets the frames that arrived      *)
(* completely and fit its buffer, each once, whole and in the order of     *)
(* arrival, however long frames and full rings come between.               *)
THEOREM FramesReachLwip == Spec => []FramesInOrder
BY FullInvIsInvariant, FullInvInOrder, PTL
=============================================================================
