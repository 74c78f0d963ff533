------------------------------ MODULE XvcShift ------------------------------
(***************************************************************************)
(* The bit loop of xvc_server_do_shift.  TMS and TDI vectors are clocked   *)
(* out least significant bit first, and TDO is written over TDI in the     *)
(* same buffer while the loop is still reading TDI from it.                *)
(*                                                                         *)
(* A byte is a function from bit numbers to bits.  The loop body runs in   *)
(* one task without touching shared state, so an iteration is one step.    *)
(***************************************************************************)
EXTENDS Naturals, Sequences

CONSTANTS
  ByteBits,  \* bits in a byte (8 in the code)
  MaxLength  \* bound on length_in_bits

ASSUME ByteBitsAssumption == ByteBits \in Nat \ {0}
ASSUME MaxLengthAssumption == MaxLength \in Nat \ {0}

Bit == {0, 1}
BitNumber == 0 .. ByteBits - 1
Byte == [BitNumber -> Bit]
ZeroByte == [k \in BitNumber |-> 0]

BitsToBytes(n) == (n + ByteBits - 1) \div ByteBits

VARIABLES
  length,    \* length_in_bits
  lastByte,  \* last_byte_index
  tdi,       \* the TDI vector that the client sent
  tms,       \* tms_bytes
  bytes,     \* tdi_tdo_bytes
  bitIndex,  \* bit_index
  nextByte, nextBit,         \* next_byte_index, next_bit_index_in_byte
  tdiNextByte, tmsNextByte,  \* tdi_next_byte, tms_next_byte
  nextTdi, nextTms,          \* next_tdi, next_tms
  sentTdi, sentTms,  \* the bits that the JTAG chain has been clocked with
  tdo                \* the bits that it has answered

loopVars == <<length, lastByte, tdi, tms, bytes, bitIndex, nextByte, nextBit,
              tdiNextByte, tmsNextByte, nextTdi, nextTms, sentTdi, sentTms, tdo>>

(* (byte >> k) & 1; a shift by the full width yields 0.                    *)
BitOf(byte, k) == IF k < ByteBits THEN byte[k] ELSE 0

Or(a, b) == IF a = 1 THEN 1 ELSE b

(* The code before the loop: the first byte is loaded and its place in the *)
(* buffer cleared.                                                         *)
LoopInit ==
  /\ length \in 1 .. MaxLength
  /\ lastByte = BitsToBytes(length) - 1
  /\ tdi \in [0 .. lastByte -> Byte]
  /\ tms \in [0 .. lastByte -> Byte]
  /\ bytes = [tdi EXCEPT ![0] = ZeroByte]
  /\ bitIndex = 0
  /\ nextByte = 0
  /\ nextBit = 0
  /\ tdiNextByte = tdi[0]
  /\ tmsNextByte = tms[0]
  /\ nextTdi = BitOf(tdi[0], 0)
  /\ nextTms = BitOf(tms[0], 0)
  /\ sentTdi = <<>>
  /\ sentTms = <<>>
  /\ tdo = <<>>

(* Mutant: the byte's place is cleared before the byte is fetched.         *)
LoadByteCleared ==
  /\ nextBit = ByteBits - 1
  /\ nextByte # lastByte
  /\ nextByte' = nextByte + 1
  /\ nextBit' = 0
  /\ tdiNextByte' = ZeroByte
  /\ tmsNextByte' = tms[nextByte + 1]

(* While TCK is high the loop prepares the next bit: at the end of a byte  *)
(* it fetches the next one and clears its place ...                        *)
LoadByte ==
  /\ nextBit = ByteBits - 1
  /\ nextByte # lastByte
  /\ nextByte' = nextByte + 1
  /\ nextBit' = 0
  /\ tdiNextByte' = bytes[nextByte + 1]
  /\ tmsNextByte' = tms[nextByte + 1]

(* ... otherwise it moves on to the next bit.                              *)
AdvanceBit ==
  /\ nextBit # ByteBits - 1 \/ nextByte = lastByte
  /\ nextBit' = nextBit + 1
  /\ UNCHANGED <<nextByte, tdiNextByte, tmsNextByte>>

(* Mutant: the place of a fetched byte is not cleared.                     *)
NotCleared == bytes

(* The buffer after the fetch, which clears a byte that was fetched.       *)
Cleared == IF nextByte' = nextByte THEN bytes
           ELSE [bytes EXCEPT ![nextByte'] = ZeroByte]

(* One iteration: the prepared bits are clocked out, the next ones         *)
(* prepared, and the chain's answer is or-ed into the buffer.              *)
ShiftBit ==
  /\ bitIndex < length
  /\ sentTdi' = Append(sentTdi, nextTdi)
  /\ sentTms' = Append(sentTms, nextTms)
  /\ LoadByte \/ AdvanceBit
  /\ nextTdi' = BitOf(tdiNextByte', nextBit')
  /\ nextTms' = BitOf(tmsNextByte', nextBit')
  /\ \E answer \in Bit :
       /\ tdo' = Append(tdo, answer)
       /\ bytes' = [Cleared EXCEPT ![nextByte][nextBit] = Or(@, answer)]
  /\ bitIndex' = bitIndex + 1
  /\ UNCHANGED <<length, lastByte, tdi, tms>>

LoopNext == ShiftBit

LoopSpec == LoopInit /\ [][LoopNext]_loopVars

-----------------------------------------------------------------------------
(* Properties.                                                             *)

(* The place of bit k of byte b in the sequence of all bits.               *)
Place(b, k) == ByteBits * b + k + 1

(* The indices stay inside the vectors and the byte, and the chain has     *)
(* been clocked once for each bit that the loop has counted.               *)
LoopType ==
  /\ length \in 1 .. MaxLength
  /\ lastByte \in Nat
  /\ tdi \in [0 .. lastByte -> Byte]
  /\ tms \in [0 .. lastByte -> Byte]
  /\ bytes \in [0 .. lastByte -> Byte]
  /\ bitIndex \in 0 .. length
  /\ nextByte \in 0 .. lastByte
  /\ nextBit \in 0 .. ByteBits
  /\ tdiNextByte \in Byte
  /\ tmsNextByte \in Byte
  /\ nextTdi \in Bit
  /\ nextTms \in Bit
  /\ sentTdi \in Seq(Bit) /\ Len(sentTdi) = bitIndex
  /\ sentTms \in Seq(Bit) /\ Len(sentTms) = bitIndex
  /\ tdo \in Seq(Bit) /\ Len(tdo) = bitIndex

(* "The bits are shifted out least significant byte and least significant  *)
(* bit first": the chain sees the client's TDI and TMS bits, each at its   *)
(* place, although TDO overwrites TDI during the loop.                     *)
SentInOrder ==
  \A b \in 0 .. lastByte, k \in BitNumber :
    Place(b, k) <= bitIndex =>
      /\ sentTdi[Place(b, k)] = tdi[b][k]
      /\ sentTms[Place(b, k)] = tms[b][k]

(* "The resulting TDO bits are returned in tdi_tdo_bytes": when the loop   *)
(* ends each TDO bit is at its place, and the unused bits of the last byte *)
(* are zero, not left over from TDI.                                       *)
TdoReturned ==
  bitIndex = length =>
    \A b \in 0 .. lastByte, k \in BitNumber :
      bytes[b][k] = IF Place(b, k) <= length THEN tdo[Place(b, k)] ELSE 0

(* The loop invariant.  The position in bytes and bits agrees with the     *)
(* number of bits done; the byte being read is the client's although its   *)
(* place in the buffer has been cleared; the bytes after it are still      *)
(* the client's and those up to it hold TDO.                               *)
LoopInv ==
  /\ LoopType
  /\ ByteBits * lastByte < length
  /\ length <= ByteBits * lastByte + ByteBits
  /\ bitIndex = ByteBits * nextByte + nextBit
  /\ nextBit = ByteBits => nextByte = lastByte
  /\ tdiNextByte = tdi[nextByte]
  /\ tmsNextByte = tms[nextByte]
  /\ nextTdi = BitOf(tdiNextByte, nextBit)
  /\ nextTms = BitOf(tmsNextByte, nextBit)
  /\ \A b \in 0 .. lastByte : b > nextByte => bytes[b] = tdi[b]
  /\ \A b \in 0 .. nextByte, k \in BitNumber :
       bytes[b][k] = IF Place(b, k) <= bitIndex THEN tdo[Place(b, k)] ELSE 0
  /\ SentInOrder
=============================================================================
