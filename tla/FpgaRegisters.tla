---------------------------- MODULE FpgaRegisters ----------------------------
(***************************************************************************)
(* The FPGA's registers and the requests of the UDP protocol (BasicUDP.h). *)
(* A register has two words of 16 bits; the word at its address is the     *)
(* high one.  A data field is a pair <<high word, low word>>; data_v1 is   *)
(* the low word.                                                           *)
(***************************************************************************)
EXTENDS Naturals

CONSTANTS
  Registers,  \* how many registers of 32 bits there are
  Value       \* the values of a word of 16 bits

ASSUME RegistersAssumption == Registers \in Nat \ {0}
ASSUME ValueAssumption == 0 \in Value

Word == 0 .. 2 * Registers - 1

Data == Value \X Value

Memory == [Word -> Value]

(* Access types: 1 to 3 are accesses to 16 bits, 4 to 6 to 32 bits; 0      *)
(* stands for every other number.                                          *)
AccessType == 0 .. 6
READ_16 == 1
WRITE_16 == 2
WRITE_16_NO_READBACK == 3
READ_32 == 4
WRITE_32 == 5
WRITE_32_NO_READBACK == 6

Is32(r) == r.type \in {READ_32, WRITE_32, WRITE_32_NO_READBACK}

Writes(r) ==
  r.type \in {WRITE_16, WRITE_16_NO_READBACK, WRITE_32, WRITE_32_NO_READBACK}

Reads(r) == r.type \in {READ_16, WRITE_16, READ_32, WRITE_32}

(* Requests for 32 bits name the first word of a register.                 *)
Request ==
  {r \in [version : {1, 2}, type : AccessType, addr : Word, data : Data] :
     /\ Is32(r) => r.addr % 2 = 0
     /\ r.version = 1 => r.data[1] = 0
     /\ ~Writes(r) => r.data = <<0, 0>>}

(* The words that a request for a register is about.                       *)
Words(r) == IF Is32(r) THEN {r.addr, r.addr + 1} ELSE {r.addr}
=============================================================================
