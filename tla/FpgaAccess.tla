----------------------------- MODULE FpgaAccess -----------------------------
(***************************************************************************)
(* Access to the FPGA's registers: udp_server_callback of BasicUDP.c and   *)
(* the `m' and `d' commands of BasicTelnet.c, on top of the functions of   *)
(* fpga_twi.c.                                                             *)
(*                                                                         *)
(* The FPGA is a TWI slave that keeps an address between transactions: a   *)
(* register is written by one transaction with the address and one with    *)
(* the data, and read by one with the address, one with a command and one  *)
(* that fetches the result.  Nothing makes these sequences exclusive, nor  *)
(* the transactions themselves, and the calling task sleeps inside each of *)
(* them: the transactions of two tasks interleave and overlap.  A          *)
(* transaction is entered in one step and ended in another, and the FPGA   *)
(* acts on it when it ends.  The driver may report an error before or      *)
(* after the FPGA has acted, and it may report a success that was none     *)
(* (see TwiMaster).  Of a transaction that overlapped another nothing is   *)
(* known.                                                                  *)
(***************************************************************************)
EXTENDS FpgaRegisters

CONSTANTS
  Users,  \* the tasks that access registers: "udp", "telnet"
  None,   \* no request; no value
  UdpRequests,    \* bound: the requests of a UDP client
  TelnetRequests  \* bound: the accesses of a Telnet session

ASSUME UsersAssumption == "udp" \in Users /\ Users \subseteq {"udp", "telnet"}
ASSUME NoneAssumption == None \notin Request \cup Data
ASSUME RequestsAssumption ==
  /\ UdpRequests \subseteq Request
  /\ TelnetRequests \subseteq
       {r \in Request : r.version = 2 /\ r.type \in {READ_16, WRITE_16}}

VARIABLES
  mem,     \* the registers
  opb,     \* the address that the FPGA keeps
  latch,   \* the result of the FPGA's last read
  pc,      \* program point of each task
  req,     \* sHdr at the call, or the arguments of the Telnet command
  status,  \* sHdr->status
  data,    \* the data field of the reply
  wrote,   \* the FPGA has performed the write of the request (history)
  answer,  \* the reply of the UDP server to the last request
  bus,     \* is the task inside a transaction, and has that overlapped
           \* another one?
  crossed, \* history: a transaction of another task overlapped one of the
           \* request, or came between two that belong together
  deceived \* history: the driver reported a success that was none

slave == <<mem, opb, latch>>
fpga == <<slave, wrote>>
request == <<req, answer>>
history == <<crossed, deceived>>
vars == <<fpga, pc, request, status, data, bus, history>>

Point ==
  {"idle", "dispatch", "writeAddress", "writeData", "readAddress", "readCommand",
   "readData", "reply"}

Reading == {"readAddress", "readCommand", "readData"}
Writing == {"writeAddress", "writeData"}

Status == {"OK", "TIMEOUT", "INVALID_CMD"}

NoAnswer == [status |-> "OK", data |-> <<0, 0>>]

(* Addresses stay inside the register file and each task inside its code.  *)
TypeOK ==
  /\ mem \in Memory
  /\ opb \in Word
  /\ latch \in Data
  /\ pc \in [Users -> Point]
  /\ req \in [Users -> Request \cup {None}]
  /\ \A t \in Users : req[t] = None <=> pc[t] = "idle"
  /\ status \in [Users -> Status]
  /\ data \in [Users -> Data]
  /\ wrote \in [Users -> BOOLEAN]
  /\ answer \in [status : Status, data : Data]
  /\ bus \in [Users -> {"off", "alone", "mixed"}]
  /\ \A t \in Users : bus[t] # "off" => pc[t] \in Reading \cup Writing
  /\ crossed \in [Users -> BOOLEAN]
  /\ deceived \in [Users -> BOOLEAN]

Init ==
  /\ mem \in Memory
  /\ opb = 0
  /\ latch = <<0, 0>>
  /\ pc = [t \in Users |-> "idle"]
  /\ req = [t \in Users |-> None]
  /\ status = [t \in Users |-> "OK"]
  /\ data = [t \in Users |-> <<0, 0>>]
  /\ wrote = [t \in Users |-> FALSE]
  /\ answer = NoAnswer
  /\ bus = [t \in Users |-> "off"]
  /\ crossed = [t \in Users |-> FALSE]
  /\ deceived = [t \in Users |-> FALSE]

At(t, point) == pc[t] = point

Goto(t, point) == pc' = [pc EXCEPT ![t] = point]

(* A transaction of t comes in the way of the tasks at these points.       *)
Cross(t, points) ==
  crossed' = [u \in Users |-> crossed[u] \/ (u # t /\ pc[u] \in points)]

(* The points between the address and the transaction that relies on it,   *)
(* and between the command and the transaction that fetches the result.    *)
HoldsAddress == {"writeData", "readCommand"}
HoldsResult == {"readData"}

-----------------------------------------------------------------------------
(* The FPGA.                                                               *)

SetAddress(a) == opb' = a /\ UNCHANGED <<mem, latch, wrote>>

Put(a, d) ==
  [w \in Word |-> IF w - a + 1 \in DOMAIN d THEN d[w - a + 1] ELSE mem[w]]

StoreData(t, d) ==
  /\ mem' = Put(opb, d)
  /\ wrote' = [wrote EXCEPT ![t] = TRUE]
  /\ UNCHANGED <<opb, latch>>

(* A read of 16 bits leaves the other half of the result undefined, and so *)
(* does a read of 32 bits from the middle of a register.                   *)
LatchData(wide) ==
  /\ \E v \in Value :
       latch' = <<mem[opb], IF wide /\ opb % 2 = 0 THEN mem[opb + 1] ELSE v>>
  /\ UNCHANGED <<mem, opb, wrote>>

(* A register changes on its own.                                          *)
Change ==
  /\ \E w \in Word, v \in Value : mem' = [mem EXCEPT ![w] = v]
  /\ UNCHANGED <<opb, latch, wrote, pc, request, status, data, bus, history>>

-----------------------------------------------------------------------------
(* udp_server_callback.                                                    *)

(* A packet of 12 or 16 bytes in one pbuf; others are ignored.  A Telnet   *)
(* command uses the functions for 16 bits only.                            *)
Begin(t) ==
  /\ At(t, "idle")
  /\ \E r \in IF t = "udp" THEN UdpRequests ELSE TelnetRequests :
       req' = [req EXCEPT ![t] = r]
  /\ wrote' = [wrote EXCEPT ![t] = FALSE]
  /\ answer' = IF t = "udp" THEN NoAnswer ELSE answer
  /\ Goto(t, "dispatch")
  /\ UNCHANGED <<slave, status, data, bus, history>>

Refused(r) == r.type = 0 \/ (r.version = 1 /\ Is32(r))

Dispatch(t) ==
  /\ At(t, "dispatch")
  /\ status' = [status EXCEPT ![t] = IF Refused(req[t]) THEN "INVALID_CMD" ELSE "OK"]
  /\ data' = [data EXCEPT ![t] = req[t].data]
  /\ Goto(t, IF Refused(req[t]) THEN "reply"
             ELSE IF Writes(req[t]) THEN "writeAddress" ELSE "readAddress")
  /\ UNCHANGED <<fpga, request, bus, history>>

(* A failed write ends a request for 16 bits.  A request for 32 bits goes  *)
(* on to the readback, and the Telnet command does not look at the result. *)
WriteFailed(t) ==
  IF t = "telnet"
  THEN Goto(t, "readAddress") /\ UNCHANGED status
  ELSE /\ status' = [status EXCEPT ![t] = "TIMEOUT"]
       /\ Goto(t, IF req[t].type = WRITE_32 THEN "readAddress" ELSE "reply")

(* A failed read leaves an undefined value in a data field of 32 bits.     *)
ReadFailed(t) ==
  /\ status' = [status EXCEPT ![t] = "TIMEOUT"]
  /\ \E d \in Data :
       data' = IF Is32(req[t]) THEN [data EXCEPT ![t] = d] ELSE data
  /\ Goto(t, "reply")

(* Mutant: the packet is not freed.                                        *)
ReplyKeepsPacket(t) ==
  /\ At(t, "reply")
  /\ answer' = IF t = "udp" THEN [status |-> status[t], data |-> data[t]]
               ELSE answer
  /\ status' = [status EXCEPT ![t] = "OK"]
  /\ data' = [data EXCEPT ![t] = <<0, 0>>]
  /\ wrote' = [wrote EXCEPT ![t] = FALSE]
  /\ crossed' = [crossed EXCEPT ![t] = FALSE]
  /\ deceived' = [deceived EXCEPT ![t] = FALSE]
  /\ Goto(t, "idle")
  /\ UNCHANGED <<slave, req, bus>>

(* The reply is sent; the request of the call is gone.                      *)
Reply(t) ==
  /\ At(t, "reply")
  /\ answer' = IF t = "udp" THEN [status |-> status[t], data |-> data[t]]
               ELSE answer
  /\ req' = [req EXCEPT ![t] = None]
  /\ status' = [status EXCEPT ![t] = "OK"]
  /\ data' = [data EXCEPT ![t] = <<0, 0>>]
  /\ wrote' = [wrote EXCEPT ![t] = FALSE]
  /\ crossed' = [crossed EXCEPT ![t] = FALSE]
  /\ deceived' = [deceived EXCEPT ![t] = FALSE]
  /\ Goto(t, "idle")
  /\ UNCHANGED <<slave, bus>>

-----------------------------------------------------------------------------
(* twi_master_read and twi_master_write.                                   *)

(* No lock keeps a second task out: from now on the bytes, the interrupts  *)
(* and the state of the driver belong to both.                             *)
Enter(t) ==
  /\ pc[t] \in Reading \cup Writing
  /\ bus[t] = "off"
  /\ bus' = [u \in Users |->
               IF u # t THEN IF bus[u] = "off" THEN "off" ELSE "mixed"
               ELSE IF \E v \in Users \ {t} : bus[v] # "off" THEN "mixed" ELSE "alone"]
  /\ crossed' = [u \in Users |-> crossed[u] \/ bus'[u] = "mixed"]
  /\ UNCHANGED <<fpga, pc, request, status, data, deceived>>

(* A transaction that was alone ends.                                      *)
Ends(t, point) ==
  /\ At(t, point)
  /\ bus[t] = "alone"
  /\ bus' = [bus EXCEPT ![t] = "off"]

(* The driver returns TWI_SUCCESS: the FPGA has acted, or it has refused a *)
(* byte and the driver has lost the NACK.                                  *)
Success(t, Acts) ==
  \/ Acts /\ UNCHANGED deceived
  \/ UNCHANGED fpga /\ deceived' = [deceived EXCEPT ![t] = TRUE]

(* It returns an error: the FPGA may have acted or not.                    *)
Failure(Acts) ==
  /\ Acts \/ UNCHANGED fpga
  /\ UNCHANGED deceived

-----------------------------------------------------------------------------
(* fpga_write_short and fpga_write_long.                                   *)

(* Mutant: the data is sent although the address may not have arrived.     *)
WriteAddressUnchecked(t) ==
  /\ Ends(t, "writeAddress")
  /\ Failure(SetAddress(req[t].addr))
  /\ Goto(t, "writeData")
  /\ Cross(t, HoldsAddress)
  /\ UNCHANGED <<request, status, data>>

WriteAddress(t) ==
  /\ Ends(t, "writeAddress")
  /\ \/ /\ Success(t, SetAddress(req[t].addr))
        /\ Goto(t, "writeData")
        /\ UNCHANGED status
     \/ /\ Failure(SetAddress(req[t].addr))
        /\ WriteFailed(t)
  /\ Cross(t, HoldsAddress)
  /\ UNCHANGED <<request, data>>

(* The value that is sent: the low half of the data field, or all of it.   *)
Payload(r) == IF Is32(r) THEN r.data ELSE <<r.data[2]>>

Written(r) == IF Reads(r) THEN "readAddress" ELSE "reply"

WriteData(t) ==
  /\ Ends(t, "writeData")
  /\ \/ /\ Success(t, StoreData(t, Payload(req[t])))
        /\ Goto(t, Written(req[t]))
        /\ UNCHANGED status
     \/ /\ Failure(StoreData(t, Payload(req[t])))
        /\ WriteFailed(t)
  /\ UNCHANGED <<request, data, crossed>>

-----------------------------------------------------------------------------
(* fpga_read_short and fpga_read_long.                                     *)

ReadAddress(t) ==
  /\ Ends(t, "readAddress")
  /\ \/ /\ Success(t, SetAddress(req[t].addr))
        /\ Goto(t, "readCommand")
        /\ UNCHANGED <<status, data>>
     \/ /\ Failure(SetAddress(req[t].addr))
        /\ ReadFailed(t)
  /\ Cross(t, HoldsAddress)
  /\ UNCHANGED request

(* Mutant: the result is fetched although the command may have failed.     *)
ReadCommandUnchecked(t) ==
  /\ Ends(t, "readCommand")
  /\ Failure(LatchData(Is32(req[t])))
  /\ Goto(t, "readData")
  /\ Cross(t, HoldsResult)
  /\ UNCHANGED <<request, status, data>>

ReadCommand(t) ==
  /\ Ends(t, "readCommand")
  /\ \/ /\ Success(t, LatchData(Is32(req[t])))
        /\ Goto(t, "readData")
        /\ UNCHANGED <<status, data>>
     \/ /\ Failure(LatchData(Is32(req[t])))
        /\ ReadFailed(t)
  /\ Cross(t, HoldsResult)
  /\ UNCHANGED request

(* The data field of a reply, from what was fetched.                       *)
Shown(r, d) == IF Is32(r) THEN d ELSE <<0, d[1]>>

Field(r) == Shown(r, latch)

(* fpga_read_data takes TWI_ERROR_TIMEOUT_COMP for a success.  A byte that *)
(* an earlier transaction left in the receiver shifts all of the result.   *)
ReadData(t) ==
  /\ Ends(t, "readData")
  /\ \/ /\ \/ data' = [data EXCEPT ![t] = Field(req[t])] /\ UNCHANGED deceived
           \/ /\ \E d \in Data : data' = [data EXCEPT ![t] = Shown(req[t], d)]
              /\ deceived' = [deceived EXCEPT ![t] = TRUE]
        /\ Goto(t, "reply")
        /\ UNCHANGED status
     \/ ReadFailed(t) /\ UNCHANGED deceived
  /\ UNCHANGED <<fpga, request, crossed>>

(* What the FPGA makes of the bytes of two transactions: any message, or   *)
(* none.                                                                   *)
Mixture ==
  \/ opb' \in Word /\ UNCHANGED <<mem, latch>>
  \/ /\ \E d \in {<<v>> : v \in Value} \cup Data : mem' = Put(opb, d)
     /\ UNCHANGED <<opb, latch>>
  \/ latch' \in Data /\ UNCHANGED <<mem, opb>>

(* A transaction that overlapped another one ends: any message may have    *)
(* reached the FPGA and any result may be reported.                        *)
Onward(t) ==
  CASE At(t, "writeAddress") -> "writeData"
    [] At(t, "writeData")    -> Written(req[t])
    [] At(t, "readAddress")  -> "readCommand"
    [] At(t, "readCommand")  -> "readData"
    [] At(t, "readData")     -> "reply"

Garbled(t) ==
  /\ bus[t] = "mixed"
  /\ bus' = [bus EXCEPT ![t] = "off"]
  /\ Mixture
  /\ \/ /\ Goto(t, Onward(t))
        /\ \/ UNCHANGED data
           \/ /\ At(t, "readData")
              /\ \E d \in Data : data' = [data EXCEPT ![t] = Shown(req[t], d)]
        /\ UNCHANGED status
     \/ pc[t] \in Writing /\ WriteFailed(t) /\ UNCHANGED data
     \/ pc[t] \in Reading /\ ReadFailed(t)
  /\ Cross(t, HoldsAddress \cup HoldsResult)
  /\ UNCHANGED <<wrote, request, deceived>>

Step(t) ==
  \/ Dispatch(t)
  \/ Enter(t)
  \/ Garbled(t)
  \/ WriteAddress(t)
  \/ WriteData(t)
  \/ ReadAddress(t)
  \/ ReadCommand(t)
  \/ ReadData(t)
  \/ Reply(t)

Next == Change \/ \E t \in Users : Begin(t) \/ Step(t)

Spec == Init /\ [][Next]_vars

-----------------------------------------------------------------------------
(* Properties.                                                             *)

(* What happens to the request of t is no longer what it asked for.        *)
Spoilt(t) == crossed[t] \/ deceived[t]

(* "The address field specifies the address of the requested register":    *)
(* the write of a request changes no other register, whichever             *)
(* transactions failed before it, unless another task was on the bus       *)
(* during or between the two transactions of the write, or the driver      *)
(* reported that the address had been taken when it had been refused.      *)
WritesWhereAsked ==
  [][\A t \in Users :
       (At(t, "writeData") /\ pc'[t] # "writeData" /\ ~Spoilt(t)) =>
         \A w \in Word : mem'[w] # mem[w] => w \in Words(req[t])]_vars

(* What has been read for the request of the UDP server.                   *)
ServiceValue ==
  IF At("udp", "readData") THEN Field(req["udp"])
  ELSE IF At("udp", "reply") /\ status["udp"] = "OK" /\ Reads(req["udp"])
       THEN data["udp"] ELSE None

Service == INSTANCE RegisterService WITH
  request <- req["udp"], wrote <- wrote["udp"], value <- ServiceValue

(* The reply to a type of access that the code serves in both versions of  *)
(* the protocol and src/README.md in version 2 only: with status -3 for    *)
(* "a value that is not supported for the respective version".             *)
UndocumentedReply ==
  /\ At("udp", "reply")
  /\ req["udp"].version = 1
  /\ req["udp"].type = WRITE_16_NO_READBACK

(* The UDP server keeps the promises of RegisterService, whatever the      *)
(* Telnet session does meanwhile: a reply with status zero tells what was  *)
(* done and what the register contained.  The exceptions are a request     *)
(* whose transactions were crossed, one for which the driver reported a    *)
(* success that was none (the next request is served again), and the reply *)
(* to an access without readback in version 1.                             *)
ImplementsService ==
  /\ Service!ServiceInit
  /\ [][Spoilt("udp") \/ Spoilt("udp")' \/ UndocumentedReply
         \/ Service!ServiceNext]_(Service!serviceVars)
=============================================================================
