-------------------------- MODULE FpgaAccessProofs --------------------------
(***************************************************************************)
(* Proof that the accesses to the FPGA's registers go where they were      *)
(* asked to and that the UDP server implements RegisterService, for any    *)
(* number of registers, any values of a word, and any requests.            *)
(***************************************************************************)
EXTENDS FpgaAccess, Integers, TLAPS

(* What a task knows about its request at each program point.  The address *)
(* that the FPGA keeps is its own unless the request is spoilt; the write  *)
(* is done at most once; an error is never forgotten, except by the Telnet *)
(* command, which does not look at it; a transaction that overlapped       *)
(* another one has spoilt the request.                                     *)
UserInv(t) ==
  /\ (t = "telnet" /\ pc[t] # "idle") => req[t].type \in {READ_16, WRITE_16}
  /\ pc[t] \in {"dispatch", "writeAddress", "writeData"} => ~wrote[t]
  /\ pc[t] \in {"writeAddress", "writeData"} => Writes(req[t])
  /\ pc[t] \in Reading => Reads(req[t])
  /\ pc[t] \in HoldsAddress /\ ~Spoilt(t) => opb = req[t].addr
  /\ (t = "udp" /\ pc[t] \in Reading \cup {"reply"} /\ status[t] = "OK"
      /\ Writes(req[t]) /\ ~Spoilt(t)) => wrote[t]
  /\ status[t] = "INVALID_CMD" => pc[t] = "reply" /\ Refused(req[t]) /\ ~wrote[t]
  /\ pc[t] \notin {"idle", "dispatch"} /\ Refused(req[t]) => status[t] = "INVALID_CMD"
  /\ bus[t] = "mixed" => crossed[t]

AccessInv == TypeOK /\ \A t \in Users : UserInv(t)

-----------------------------------------------------------------------------
(* A wide access to an even word stays inside the register file.           *)
LEMMA SecondWord == \A a \in Word : a % 2 = 0 => a + 1 \in Word
BY RegistersAssumption DEF Word

(* The data of a request that failed is a pair of words.                   *)
LEMMA ZeroData == <<0, 0>> \in Data
BY ValueAssumption DEF Data

(* The fields of a request have their types, and a 32 bit one is aligned.  *)
LEMMA RequestFields ==
  ASSUME NEW r \in Request
  PROVE  /\ r # None
         /\ r.version \in {1, 2} /\ r.type \in AccessType
         /\ r.addr \in Word /\ r.data \in Data
         /\ Is32(r) => r.addr % 2 = 0
BY NoneAssumption DEF Request

(* The invariant holds before the first request.                           *)
LEMMA InitAccessInv == Init => AccessInv
<1> SUFFICES ASSUME Init PROVE AccessInv
  OBVIOUS
<1>1. 0 \in Word
  BY RegistersAssumption DEF Word
<1>2. TypeOK
  BY <1>1, ZeroData DEF Init, TypeOK, Point, Status, NoAnswer
<1>3. ASSUME NEW t \in Users PROVE UserInv(t)
  BY DEF Init, UserInv, Reading, HoldsAddress
<1> QED
  BY <1>2, <1>3 DEF AccessInv

(* What the FPGA stores keeps the types.                                   *)
LEMMA PutType ==
  ASSUME TypeOK, NEW d, d \in Data \/ d \in {<<v>> : v \in Value}
  PROVE  Put(opb, d) \in Memory
<1>1. \A i \in DOMAIN d : d[i] \in Value
  BY DEF Data
<1> QED
  BY <1>1 DEF Put, TypeOK, Memory

(* What the FPGA latches for a read is a pair of words.                    *)
LEMMA LatchDataType ==
  ASSUME TypeOK, NEW wide \in BOOLEAN, LatchData(wide)
  PROVE  /\ latch' \in Data /\ UNCHANGED <<mem, opb, wrote>>
         /\ latch'[1] = mem[opb]
         /\ wide /\ opb % 2 = 0 => latch'[2] = mem[opb + 1]
BY SecondWord DEF LatchData, TypeOK, Memory, Data

(* Bytes of two transactions are a message or none.                        *)
LEMMA MixtureType ==
  ASSUME TypeOK, Mixture PROVE mem' \in Memory /\ opb' \in Word /\ latch' \in Data
BY PutType DEF Mixture, TypeOK

-----------------------------------------------------------------------------
(* Every step preserves the invariant.                                     *)
LEMMA ChangeInv == ASSUME AccessInv, Change PROVE AccessInv'
<1>1. TypeOK'
  BY DEF AccessInv, TypeOK, Change, Memory, request, history
<1>2. ASSUME NEW t \in Users PROVE UserInv(t)'
  BY DEF AccessInv, UserInv, Change, Spoilt, request, history
<1> QED
  BY <1>1, <1>2 DEF AccessInv

(* A new packet or Telnet line starts with nothing written.                *)
LEMMA BeginInv ==
  ASSUME AccessInv, NEW t \in Users, Begin(t) PROVE AccessInv'
<1>1. PICK r \in IF t = "udp" THEN UdpRequests ELSE TelnetRequests :
        req' = [req EXCEPT ![t] = r]
  BY DEF Begin
<1>2. r \in Request /\ (t # "udp" => r.type \in {READ_16, WRITE_16})
  BY RequestsAssumption
<1>3. TypeOK'
  BY <1>1, <1>2, RequestFields, ZeroData
     DEF AccessInv, TypeOK, Begin, At, Goto, Point, NoAnswer, Status, Reading, Writing,
         slave, history
<1>4. ASSUME NEW u \in Users PROVE UserInv(u)'
  <2>1. CASE u # t
    BY <2>1 DEF AccessInv, TypeOK, UserInv, Begin, Goto, Spoilt, slave, history
  <2>2. CASE u = t
    <3>1. /\ pc'[t] = "dispatch" /\ req'[t] = r /\ ~wrote'[t] /\ status'[t] = status[t]
          /\ bus'[t] = bus[t] /\ crossed'[t] = crossed[t]
      BY <1>1 DEF AccessInv, TypeOK, Begin, Goto, history
    <3>2. status[t] # "INVALID_CMD" /\ (bus[t] = "mixed" => crossed[t])
      BY DEF AccessInv, UserInv, Begin, At
    <3> QED
      BY <2>2, <3>1, <3>2, <1>2 DEF UserInv, Reading, HoldsAddress
  <2> QED
    BY <2>1, <2>2
<1> QED
  BY <1>3, <1>4 DEF AccessInv

(* A step of t keeps what another task u knows: its locals are its own,    *)
(* and if t has set an address u is marked.                                *)
Bystander(t, u) ==
  /\ pc'[u] = pc[u] /\ req'[u] = req[u] /\ status'[u] = status[u]
  /\ wrote'[u] = wrote[u] /\ data'[u] = data[u]
  /\ bus'[u] = bus[u] /\ deceived'[u] = deceived[u]
  /\ crossed[u] => crossed'[u]
  /\ opb' # opb /\ pc[u] \in HoldsAddress => crossed'[u]

(* A task that does nothing keeps its part of the invariant as long as the *)
(* address it relies on is kept or it is marked as crossed.                *)
LEMMA BystanderInv ==
  ASSUME AccessInv, NEW t \in Users, NEW u \in Users, Bystander(t, u),
         crossed' \in [Users -> BOOLEAN]
  PROVE  UserInv(u)'
<1>1. UserInv(u)
  BY DEF AccessInv
<1> QED
  BY <1>1 DEF UserInv, Bystander, AccessInv, TypeOK, Spoilt

(* The decoding of a request in udp_server_callback.                       *)
LEMMA DispatchInv ==
  ASSUME AccessInv, NEW t \in Users, Dispatch(t) PROVE AccessInv'
<1>1. req[t] \in Request
  BY DEF AccessInv, TypeOK, Dispatch, At
<1>2. TypeOK'
  BY <1>1, RequestFields
     DEF AccessInv, TypeOK, Dispatch, At, Goto, Point, Status, Reading, Writing,
         fpga, slave, request, history
<1>3. ASSUME NEW u \in Users PROVE UserInv(u)'
  <2>1. CASE u # t
    <3>1. Bystander(t, u)
      BY <2>1 DEF Bystander, AccessInv, TypeOK, Dispatch, Goto, fpga, slave, request,
                  history
    <3> QED
      BY <3>1, <1>2, BystanderInv DEF TypeOK
  <2>2. CASE u = t
    <3>1. UserInv(t)
      BY DEF AccessInv
    <3>2. /\ pc'[t] = IF Refused(req[t]) THEN "reply"
                      ELSE IF Writes(req[t]) THEN "writeAddress" ELSE "readAddress"
          /\ status'[t] = IF Refused(req[t]) THEN "INVALID_CMD" ELSE "OK"
          /\ req'[t] = req[t] /\ wrote'[t] = wrote[t] /\ ~wrote[t]
          /\ bus'[t] = bus[t] /\ crossed'[t] = crossed[t]
      BY <3>1 DEF AccessInv, TypeOK, Dispatch, At, Goto, UserInv, fpga, request, history
    <3>3. Refused(req[t]) \/ Writes(req[t]) \/ Reads(req[t])
      BY <1>1, RequestFields DEF Refused, Writes, Reads, AccessType, READ_16, WRITE_16,
         WRITE_16_NO_READBACK, READ_32, WRITE_32, WRITE_32_NO_READBACK
    <3> QED
      BY <2>2, <3>1, <3>2, <3>3
         DEF UserInv, Reading, HoldsAddress, Dispatch, At
  <2> QED
    BY <2>1, <2>2
<1> QED
  BY <1>2, <1>3 DEF AccessInv

(* The answer ends the request.                                            *)
LEMMA ReplyInv ==
  ASSUME AccessInv, NEW t \in Users, Reply(t) PROVE AccessInv'
<1>0. bus[t] = "off"
  BY DEF AccessInv, TypeOK, Reply, At, Reading, Writing
<1>1. TypeOK'
  BY <1>0, ZeroData
     DEF AccessInv, TypeOK, Reply, At, Goto, Point, Status, slave
<1>2. ASSUME NEW u \in Users PROVE UserInv(u)'
  <2>1. CASE u # t
    <3>1. Bystander(t, u)
      BY <2>1 DEF Bystander, AccessInv, TypeOK, Reply, Goto, slave
    <3> QED
      BY <3>1, <1>1, BystanderInv DEF TypeOK
  <2>2. CASE u = t
    BY <2>2, <1>0
       DEF AccessInv, TypeOK, UserInv, Reply, Goto, Reading, HoldsAddress
  <2> QED
    BY <2>1, <2>2
<1> QED
  BY <1>1, <1>2 DEF AccessInv

(* A second task in the driver spoils both requests.                       *)
LEMMA EnterInv ==
  ASSUME AccessInv, NEW t \in Users, Enter(t) PROVE AccessInv'
<1>1. /\ bus' \in [Users -> {"off", "alone", "mixed"}]
      /\ crossed' \in [Users -> BOOLEAN]
      /\ \A u \in Users : /\ bus'[u] # "off" => bus[u] # "off" \/ u = t
                          /\ bus'[u] = "mixed" => crossed'[u]
                          /\ crossed[u] => crossed'[u]
  BY DEF Enter, AccessInv, TypeOK
<1>2. UNCHANGED <<mem, opb, latch, wrote, pc, req, answer, status, data, deceived>>
  BY DEF Enter, fpga, slave, request
<1>3. TypeOK'
  BY <1>1, <1>2 DEF AccessInv, TypeOK, Enter
<1>4. ASSUME NEW u \in Users PROVE UserInv(u)'
  BY <1>1, <1>2 DEF AccessInv, UserInv, Spoilt
<1> QED
  BY <1>3, <1>4 DEF AccessInv

(* What the end of a transaction leaves alone.                             *)
Ended(t) ==
  /\ pc' \in [Users -> Point] /\ pc'[t] # "idle"
  /\ status' \in [Users -> Status]
  /\ data' \in [Users -> Data]
  /\ wrote' \in [Users -> BOOLEAN]
  /\ crossed' \in [Users -> BOOLEAN] /\ deceived' \in [Users -> BOOLEAN]
  /\ mem' \in Memory /\ opb' \in Word /\ latch' \in Data
  /\ UNCHANGED <<req, answer>>
  /\ bus' = [bus EXCEPT ![t] = "off"]
  /\ \A u \in Users \ {t} :
       /\ pc'[u] = pc[u] /\ status'[u] = status[u] /\ data'[u] = data[u]
       /\ wrote'[u] = wrote[u] /\ deceived'[u] = deceived[u]
       /\ crossed[u] => crossed'[u]
       /\ opb' # opb /\ pc[u] \in HoldsAddress => crossed'[u]

(* The end of a transaction keeps the invariant if it keeps what its own   *)
(* task knows.                                                             *)
LEMMA EndedInv ==
  ASSUME AccessInv, NEW t \in Users, pc[t] # "idle", Ended(t), UserInv(t)'
  PROVE  AccessInv'
<1>1. \A u \in Users \ {t} : Bystander(t, u)
  BY DEF Ended, Bystander, AccessInv, TypeOK
<1>2. \A u \in Users : req'[u] = None <=> pc'[u] = "idle"
  BY DEF Ended, AccessInv, TypeOK
<1>3. /\ bus' \in [Users -> {"off", "alone", "mixed"}]
      /\ \A u \in Users : bus'[u] # "off" => pc'[u] \in Reading \cup Writing
  BY DEF Ended, AccessInv, TypeOK
<1>4. TypeOK'
  BY <1>2, <1>3 DEF Ended, AccessInv, TypeOK
<1>5. \A u \in Users : UserInv(u)'
  BY <1>1, BystanderInv DEF Ended
<1> QED
  BY <1>4, <1>5 DEF AccessInv

(* WriteFailed goes on to the readback or to the reply; only Telnet        *)
(* forgets the error.                                                      *)
LEMMA WriteFailedTo ==
  ASSUME AccessInv, NEW t \in Users, WriteFailed(t), pc[t] \in Writing
  PROVE  /\ pc' \in [Users -> Point] /\ status' \in [Users -> Status]
         /\ pc'[t] \in {"readAddress", "reply"}
         /\ pc'[t] = "readAddress" => Reads(req[t])
         /\ t = "udp" => status'[t] = "TIMEOUT"
         /\ status'[t] # "INVALID_CMD"
         /\ \A u \in Users \ {t} : pc'[u] = pc[u] /\ status'[u] = status[u]
<1>1. UserInv(t) /\ Writes(req[t])
  BY DEF AccessInv, UserInv, Writing
<1>2. CASE t = "telnet"
  <2>1. req[t].type = WRITE_16
    BY <1>1, <1>2 DEF UserInv, Writes, READ_16, WRITE_16, WRITE_16_NO_READBACK,
           READ_32, WRITE_32, WRITE_32_NO_READBACK, Writing
  <2>2. Reads(req[t])
    BY <2>1 DEF Reads
  <2> QED
    BY <1>1, <1>2, <2>2 DEF WriteFailed, Goto, AccessInv, TypeOK, Point, UserInv, Writing
<1>3. CASE t # "telnet"
  BY <1>3 DEF WriteFailed, Goto, AccessInv, TypeOK, Point, Status, Reads
<1> QED
  BY <1>2, <1>3

(* A failed read ends the request with an error.                           *)
LEMMA ReadFailedTo ==
  ASSUME AccessInv, NEW t \in Users, ReadFailed(t)
  PROVE  /\ pc' = [pc EXCEPT ![t] = "reply"]
         /\ status' = [status EXCEPT ![t] = "TIMEOUT"]
         /\ data' \in [Users -> Data]
         /\ \A u \in Users \ {t} : data'[u] = data[u]
BY DEF ReadFailed, Goto, AccessInv, TypeOK

(* The transaction that puts the address: taken, refused and reported as a *)
(* success, or reported as an error.                                       *)
LEMMA WriteAddressEnds ==
  ASSUME AccessInv, NEW t \in Users, WriteAddress(t)
  PROVE  /\ Ended(t) /\ UNCHANGED <<mem, latch, wrote>>
         /\ crossed'[t] = crossed[t]
         /\ \/ /\ pc'[t] = "writeData" /\ status'[t] = status[t]
               /\ opb' = req[t].addr \/ deceived'[t]
            \/ WriteFailed(t)
<1>0. req[t] \in Request /\ pc[t] = "writeAddress"
  BY DEF AccessInv, TypeOK, WriteAddress, Ends, At
<1>1. req[t].addr \in Word
  BY <1>0, RequestFields
<1>2. /\ crossed' = [u \in Users |-> crossed[u] \/ (u # t /\ pc[u] \in HoldsAddress)]
      /\ UNCHANGED <<req, answer, data, mem, latch, wrote>>
      /\ opb' \in {opb, req[t].addr}
      /\ bus' = [bus EXCEPT ![t] = "off"]
      /\ deceived' \in {deceived, [deceived EXCEPT ![t] = TRUE]}
  BY DEF WriteAddress, Ends, Cross, Success, Failure, SetAddress, fpga, slave, request
<1>3. \/ /\ pc' = [pc EXCEPT ![t] = "writeData"] /\ status' = status
         /\ opb' = req[t].addr \/ deceived' = [deceived EXCEPT ![t] = TRUE]
      \/ WriteFailed(t)
  BY DEF WriteAddress, Success, SetAddress, Goto
<1>4. /\ pc' \in [Users -> Point] /\ status' \in [Users -> Status]
      /\ pc'[t] # "idle"
      /\ \A u \in Users \ {t} : pc'[u] = pc[u] /\ status'[u] = status[u]
  <2>1. CASE WriteFailed(t)
    BY <2>1, <1>0, WriteFailedTo DEF Writing
  <2>2. CASE pc' = [pc EXCEPT ![t] = "writeData"] /\ status' = status
    BY <2>2 DEF AccessInv, TypeOK, Point
  <2> QED
    BY <1>3, <2>1, <2>2
<1>5. Ended(t)
  BY <1>1, <1>2, <1>4 DEF Ended, AccessInv, TypeOK
<1>6. crossed'[t] = crossed[t]
  BY <1>2 DEF AccessInv, TypeOK
<1> QED
  BY <1>2, <1>3, <1>5, <1>6 DEF AccessInv, TypeOK

(* Afterwards the task knows the address, or it was deceived.              *)
LEMMA WriteAddressInv ==
  ASSUME AccessInv, NEW t \in Users, WriteAddress(t) PROVE AccessInv'
<1>0. UserInv(t) /\ ~wrote[t] /\ Writes(req[t]) /\ pc[t] = "writeAddress"
  BY DEF AccessInv, UserInv, WriteAddress, Ends, At
<1>1. /\ req'[t] = req[t] /\ wrote'[t] = wrote[t] /\ bus'[t] = "off"
  BY WriteAddressEnds DEF Ended, AccessInv, TypeOK
<1>2. UserInv(t)'
  <2>1. CASE WriteFailed(t)
    BY <2>1, <1>0, <1>1, WriteFailedTo DEF UserInv, Reading, Writing, HoldsAddress
  <2>2. CASE /\ pc'[t] = "writeData" /\ status'[t] = status[t]
             /\ opb' = req[t].addr \/ deceived'[t]
    BY <2>2, <1>0, <1>1 DEF UserInv, Reading, HoldsAddress, Spoilt
  <2> QED
    BY <2>1, <2>2, WriteAddressEnds
<1> QED
  BY <1>0, <1>2, WriteAddressEnds, EndedInv

(* What a write sends is one word or two.                                  *)
LEMMA PayloadType ==
  ASSUME NEW r \in Request
  PROVE  Payload(r) \in Data \/ Payload(r) \in {<<v>> : v \in Value}
BY RequestFields DEF Payload, Data

(* The transaction that writes: afterwards the task has written, or was    *)
(* deceived, or an error is on record.                                     *)
LEMMA WriteDataEnds ==
  ASSUME AccessInv, NEW t \in Users, WriteData(t)
  PROVE  /\ Ended(t) /\ UNCHANGED <<opb, latch, crossed>>
         /\ StoreData(t, Payload(req[t])) \/ UNCHANGED <<mem, wrote>>
         /\ \/ /\ pc'[t] = Written(req[t]) /\ status'[t] = status[t]
               /\ wrote'[t] \/ deceived'[t]
            \/ WriteFailed(t)
<1>0. req[t] \in Request /\ pc[t] = "writeData" /\ UserInv(t)
  BY DEF AccessInv, TypeOK, WriteData, Ends, At
<1>1. /\ UNCHANGED <<req, answer, data, crossed, opb, latch>>
      /\ StoreData(t, Payload(req[t])) \/ UNCHANGED <<mem, wrote>>
      /\ bus' = [bus EXCEPT ![t] = "off"]
      /\ deceived' \in {deceived, [deceived EXCEPT ![t] = TRUE]}
  BY DEF WriteData, Ends, Success, Failure, StoreData, fpga, slave, request
<1>2. mem' \in Memory
  BY <1>0, <1>1, PayloadType, PutType DEF StoreData, AccessInv, TypeOK
<1>3. wrote' \in {wrote, [wrote EXCEPT ![t] = TRUE]}
  BY <1>1 DEF StoreData
<1>4. \/ /\ pc' = [pc EXCEPT ![t] = Written(req[t])] /\ status' = status
         /\ \/ wrote' = [wrote EXCEPT ![t] = TRUE]
            \/ deceived' = [deceived EXCEPT ![t] = TRUE]
      \/ WriteFailed(t)
  BY DEF WriteData, Success, StoreData, Goto
<1>5. /\ pc' \in [Users -> Point] /\ status' \in [Users -> Status]
      /\ pc'[t] # "idle"
      /\ \A u \in Users \ {t} : pc'[u] = pc[u] /\ status'[u] = status[u]
  <2>1. CASE WriteFailed(t)
    BY <2>1, <1>0, WriteFailedTo DEF Writing
  <2>2. CASE pc' = [pc EXCEPT ![t] = Written(req[t])] /\ status' = status
    BY <2>2 DEF AccessInv, TypeOK, Point, Written
  <2> QED
    BY <1>4, <2>1, <2>2
<1>6. Ended(t)
  BY <1>1, <1>2, <1>3, <1>5 DEF Ended, AccessInv, TypeOK
<1> QED
  BY <1>1, <1>4, <1>6 DEF AccessInv, TypeOK

(* The invariant after the write.                                          *)
LEMMA WriteDataInv ==
  ASSUME AccessInv, NEW t \in Users, WriteData(t) PROVE AccessInv'
<1>0. UserInv(t) /\ Writes(req[t]) /\ pc[t] = "writeData" /\ status[t] # "INVALID_CMD"
  BY DEF AccessInv, UserInv, WriteData, Ends, At
<1>1. req'[t] = req[t] /\ bus'[t] = "off"
  BY WriteDataEnds DEF Ended, AccessInv, TypeOK
<1>2. UserInv(t)'
  <2>1. CASE WriteFailed(t)
    BY <2>1, <1>0, <1>1, WriteFailedTo DEF UserInv, Reading, Writing, HoldsAddress
  <2>2. CASE /\ pc'[t] = Written(req[t]) /\ status'[t] = status[t]
             /\ wrote'[t] \/ deceived'[t]
    BY <2>2, <1>0, <1>1 DEF UserInv, Reading, HoldsAddress, Spoilt, Written
  <2> QED
    BY <2>1, <2>2, WriteDataEnds
<1> QED
  BY <1>0, <1>2, WriteDataEnds, EndedInv

(* The three transactions of a read have this in common.                   *)
ReadStep(t) ==
  /\ pc[t] \in Reading
  /\ Ended(t) /\ UNCHANGED <<mem, wrote>>
  /\ \/ pc'[t] = "reply" /\ status'[t] = "TIMEOUT"
     \/ /\ status'[t] = status[t]
        /\ deceived[t] => deceived'[t]
        /\ crossed[t] => crossed'[t]
        /\ \/ pc'[t] = "readCommand" /\ (opb' = req[t].addr \/ deceived'[t])
           \/ pc'[t] \in {"readData", "reply"}

(* The three transactions of a read keep the invariant.                    *)
LEMMA ReadStepInv ==
  ASSUME AccessInv, NEW t \in Users, ReadStep(t) PROVE AccessInv'
<1>0. UserInv(t) /\ Reads(req[t]) /\ pc[t] # "idle"
  BY DEF AccessInv, UserInv, ReadStep, Reading
<1>1. req'[t] = req[t] /\ wrote'[t] = wrote[t] /\ bus'[t] = "off" /\ pc[t] \in Reading
  BY DEF ReadStep, Ended, AccessInv, TypeOK
<1>2. UserInv(t)'
  BY <1>0, <1>1 DEF ReadStep, UserInv, Reading, HoldsAddress, Spoilt
<1> QED
  BY <1>0, <1>2, EndedInv DEF ReadStep

(* The first transaction of a read.                                        *)
LEMMA ReadAddressStep ==
  ASSUME AccessInv, NEW t \in Users, ReadAddress(t)
  PROVE  ReadStep(t) /\ UNCHANGED latch
<1>0. req[t] \in Request /\ pc[t] = "readAddress"
  BY DEF AccessInv, TypeOK, ReadAddress, Ends, At
<1>1. req[t].addr \in Word
  BY <1>0, RequestFields
<1>2. /\ UNCHANGED <<mem, latch, req, wrote, answer>>
      /\ opb' \in {opb, req[t].addr}
      /\ bus' = [bus EXCEPT ![t] = "off"]
      /\ deceived' \in {deceived, [deceived EXCEPT ![t] = TRUE]}
      /\ crossed' = [u \in Users |-> crossed[u] \/ (u # t /\ pc[u] \in HoldsAddress)]
  BY DEF ReadAddress, Ends, Success, Failure, SetAddress, fpga, slave, request, Cross
<1>3. \/ /\ pc' = [pc EXCEPT ![t] = "readCommand"]
         /\ opb' = req[t].addr \/ deceived' = [deceived EXCEPT ![t] = TRUE]
         /\ UNCHANGED <<status, data>>
      \/ ReadFailed(t)
  BY DEF ReadAddress, Success, SetAddress, Goto
<1>4. /\ pc' \in [Users -> Point] /\ status' \in [Users -> Status] /\ pc'[t] # "idle"
      /\ data' \in [Users -> Data]
      /\ \A u \in Users \ {t} :
           data'[u] = data[u] /\ pc'[u] = pc[u] /\ status'[u] = status[u]
  BY <1>3, ReadFailedTo DEF AccessInv, TypeOK, Point, Status
<1>5. Ended(t)
  BY <1>1, <1>2, <1>4 DEF Ended, AccessInv, TypeOK
<1>6. \/ pc'[t] = "reply" /\ status'[t] = "TIMEOUT"
      \/ /\ status'[t] = status[t]
         /\ pc'[t] = "readCommand" /\ (opb' = req[t].addr \/ deceived'[t])
  BY <1>3, ReadFailedTo DEF AccessInv, TypeOK
<1>7. (deceived[t] => deceived'[t]) /\ (crossed[t] => crossed'[t])
  BY <1>2 DEF AccessInv, TypeOK
<1> QED
  BY <1>0, <1>2, <1>5, <1>6, <1>7 DEF ReadStep, Reading

(* The second one, in which the FPGA latches its result.                   *)
LEMMA ReadCommandStep ==
  ASSUME AccessInv, NEW t \in Users, ReadCommand(t) PROVE ReadStep(t)
<1>0. req[t] \in Request /\ pc[t] = "readCommand" /\ Is32(req[t]) \in BOOLEAN
  BY DEF AccessInv, TypeOK, ReadCommand, Ends, At, Is32
<1>1. LatchData(Is32(req[t])) \/ UNCHANGED fpga
  BY DEF ReadCommand, Success, Failure
<1>2. UNCHANGED <<mem, opb, wrote>> /\ latch' \in Data
  BY <1>0, <1>1, LatchDataType DEF fpga, slave, AccessInv, TypeOK
<1>3. /\ UNCHANGED <<req, answer>>
      /\ bus' = [bus EXCEPT ![t] = "off"]
      /\ deceived' \in {deceived, [deceived EXCEPT ![t] = TRUE]}
      /\ crossed' = [u \in Users |-> crossed[u] \/ (u # t /\ pc[u] \in HoldsResult)]
  BY DEF ReadCommand, Ends, Success, Failure, Cross, request
<1>4. \/ /\ pc' = [pc EXCEPT ![t] = "readData"]
         /\ UNCHANGED <<status, data>>
      \/ ReadFailed(t)
  BY DEF ReadCommand, Goto
<1>5. /\ pc' \in [Users -> Point] /\ status' \in [Users -> Status] /\ pc'[t] # "idle"
      /\ data' \in [Users -> Data]
      /\ \A u \in Users \ {t} :
           data'[u] = data[u] /\ pc'[u] = pc[u] /\ status'[u] = status[u]
  BY <1>4, ReadFailedTo DEF AccessInv, TypeOK, Point, Status
<1>6. Ended(t)
  BY <1>2, <1>3, <1>5 DEF Ended, AccessInv, TypeOK
<1>7. \/ pc'[t] = "reply" /\ status'[t] = "TIMEOUT"
      \/ status'[t] = status[t] /\ pc'[t] = "readData"
  BY <1>4, ReadFailedTo DEF AccessInv, TypeOK
<1>8. (deceived[t] => deceived'[t]) /\ (crossed[t] => crossed'[t])
  BY <1>3 DEF AccessInv, TypeOK
<1> QED
  BY <1>0, <1>2, <1>6, <1>7, <1>8 DEF ReadStep, Reading

(* What a read returns fills a field of two words.                         *)
LEMMA ShownType == ASSUME NEW d \in Data, NEW r PROVE Shown(r, d) \in Data
BY ValueAssumption DEF Shown, Data

(* The third one, in which the result is fetched.                          *)
LEMMA ReadDataStep ==
  ASSUME AccessInv, NEW t \in Users, ReadData(t)
  PROVE  ReadStep(t) /\ UNCHANGED latch
<1>0. pc[t] = "readData"
  BY DEF ReadData, Ends, At
<1>1. /\ UNCHANGED <<mem, opb, latch, req, wrote, answer, crossed>>
      /\ bus' = [bus EXCEPT ![t] = "off"]
      /\ deceived' \in {deceived, [deceived EXCEPT ![t] = TRUE]}
  BY DEF ReadData, Ends, fpga, slave, request
<1>2. \/ /\ \E d \in Data : data' = [data EXCEPT ![t] = Shown(req[t], d)]
         /\ pc' = [pc EXCEPT ![t] = "reply"] /\ status' = status
      \/ ReadFailed(t)
  BY DEF ReadData, Goto, Field, AccessInv, TypeOK
<1>3. /\ pc' \in [Users -> Point] /\ status' \in [Users -> Status] /\ pc'[t] # "idle"
      /\ data' \in [Users -> Data]
      /\ \A u \in Users \ {t} :
           data'[u] = data[u] /\ pc'[u] = pc[u] /\ status'[u] = status[u]
  BY <1>2, ReadFailedTo, ShownType DEF AccessInv, TypeOK, Point, Status
<1>4. Ended(t)
  BY <1>1, <1>3 DEF Ended, AccessInv, TypeOK
<1>5. \/ pc'[t] = "reply" /\ status'[t] = "TIMEOUT"
      \/ status'[t] = status[t] /\ pc'[t] = "reply"
  BY <1>2, ReadFailedTo DEF AccessInv, TypeOK
<1>6. (deceived[t] => deceived'[t]) /\ (crossed[t] => crossed'[t])
  BY <1>1 DEF AccessInv, TypeOK
<1> QED
  BY <1>0, <1>1, <1>4, <1>5, <1>6 DEF ReadStep, Reading

(* A transaction that overlapped another one: nothing is known of its      *)
(* result, and the request is spoilt already.                              *)
LEMMA GarbledEnds ==
  ASSUME AccessInv, NEW t \in Users, Garbled(t)
  PROVE  /\ Ended(t) /\ UNCHANGED <<wrote, deceived>>
         /\ crossed[t] /\ crossed'[t]
         /\ \A u \in Users \ {t} : pc[u] = "readData" => crossed'[u]
         /\ \/ pc'[t] = Onward(t) /\ status'[t] = status[t]
            \/ pc[t] \in Writing /\ WriteFailed(t)
            \/ pc'[t] = "reply" /\ status'[t] = "TIMEOUT"
<1>0. bus[t] = "mixed" /\ crossed[t] /\ pc[t] \in Reading \cup Writing
  BY DEF Garbled, AccessInv, TypeOK, UserInv
<1>1. mem' \in Memory /\ opb' \in Word /\ latch' \in Data
  BY MixtureType DEF Garbled, AccessInv
<1>2. /\ UNCHANGED <<req, answer, wrote, deceived>>
      /\ bus' = [bus EXCEPT ![t] = "off"]
      /\ crossed' = [u \in Users |-> crossed[u] \/ (u # t /\ pc[u] \in HoldsAddress \cup HoldsResult)]
  BY DEF Garbled, Cross, request
<1>3. Onward(t) \in Point \ {"idle"}
  BY <1>0 DEF Onward, At, Reading, Writing, Written, Point
<1>4. \/ pc' = [pc EXCEPT ![t] = Onward(t)] /\ status' = status
      \/ pc[t] \in Writing /\ WriteFailed(t)
      \/ ReadFailed(t)
  BY DEF Garbled, Goto
<1>5. /\ data' \in [Users -> Data]
      /\ \A u \in Users \ {t} : data'[u] = data[u]
  BY ReadFailedTo, ShownType DEF Garbled, AccessInv, TypeOK
<1>6. /\ pc' \in [Users -> Point] /\ status' \in [Users -> Status] /\ pc'[t] # "idle"
      /\ \A u \in Users \ {t} : pc'[u] = pc[u] /\ status'[u] = status[u]
  <2>1. CASE pc' = [pc EXCEPT ![t] = Onward(t)] /\ status' = status
    BY <2>1, <1>3 DEF AccessInv, TypeOK
  <2>2. CASE pc[t] \in Writing /\ WriteFailed(t)
    BY <2>2, WriteFailedTo
  <2>3. CASE ReadFailed(t)
    BY <2>3, ReadFailedTo DEF AccessInv, TypeOK, Point, Status
  <2> QED
    BY <1>4, <2>1, <2>2, <2>3
<1>7. Ended(t)
  BY <1>1, <1>2, <1>5, <1>6 DEF Ended, AccessInv, TypeOK
<1>8. crossed'[t] /\ \A u \in Users \ {t} : pc[u] = "readData" => crossed'[u]
  BY <1>0, <1>2 DEF HoldsResult
<1>9. \/ pc'[t] = Onward(t) /\ status'[t] = status[t]
      \/ pc[t] \in Writing /\ WriteFailed(t)
      \/ pc'[t] = "reply" /\ status'[t] = "TIMEOUT"
  BY <1>4, ReadFailedTo DEF AccessInv, TypeOK
<1> QED
  BY <1>0, <1>2, <1>7, <1>8, <1>9

(* The invariant after it.                                                 *)
LEMMA GarbledInv ==
  ASSUME AccessInv, NEW t \in Users, Garbled(t) PROVE AccessInv'
<1>0. UserInv(t) /\ pc[t] \in Reading \cup Writing /\ status[t] # "INVALID_CMD"
  BY DEF Garbled, AccessInv, TypeOK, UserInv, Reading, Writing
<1>1. /\ req'[t] = req[t] /\ wrote'[t] = wrote[t] /\ bus'[t] = "off"
      /\ crossed'[t]
  BY GarbledEnds DEF Ended, AccessInv, TypeOK
<1>2. UserInv(t)'
  <2>1. CASE pc[t] \in Writing /\ WriteFailed(t)
    BY <2>1, <1>0, <1>1, WriteFailedTo
       DEF UserInv, Reading, Writing, HoldsAddress, Spoilt
  <2>2. CASE pc'[t] = "reply" /\ status'[t] = "TIMEOUT"
    BY <2>2, <1>0, <1>1 DEF UserInv, Reading, Writing, HoldsAddress
  <2>3. CASE pc'[t] = Onward(t) /\ status'[t] = status[t]
    BY <2>3, <1>0, <1>1
       DEF UserInv, Reading, Writing, HoldsAddress, Spoilt, Onward, At, Written
  <2> QED
    BY <2>1, <2>2, <2>3, GarbledEnds
<1> QED
  BY <1>0, <1>2, GarbledEnds, EndedInv DEF Reading, Writing

(* Every step of Next keeps the invariant.                                 *)
LEMMA AccessInvStep == AccessInv /\ [Next]_vars => AccessInv'
<1>1. ASSUME AccessInv, UNCHANGED vars PROVE AccessInv'
  BY <1>1 DEF AccessInv, TypeOK, UserInv, Spoilt, vars, fpga, slave, request, history
<1>2. ASSUME AccessInv, Next PROVE AccessInv'
  <2>1. CASE Change
    BY <2>1, <1>2, ChangeInv
  <2>2. ASSUME NEW t \in Users, Begin(t) \/ Step(t) PROVE AccessInv'
    BY <2>2, <1>2, BeginInv, DispatchInv, WriteAddressInv, WriteDataInv, ReplyInv,
       EnterInv, GarbledInv, ReadAddressStep, ReadCommandStep, ReadDataStep, ReadStepInv
       DEF Step
  <2> QED
    BY <1>2, <2>1, <2>2 DEF Next
<1> QED
  BY <1>1, <1>2

(* AccessInv holds throughout.                                             *)
LEMMA AccessInvIsInvariant == Spec => []AccessInv
BY InitAccessInv, AccessInvStep, PTL DEF Spec

(* Addresses stay inside the register file and each task inside its code,  *)
(* for any number of registers and any requests.                           *)
THEOREM AccessTypeCorrect == Spec => []TypeOK
BY AccessInvIsInvariant, PTL DEF AccessInv

-----------------------------------------------------------------------------
(* The data of a write goes to the words that the request names.           *)
LEMMA PutWords ==
  ASSUME TypeOK, NEW r \in Request, opb = r.addr, NEW w \in Word
  PROVE  /\ w \notin Words(r) => Put(opb, Payload(r))[w] = mem[w]
         /\ ~Is32(r) /\ w = r.addr => Put(opb, Payload(r))[w] = r.data[2]
         /\ Is32(r) /\ w = r.addr => Put(opb, Payload(r))[w] = r.data[1]
         /\ Is32(r) /\ w = r.addr + 1 => Put(opb, Payload(r))[w] = r.data[2]
<1>1. r.addr \in Word /\ r.data \in Data
  BY RequestFields
<1>2. w \in Int /\ r.addr \in Int
  BY <1>1, RegistersAssumption DEF Word
<1>3. CASE Is32(r)
  <2>1. Payload(r) = r.data /\ DOMAIN Payload(r) = {1, 2}
    BY <1>1, <1>3 DEF Payload, Data
  <2> QED
    BY <1>2, <1>3, <2>1 DEF Put, Words
<1>4. CASE ~Is32(r)
  <2>1. Payload(r) = <<r.data[2]>> /\ DOMAIN Payload(r) = {1}
    BY <1>4 DEF Payload
  <2> QED
    BY <1>2, <1>4, <2>1 DEF Put, Words
<1> QED
  BY <1>3, <1>4

(* A step of t is its own: the other tasks keep their places and locals.   *)
LEMMA OwnLocals ==
  ASSUME AccessInv, NEW t \in Users, NEW u \in Users, u # t, Begin(t) \/ Step(t)
  PROVE  /\ pc'[u] = pc[u] /\ req'[u] = req[u] /\ status'[u] = status[u]
         /\ data'[u] = data[u] /\ wrote'[u] = wrote[u] /\ deceived'[u] = deceived[u]
<1>1. CASE Begin(t) \/ Dispatch(t) \/ Reply(t)
  BY <1>1 DEF Begin, Dispatch, Reply, Goto, AccessInv, TypeOK, fpga, request, history
<1>2. CASE Enter(t)
  BY <1>2 DEF Enter, fpga, request
<1>3. CASE \/ WriteAddress(t) \/ WriteData(t) \/ ReadAddress(t) \/ ReadCommand(t)
           \/ ReadData(t) \/ Garbled(t)
  <2>1. Ended(t)
    BY <1>3, WriteAddressEnds, WriteDataEnds, ReadAddressStep, ReadCommandStep,
       ReadDataStep, GarbledEnds DEF ReadStep
  <2> QED
    BY <2>1 DEF Ended
<1> QED
  BY <1>1, <1>2, <1>3 DEF Step

(* A write changes no register but the one that its request names, unless  *)
(* another task was on the bus during or between its two transactions, or  *)
(* the driver reported a refused transaction as a success: for any         *)
(* registers, requests and errors that the driver reports.                 *)
THEOREM WritesGoWhereAsked == Spec => WritesWhereAsked
<1> DEFINE A == \A t \in Users :
                  (At(t, "writeData") /\ pc'[t] # "writeData" /\ ~Spoilt(t)) =>
                    \A w \in Word : mem'[w] # mem[w] => w \in Words(req[t])
<1>1. AccessInv /\ [Next]_vars => [A]_vars
  <2> SUFFICES ASSUME AccessInv, Next, NEW t \in Users,
                      At(t, "writeData"), pc'[t] # "writeData", ~Spoilt(t),
                      NEW w \in Word, w \notin Words(req[t])
               PROVE  mem'[w] = mem[w]
    OBVIOUS
  <2>1. ~Change
    BY DEF Change, At
  <2>2. Begin(t) \/ Step(t)
    BY <2>1, OwnLocals DEF Next, At
  <2>3. ~Garbled(t)
    BY GarbledEnds DEF Spoilt
  <2>4. WriteData(t)
    BY <2>2, <2>3 DEF Step, Begin, Dispatch, Enter, WriteAddress, ReadAddress,
                ReadCommand, ReadData, Reply, Ends, At
  <2>5. req[t] \in Request /\ opb = req[t].addr
    BY DEF AccessInv, TypeOK, UserInv, At, HoldsAddress
  <2>6. Put(opb, Payload(req[t]))[w] = mem[w]
    BY <2>5, PutWords DEF AccessInv
  <2> QED
    BY <2>4, <2>6, WriteDataEnds DEF StoreData
<1>2. Spec => [][A]_vars
  BY <1>1, AccessInvIsInvariant, PTL DEF Spec
<1> QED
  BY <1>2 DEF WritesWhereAsked

-----------------------------------------------------------------------------
(* The UDP server implements RegisterService.                              *)

(* RegisterService has the same registers and requests.                    *)
LEMMA SameRegisters ==
  /\ Service!Word = Word /\ Service!Memory = Memory /\ Service!Request = Request
  /\ \A r : /\ Service!Is32(r) <=> Is32(r)
            /\ Service!Reads(r) <=> Reads(r)
            /\ Service!Writes(r) <=> Writes(r)
<1> USE DEF READ_16, WRITE_16, WRITE_16_NO_READBACK, READ_32, WRITE_32,
            WRITE_32_NO_READBACK, Service!READ_16, Service!WRITE_16,
            Service!WRITE_16_NO_READBACK, Service!READ_32, Service!WRITE_32,
            Service!WRITE_32_NO_READBACK
<1>1. Service!Word = Word
  BY DEF Service!Word, Word
<1>2. Service!Memory = Memory
  BY <1>1 DEF Service!Memory, Memory
<1>3. \A r : Service!Is32(r) <=> Is32(r)
  BY DEF Service!Is32, Is32
<1>4. \A r : Service!Reads(r) <=> Reads(r)
  BY DEF Service!Reads, Reads
<1>5. \A r : Service!Writes(r) <=> Writes(r)
  BY DEF Service!Writes, Writes
<1>6. Service!Data = Data /\ Service!AccessType = AccessType
  BY DEF Service!Data, Data, Service!AccessType, AccessType
<1>7. Service!Request = Request
  BY <1>1, <1>3, <1>5, <1>6 DEF Service!Request, Request
<1> QED
  BY <1>1, <1>2, <1>3, <1>4, <1>5, <1>7

(* The initial states are those of the abstract service.                   *)
LEMMA ServiceInitial == Init => Service!ServiceInit
<1> SUFFICES ASSUME Init PROVE Service!ServiceInit
  OBVIOUS
<1>1. req["udp"] = None /\ wrote["udp"] = FALSE /\ pc["udp"] = "idle"
  BY UsersAssumption DEF Init
<1>2. ServiceValue = None
  BY <1>1 DEF ServiceValue, At
<1> QED
  BY <1>1, <1>2, SameRegisters DEF Init, Service!ServiceInit, Service!NoAnswer, NoAnswer

(* The value that was read depends on the locals of the UDP server and on  *)
(* the result in the FPGA.                                                 *)
LEMMA ValueKept ==
  ASSUME pc'["udp"] = pc["udp"], req'["udp"] = req["udp"],
         status'["udp"] = status["udp"], data'["udp"] = data["udp"],
         pc["udp"] = "readData" => latch' = latch
  PROVE  ServiceValue' = ServiceValue
BY DEF ServiceValue, At, Field, Shown

(* A register that changes on its own does so in the abstract service.     *)
LEMMA ChangeMaps ==
  ASSUME AccessInv, Change PROVE Service!ServiceNext
<1>1. ServiceValue' = ServiceValue
  BY ValueKept DEF Change, request
<1>2. mem' \in Memory
  BY ChangeInv DEF AccessInv, TypeOK
<1> QED
  BY <1>1, <1>2, SameRegisters DEF Change, request, Service!ServiceNext, Service!Change

(* A step of the Telnet session is a change of the registers, or nothing.  *)
LEMMA TelnetMaps ==
  ASSUME AccessInv, NEW t \in Users, t # "udp", Begin(t) \/ Step(t),
         ~Spoilt("udp")'
  PROVE  Service!ServiceNext
<1>0. t = "telnet" /\ "udp" \in Users /\ AccessInv' /\ ~crossed'["udp"]
  BY UsersAssumption, AccessInvStep DEF Next, Spoilt
<1>1. /\ pc'["udp"] = pc["udp"] /\ req'["udp"] = req["udp"]
      /\ status'["udp"] = status["udp"] /\ data'["udp"] = data["udp"]
      /\ wrote'["udp"] = wrote["udp"]
  BY <1>0, OwnLocals
<1>2. answer' = answer
  <2>1. CASE Begin(t) \/ Dispatch(t) \/ Reply(t) \/ Enter(t)
    BY <2>1, <1>0 DEF Begin, Dispatch, Reply, Enter, request
  <2>2. CASE \/ WriteAddress(t) \/ WriteData(t) \/ ReadAddress(t) \/ ReadCommand(t)
             \/ ReadData(t) \/ Garbled(t)
    BY <2>2, WriteAddressEnds, WriteDataEnds, ReadAddressStep, ReadCommandStep,
       ReadDataStep, GarbledEnds DEF ReadStep, Ended
  <2> QED
    BY <2>1, <2>2 DEF Step
<1>3. pc["udp"] = "readData" => latch' = latch
  <2>1. CASE ReadCommand(t)
    BY <2>1, <1>0 DEF ReadCommand, Cross, HoldsResult
  <2>2. CASE Begin(t) \/ Dispatch(t) \/ Reply(t) \/ Enter(t)
    BY <2>2 DEF Begin, Dispatch, Reply, Enter, fpga, slave
  <2>3. CASE WriteAddress(t) \/ ReadAddress(t) \/ WriteData(t) \/ ReadData(t)
    BY <2>3, WriteAddressEnds, WriteDataEnds, ReadAddressStep, ReadDataStep
  <2>4. CASE Garbled(t)
    BY <2>4, <1>0, GarbledEnds
  <2> QED
    BY <2>1, <2>2, <2>3, <2>4 DEF Step
<1>4. ServiceValue' = ServiceValue
  BY <1>1, <1>3, ValueKept
<1>5. mem' \in Memory
  BY <1>0 DEF AccessInv, TypeOK
<1> QED
  BY <1>1, <1>2, <1>4, <1>5, SameRegisters DEF Service!ServiceNext, Service!Change

(* A step of the UDP server whose request is not spoilt is a step of the   *)
(* service, unless it replies to an access that is not documented.         *)
LEMMA UdpMaps ==
  ASSUME AccessInv, Begin("udp") \/ Step("udp"), ~Spoilt("udp"), ~Spoilt("udp")',
         ~UndocumentedReply
  PROVE  Service!ServiceNext \/ UNCHANGED Service!serviceVars
<1> DEFINE r == req["udp"]
<1>0. "udp" \in Users /\ TypeOK /\ UserInv("udp")
  BY UsersAssumption DEF AccessInv
<1>1. CASE Begin("udp")
  <2>1. PICK q \in UdpRequests : req' = [req EXCEPT !["udp"] = q]
    BY <1>1 DEF Begin
  <2>2. q \in Request
    BY RequestsAssumption
  <2>3. /\ req["udp"] = None /\ req'["udp"] = q /\ wrote'["udp"] = FALSE
        /\ answer' = NoAnswer /\ mem' = mem /\ pc'["udp"] = "dispatch"
    BY <1>0, <1>1, <2>1 DEF Begin, At, Goto, TypeOK, slave
  <2>4. ServiceValue' = None
    BY <2>3 DEF ServiceValue, At
  <2> QED
    BY <2>2, <2>3, <2>4, SameRegisters
       DEF Service!ServiceNext, Service!Accept, Service!NoAnswer, NoAnswer
<1>2. CASE Dispatch("udp")
  <2>1. /\ UNCHANGED <<mem, req, wrote, answer>> /\ pc["udp"] = "dispatch"
        /\ pc'["udp"] # "readData"
        /\ pc'["udp"] = "reply" => status'["udp"] = "INVALID_CMD"
    BY <1>0, <1>2 DEF Dispatch, At, Goto, TypeOK, fpga, slave, request
  <2>2. ServiceValue = None /\ ServiceValue' = None
    BY <2>1 DEF ServiceValue, At
  <2> QED
    BY <2>1, <2>2 DEF Service!serviceVars
<1>3. CASE WriteAddress("udp")
  <2>1. UNCHANGED <<mem, req, wrote, answer>> /\ pc["udp"] = "writeAddress"
    BY <1>0, <1>3, WriteAddressEnds DEF WriteAddress, Ends, At, Ended
  <2>2. pc'["udp"] = "writeData" \/ WriteFailed("udp")
    BY <1>0, <1>3, WriteAddressEnds
  <2>3. /\ pc'["udp"] # "readData"
        /\ pc'["udp"] = "reply" => status'["udp"] = "TIMEOUT"
    BY <1>0, <2>1, <2>2, WriteFailedTo DEF Writing
  <2>4. ServiceValue = None /\ ServiceValue' = None
    BY <2>1, <2>3 DEF ServiceValue, At
  <2> QED
    BY <2>1, <2>4 DEF Service!serviceVars
<1>4. CASE WriteData("udp")
  <2>1. /\ UNCHANGED <<req, answer>> /\ pc["udp"] = "writeData"
        /\ r \in Request /\ opb = r.addr /\ Writes(r) /\ ~wrote["udp"]
    BY <1>0, <1>4, WriteDataEnds
       DEF WriteData, Ends, Ended, At, UserInv, TypeOK, HoldsAddress
  <2>2. WriteFailed("udp") \/ pc'["udp"] = IF Reads(r) THEN "readAddress" ELSE "reply"
    BY <1>0, <1>4, WriteDataEnds DEF Written
  <2>3. /\ pc'["udp"] # "readData"
        /\ pc'["udp"] = "reply" => status'["udp"] = "TIMEOUT" \/ ~Reads(r)
    BY <1>0, <2>1, <2>2, WriteFailedTo DEF Writing
  <2>4. ServiceValue = None /\ ServiceValue' = None
    BY <2>1, <2>3 DEF ServiceValue, At
  <2>5. CASE UNCHANGED <<mem, wrote>>
    BY <2>1, <2>4, <2>5 DEF Service!serviceVars
  <2>6. CASE StoreData("udp", Payload(r))
    <3>1. wrote'["udp"] = TRUE /\ mem' = Put(opb, Payload(r))
      BY <1>0, <2>6 DEF StoreData, TypeOK
    <3>2. mem' = IF Is32(r)
                 THEN [mem EXCEPT ![r.addr] = r.data[1], ![r.addr + 1] = r.data[2]]
                 ELSE [mem EXCEPT ![r.addr] = r.data[2]]
      <4>1. /\ r.addr \in Word /\ (Is32(r) => r.addr + 1 \in Word)
            /\ r.addr + 1 # r.addr
        BY <2>1, RequestFields, SecondWord, RegistersAssumption DEF Word
      <4>2. DOMAIN mem' = Word /\ mem' = [w \in Word |-> mem'[w]]
        BY <3>1 DEF Put
      <4>3. mem = [w \in Word |-> mem[w]]
        BY <1>0 DEF TypeOK, Memory
      <4>4. \A w \in Word :
              mem'[w] = IF w \notin Words(r) THEN mem[w]
                        ELSE IF Is32(r) THEN (IF w = r.addr THEN r.data[1] ELSE r.data[2])
                        ELSE r.data[2]
        BY <1>0, <2>1, <3>1, PutWords DEF Words
      <4> QED
        BY <4>1, <4>2, <4>3, <4>4 DEF Words
    <3> QED
      BY <1>0, <2>1, <2>4, <3>1, <3>2, RequestFields, SameRegisters
         DEF Service!ServiceNext, Service!Write
  <2> QED
    BY <1>0, <1>4, <2>5, <2>6, WriteDataEnds
<1>5. CASE ReadAddress("udp")
  <2>1. UNCHANGED <<mem, req, wrote, answer>> /\ pc["udp"] = "readAddress"
    BY <1>0, <1>5, ReadAddressStep DEF ReadAddress, Ends, At, ReadStep, Ended
  <2>2. pc'["udp"] = "readCommand" \/ ReadFailed("udp")
    BY <1>0, <1>5 DEF ReadAddress, Goto, TypeOK
  <2>3. /\ pc'["udp"] # "readData"
        /\ pc'["udp"] = "reply" => status'["udp"] = "TIMEOUT"
    BY <1>0, <2>2, ReadFailedTo DEF TypeOK
  <2>4. ServiceValue = None /\ ServiceValue' = None
    BY <2>1, <2>3 DEF ServiceValue, At
  <2> QED
    BY <2>1, <2>4 DEF Service!serviceVars
<1>6. CASE ReadCommand("udp")
  <2>1. /\ UNCHANGED <<mem, opb, req, wrote, answer>> /\ pc["udp"] = "readCommand"
        /\ r \in Request /\ opb = r.addr /\ Reads(r) /\ Is32(r) \in BOOLEAN
    BY <1>0, <1>6 DEF ReadCommand, Ends, Success, Failure, LatchData, At, fpga, slave,
           request, UserInv, TypeOK, HoldsAddress, Reading, Is32
  <2>2. ServiceValue = None
    BY <2>1 DEF ServiceValue, At
  <2>3. CASE ReadFailed("udp")
    <3>1. pc'["udp"] = "reply" /\ status'["udp"] = "TIMEOUT"
      BY <1>0, <2>3, ReadFailedTo DEF TypeOK
    <3>2. ServiceValue' = None
      BY <3>1 DEF ServiceValue, At
    <3> QED
      BY <2>1, <2>2, <3>2 DEF Service!serviceVars
  <2>4. CASE LatchData(Is32(r)) /\ pc' = [pc EXCEPT !["udp"] = "readData"]
    <3>1. /\ latch' \in Data /\ latch'[1] = mem[opb]
          /\ Is32(r) => latch'[2] = mem[opb + 1]
      BY <1>0, <2>1, <2>4, LatchDataType, RequestFields
    <3>2. ServiceValue' = IF Is32(r) THEN latch' ELSE <<0, latch'[1]>>
      BY <1>0, <2>1, <2>4 DEF ServiceValue, At, Field, Shown, TypeOK
    <3>3. ServiceValue' = IF Is32(r) THEN <<mem[r.addr], mem[r.addr + 1]>>
                          ELSE <<0, mem[r.addr]>>
      BY <2>1, <3>1, <3>2 DEF Data
    <3> QED
      BY <2>1, <3>3, RequestFields, SameRegisters
         DEF Service!ServiceNext, Service!Read
  <2>5. deceived' # [deceived EXCEPT !["udp"] = TRUE]
    BY <1>0 DEF Spoilt, TypeOK
  <2> QED
    BY <1>6, <2>3, <2>4, <2>5 DEF ReadCommand, Success, Goto
<1>7. CASE ReadData("udp")
  <2>1. UNCHANGED <<mem, latch, req, wrote, answer>> /\ pc["udp"] = "readData"
        /\ Reads(r)
    BY <1>0, <1>7 DEF ReadData, Ends, At, fpga, slave, request, UserInv, Reading
  <2>2. ServiceValue = Field(r)
    BY <2>1 DEF ServiceValue, At
  <2>3. CASE ReadFailed("udp")
    <3>1. pc'["udp"] = "reply" /\ status'["udp"] = "TIMEOUT"
      BY <1>0, <2>3, ReadFailedTo DEF TypeOK
    <3>2. ServiceValue' = None
      BY <3>1 DEF ServiceValue, At
    <3> QED
      BY <2>1, <3>2 DEF Service!ServiceNext, Service!Forget
  <2>4. CASE /\ data' = [data EXCEPT !["udp"] = Field(r)]
             /\ pc' = [pc EXCEPT !["udp"] = "reply"]
             /\ status' = status
    <3>1. pc'["udp"] = "reply" /\ data'["udp"] = Field(r)
      BY <1>0, <2>4 DEF TypeOK
    <3>2. ServiceValue' = IF status["udp"] = "OK" THEN Field(r) ELSE None
      BY <2>1, <2>4, <3>1 DEF ServiceValue, At
    <3> QED
      BY <2>1, <2>2, <3>2 DEF Service!ServiceNext, Service!Forget, Service!serviceVars
  <2>5. deceived' # [deceived EXCEPT !["udp"] = TRUE]
    BY <1>0 DEF Spoilt, TypeOK
  <2> QED
    BY <1>7, <2>3, <2>4, <2>5 DEF ReadData, Goto
<1>8. CASE Reply("udp")
  <2>1. /\ mem' = mem /\ pc["udp"] = "reply" /\ pc'["udp"] = "idle"
        /\ req'["udp"] = None /\ wrote'["udp"] = FALSE
        /\ answer'.status = status["udp"] /\ answer'.data = data["udp"]
        /\ r \in Request
    BY <1>0, <1>8 DEF Reply, At, Goto, slave, TypeOK
  <2>2. ServiceValue' = None
    BY <2>1 DEF ServiceValue, At
  <2>3. CASE status["udp"] = "OK"
    <3>1. Writes(r) => wrote["udp"]
      BY <1>0, <2>1, <2>3 DEF UserInv
    <3>2. Service!Supported(r)
      <4>1. ~Refused(r)
        BY <1>0, <2>1, <2>3 DEF UserInv
      <4> QED
        BY <2>1, <4>1, RequestFields
           DEF Refused, Service!Supported, Is32, UndocumentedReply, At, AccessType,
               WRITE_16_NO_READBACK, READ_32, WRITE_32, WRITE_32_NO_READBACK
    <3>3. Reads(r) => ServiceValue = data["udp"] /\ data["udp"] # None
      BY <1>0, <2>1, <2>3, NoneAssumption DEF ServiceValue, At, TypeOK
    <3> QED
      BY <2>1, <2>2, <2>3, <3>1, <3>2, <3>3, RequestFields, SameRegisters
         DEF Service!ServiceNext, Service!Answer
  <2>4. CASE status["udp"] = "TIMEOUT"
    BY <2>1, <2>2, <2>4, RequestFields DEF Service!ServiceNext, Service!Answer
  <2>5. CASE status["udp"] = "INVALID_CMD"
    <3>1. Refused(r) /\ ~wrote["udp"]
      BY <1>0, <2>5 DEF UserInv
    <3>2. ~Service!Supported(r)
      BY <3>1 DEF Refused, Service!Supported, Is32,
           READ_32, WRITE_32, WRITE_32_NO_READBACK
    <3> QED
      BY <2>1, <2>2, <2>5, <3>1, <3>2, RequestFields
         DEF Service!ServiceNext, Service!Answer
  <2> QED
    BY <1>0, <2>3, <2>4, <2>5 DEF TypeOK, Status
<1>9. CASE Enter("udp")
  BY <1>0, <1>9
     DEF Enter, fpga, slave, request, Service!serviceVars, ServiceValue, At, Field, Shown
<1>10. ~Garbled("udp")
  BY <1>0, GarbledEnds DEF Spoilt
<1> QED
  BY <1>1, <1>2, <1>3, <1>4, <1>5, <1>6, <1>7, <1>8, <1>9, <1>10 DEF Step

(* Every reply of the UDP server is one that RegisterService allows, for   *)
(* any registers, requests and errors that the driver reports, whatever    *)
(* the Telnet session does, except for a request that was crossed or for   *)
(* which the driver reported a success that was none, and for the reply to *)
(* an access without readback in version 1 of the protocol.                *)
THEOREM ServerImplementsService == Spec => ImplementsService
<1> DEFINE B == Spoilt("udp") \/ Spoilt("udp")' \/ UndocumentedReply
                \/ Service!ServiceNext
<1>1. AccessInv /\ [Next]_vars => [B]_(Service!serviceVars)
  <2>1. ASSUME AccessInv, UNCHANGED vars PROVE UNCHANGED Service!serviceVars
    BY <2>1 DEF vars, fpga, slave, request, Service!serviceVars, ServiceValue, At, Field, Shown
  <2>2. ASSUME AccessInv, Next PROVE B \/ UNCHANGED Service!serviceVars
    BY <2>2, ChangeMaps, TelnetMaps, UdpMaps DEF Next
  <2> QED
    BY <2>1, <2>2
<1>2. Spec => [][B]_(Service!serviceVars)
  BY <1>1, AccessInvIsInvariant, PTL DEF Spec
<1>3. Spec => Service!ServiceInit
  BY ServiceInitial DEF Spec
<1> QED
  BY <1>2, <1>3 DEF ImplementsService
=============================================================================
