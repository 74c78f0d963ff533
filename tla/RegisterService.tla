--------------------------- MODULE RegisterService ---------------------------
(***************************************************************************)
(* What the UDP server promises its clients, as src/README.md words it: a  *)
(* request writes at most once and only the register it names; a status of *)
(* zero means that everything that was asked for has been done, and that   *)
(* the data was read from that register after the write; a request is      *)
(* refused, without any effect, exactly when the version of the protocol   *)
(* does not have its type.  The registers may change on their own at any   *)
(* time.                                                                   *)
(***************************************************************************)
EXTENDS FpgaRegisters

CONSTANT None  \* no request; no value

VARIABLES
  mem,      \* the registers
  request,  \* the request in work
  wrote,    \* its write has been done
  value,    \* what has been read for it
  answer    \* the answer to the last request

serviceVars == <<mem, request, wrote, value, answer>>

NoAnswer == [status |-> "OK", data |-> <<0, 0>>]

ServiceInit ==
  /\ mem \in Memory
  /\ request = None
  /\ wrote = FALSE
  /\ value = None
  /\ answer = NoAnswer

Change ==
  /\ mem' \in Memory
  /\ UNCHANGED <<request, wrote, value, answer>>

Accept ==
  /\ request = None
  /\ request' \in Request
  /\ wrote' = FALSE
  /\ value' = None
  /\ answer' = NoAnswer
  /\ UNCHANGED mem

Write ==
  /\ request # None
  /\ Writes(request)
  /\ ~wrote
  /\ mem' = IF Is32(request)
            THEN [mem EXCEPT ![request.addr] = request.data[1],
                             ![request.addr + 1] = request.data[2]]
            ELSE [mem EXCEPT ![request.addr] = request.data[2]]
  /\ wrote' = TRUE
  /\ value' = None
  /\ UNCHANGED <<request, answer>>

Read ==
  /\ request # None
  /\ Reads(request)
  /\ value' = IF Is32(request)
              THEN <<mem[request.addr], mem[request.addr + 1]>>
              ELSE <<0, mem[request.addr]>>
  /\ UNCHANGED <<mem, request, wrote, answer>>

Forget ==
  /\ value' = None
  /\ UNCHANGED <<mem, request, wrote, answer>>

(* "Protocol version 1 supports two access types", version 2 "supports two *)
(* additional access types" and lists four.                                *)
Supported(r) == IF r.version = 1 THEN r.type \in {1, 2} ELSE r.type \in 1 .. 6

Answer ==
  /\ request # None
  /\ \/ /\ answer'.status = "OK"
        /\ Supported(request)
        /\ Writes(request) => wrote
        /\ Reads(request) => value # None /\ answer'.data = value
     \/ answer'.status = "TIMEOUT"
     \/ /\ answer'.status = "INVALID_CMD"
        /\ ~Supported(request)
        /\ ~wrote
  /\ request' = None
  /\ wrote' = FALSE
  /\ value' = None
  /\ UNCHANGED mem

ServiceNext == Change \/ Accept \/ Write \/ Read \/ Forget \/ Answer

ServiceSpec == ServiceInit /\ [][ServiceNext]_serviceVars
=============================================================================
