----------------------------- MODULE XvcProtocol -----------------------------
(***************************************************************************)
(* How vXvcServer turns the TCP byte stream of a client into commands:     *)
(* xvc_server_handle_receive and the functions that read from the received *)
(* pbuf chain, with the connection state that survives between two calls.  *)
(*                                                                         *)
(* The stream is cut into receive buffers, and a receive buffer into a     *)
(* chain of pbufs, at every possible place.  A byte is its number; command *)
(* strings have their real bytes, vectors a few small ones.  What the JTAG *)
(* chain answers is XvcShift's concern: here a reply is what was asked.    *)
(***************************************************************************)
EXTENDS Integers, Sequences, SequencesExt

CONSTANTS
  Sessions,      \* the command lists that a client may send on a connection
  MaxChain,      \* pbufs in a received chain
  MaxBytes,      \* XVC_SHIFT_VECTOR_MAX_LEN_IN_BYTES (512 in the code)
  MaxConnections \* bound on the connections of a behaviour

ASSUME SizeAssumption ==
  /\ MaxChain \in Nat \ {0} /\ MaxConnections \in Nat \ {0}
  /\ MaxBytes \in Nat /\ MaxBytes >= 4

VARIABLES
  session,  \* the commands of the current client
  rest,     \* bytes of the client that the server has not received yet
  chain,    \* recv_buffer: the payloads of the pbufs from recv_buffer on
  pc,       \* "recv", "loop", "exec", "closed" or "hung"
  cmd,      \* state->current_command
  buf,      \* state->buffer up to state->buffer_len
  bits,     \* state->shift_vector_length_in_bits, -1 if not set
  replies,  \* what has been answered on this connection
  failed,   \* do_shift or netconn_write failed on this connection
  conns     \* connections so far

vars == <<session, rest, chain, pc, cmd, buf, bits, replies, failed, conns>>

(* The command strings: "getinfo:", "settck:" and "shift:".                *)
CommandStr == [
  getinfo |-> <<103, 101, 116, 105, 110, 102, 111, 58>>,
  settck  |-> <<115, 101, 116, 116, 99, 107, 58>>,
  shift   |-> <<115, 104, 105, 102, 116, 58>>]

MinLen == 6

BitsToBytes(n) == (n + 7) \div 8

-----------------------------------------------------------------------------
(* The client.                                                             *)

Byte == 0 .. 255
Word == {n \in Nat : n \div 16777216 < 256}   \* four bytes

Uint32(n) ==
  <<n % 256, (n \div 256) % 256, (n \div 65536) % 256, n \div 16777216>>

Command ==
  [kind : {"getinfo"}] \cup [kind : {"settck"}, period : Word]
    \cup {c \in [kind : {"shift"}, bits : Word, tms : Seq(Byte), tdi : Seq(Byte)] :
            Len(c.tms) = BitsToBytes(c.bits) /\ Len(c.tdi) = BitsToBytes(c.bits)}

(* Bytes that no command begins with, and that begin no command.           *)
Garbage ==
  {c \in [kind : {"junk"}, text : Seq(Byte)] :
     \A name \in {"getinfo", "settck", "shift"} :
       ~IsPrefix(c.text, CommandStr[name]) /\ ~IsPrefix(CommandStr[name], c.text)}

(* After its commands a client may send something else, up to the end.     *)
ASSUME SessionAssumption ==
  \A list \in Sessions :
    /\ list \in Seq(Command \cup Garbage)
    /\ \A i \in 1 .. Len(list) - 1 : list[i] \in Command

(* What a client sends for a command.                                      *)
Encode(c) ==
  CASE c.kind = "getinfo" -> CommandStr.getinfo
    [] c.kind = "settck"  -> CommandStr.settck \o Uint32(c.period)
    [] c.kind = "shift"   -> CommandStr.shift \o Uint32(c.bits) \o c.tms \o c.tdi
    [] OTHER              -> c.text

Stream ==
  [list \in Sessions |-> FlattenSeq([i \in 1 .. Len(list) |-> Encode(list[i])])]

Valid(c) ==
  /\ c.kind # "junk"
  /\ c.kind = "shift" => c.bits <= 8 * MaxBytes

-----------------------------------------------------------------------------
(* lwIP's access to a pbuf chain.                                          *)

(* pbuf_copy_partial with offset 0 walks the whole chain.                  *)
CopyPartial(ch, n) ==
  LET all == FlattenSeq(ch)
  IN  SubSeq(all, 1, IF n < Len(all) THEN n ELSE Len(all))

(* pbuf_header(-n) can only take bytes from the first pbuf.                *)
CanHide(ch, n) == n <= Len(Head(ch))

Hide(ch, n) == <<SubSeq(Head(ch), n + 1, Len(Head(ch)))>> \o Tail(ch)

-----------------------------------------------------------------------------
(* A reader maps the chain and the bytes read so far to what they become   *)
(* and to a status; "HANG" is the endless loop of LWIP_PLATFORM_ASSERT,    *)
(* which LWIP_ERROR runs when pbuf_header is asked for too much.           *)

(* The copy-and-consume block of xvc_server_read_command.                  *)
Pull(r, n) ==
  LET got == CopyPartial(r.chain, n - Len(r.buf))
  IN  IF r.status = "HANG" \/ Len(r.buf) >= n THEN r
      ELSE IF CanHide(r.chain, Len(got))
           THEN [chain  |-> Hide(r.chain, Len(got)),
                 buf    |-> r.buf \o got,
                 status |-> "OK"]
           ELSE [r EXCEPT !.status = "HANG"]

(* The rest of a command whose first letters are known.                    *)
Finish(r, name) ==
  LET p == Pull(r, Len(CommandStr[name]))
  IN  [p EXCEPT !.status =
         IF p.status = "HANG" THEN "HANG"
         ELSE IF ~IsPrefix(p.buf, CommandStr[name]) THEN "ERROR"
         ELSE IF p.buf = CommandStr[name] THEN name
         ELSE "MORE"]

(* Mutant: a lone "s" is not recognised as the beginning of a command.     *)
ReadCommandNoLoneS(ch, b) ==
  LET p == Pull([chain |-> ch, buf |-> b, status |-> "OK"], MinLen)
  IN  IF p.status = "HANG" THEN p
      ELSE IF p.buf[1] = 103 THEN Finish(p, "getinfo")
      ELSE IF Len(p.buf) >= 2 /\ p.buf[1] = 115 /\ p.buf[2] = 101
      THEN Finish(p, "settck")
      ELSE IF Len(p.buf) >= 2 /\ p.buf[1] = 115 /\ p.buf[2] = 104
      THEN Finish(p, "shift")
      ELSE [p EXCEPT !.status = "ERROR"]

ReadCommand(ch, b) ==
  LET p == Pull([chain |-> ch, buf |-> b, status |-> "OK"], MinLen)
  IN  CASE p.status = "HANG"                      -> p
        [] p.status # "HANG" /\ p.buf[1] = 103    -> Finish(p, "getinfo")
        [] p.status # "HANG" /\ p.buf = <<115>>   -> [p EXCEPT !.status = "MORE"]
        [] /\ p.status # "HANG" /\ Len(p.buf) >= 2
           /\ p.buf[1] = 115 /\ p.buf[2] = 101    -> Finish(p, "settck")
        [] /\ p.status # "HANG" /\ Len(p.buf) >= 2
           /\ p.buf[1] = 115 /\ p.buf[2] = 104    -> Finish(p, "shift")
        [] OTHER                                  -> [p EXCEPT !.status = "ERROR"]

(* Mutant: bytes that exactly fill the need are not enough.                *)
ReadBytesExactFitFails(ch, b, n) ==
  LET want == n - Len(b)
      k    == IF Len(Head(ch)) < want THEN Len(Head(ch)) ELSE want
  IN  [chain  |-> Hide(ch, k),
       buf    |-> b \o SubSeq(Head(ch), 1, k),
       status |-> IF Len(Head(ch)) > want THEN "OK" ELSE "MORE"]

(* xvc_server_read_uint32 and xvc_server_read_data_shift_vector take what  *)
(* the first pbuf has, up to the n bytes that they need.                   *)
ReadBytes(ch, b, n) ==
  LET want == n - Len(b)
      k    == IF Len(Head(ch)) < want THEN Len(Head(ch)) ELSE want
  IN  [chain  |-> Hide(ch, k),
       buf    |-> b \o SubSeq(Head(ch), 1, k),
       status |-> IF k = want THEN "OK" ELSE "MORE"]

ReadUint32(ch, b) == ReadBytes(ch, b, 4)

ReadDataShiftVector(ch, b) == ReadBytes(ch, b, 2 * BitsToBytes(bits))

Uint32Value(b) == b[1] + 256 * (b[2] + 256 * (b[3] + 256 * b[4]))

-----------------------------------------------------------------------------
(* The received bytes are a suffix of what the client sends, the command   *)
(* that handle_receive is in the middle of is a known one, and             *)
(* state->buffer is never filled beyond its XVC_BUFFER_MAX_LEN bytes (nor  *)
(* beyond the longest command string while reading a command).             *)
TypeOK ==
  /\ session \in Sessions
  /\ rest = SubSeq(Stream[session], Len(Stream[session]) - Len(rest) + 1,
                   Len(Stream[session]))
  /\ Len(chain) <= MaxChain
  /\ pc \in {"recv", "loop", "exec", "closed", "hung"}
  /\ cmd \in {"NOT_SET", "getinfo", "settck", "shift"}
  /\ bits \in Int
  /\ failed \in BOOLEAN
  /\ conns \in 1 .. MaxConnections
  /\ Len(buf) <= 2 * MaxBytes
  /\ cmd = "NOT_SET" => Len(buf) <= 8

(* Mutant: the length of the previous shift is kept.                       *)
FreshKeepLength ==
  /\ cmd' = "NOT_SET"
  /\ buf' = <<>>
  /\ UNCHANGED bits

Fresh ==
  /\ cmd' = "NOT_SET"
  /\ buf' = <<>>
  /\ bits' = -1

Init ==
  /\ session \in Sessions
  /\ rest = Stream[session]
  /\ chain = <<>>
  /\ pc = "recv"
  /\ cmd = "NOT_SET"
  /\ buf = <<>>
  /\ bits = -1
  /\ replies = <<>>
  /\ failed = FALSE
  /\ conns = 1

(* The ends of the pbufs in a chain that holds some of the next n bytes.   *)
Cuts(n) ==
  {c \in UNION {[1 .. m -> 1 .. n] : m \in 1 .. MaxChain} :
     \A j \in 1 .. Len(c) - 1 : c[j] < c[j + 1]}

(* netconn_recv_tcp_pbuf returns the next bytes in a chain of pbufs.       *)
Receive ==
  /\ pc = "recv"
  /\ \E c \in Cuts(Len(rest)) :
       /\ chain' = [j \in 1 .. Len(c) |->
                      SubSeq(rest, IF j = 1 THEN 1 ELSE c[j - 1] + 1, c[j])]
       /\ rest' = SubSeq(rest, c[Len(c)] + 1, Len(rest))
  /\ pc' = "loop"
  /\ UNCHANGED <<session, cmd, buf, bits, replies, failed, conns>>

(* The loop condition of handle_receive: skip an empty pbuf, or return     *)
(* when the last one is empty.                                             *)
NextPbuf ==
  /\ pc = "loop"
  /\ Head(chain) = <<>>
  /\ IF Len(chain) > 1
     THEN chain' = Tail(chain) /\ UNCHANGED pc
     ELSE chain' = <<>> /\ pc' = "recv"
  /\ UNCHANGED <<session, rest, cmd, buf, bits, replies, failed, conns>>

HandleCommand ==
  /\ pc = "loop"
  /\ Head(chain) # <<>>
  /\ cmd = "NOT_SET"
  /\ LET r == ReadCommand(chain, buf)
     IN  /\ chain' = r.chain
         /\ CASE r.status = "MORE"  -> pc' = "loop" /\ buf' = r.buf /\ UNCHANGED cmd
              [] r.status = "ERROR" -> pc' = "closed" /\ UNCHANGED <<buf, cmd>>
              [] r.status = "HANG"  -> pc' = "hung" /\ UNCHANGED <<buf, cmd>>
              [] OTHER              -> pc' = "exec" /\ buf' = <<>> /\ cmd' = r.status
  /\ UNCHANGED <<session, rest, bits, replies, failed, conns>>

(* A command whose string has been read goes on with the same pbuf.        *)
Resume ==
  /\ pc = "loop"
  /\ Head(chain) # <<>>
  /\ cmd # "NOT_SET"
  /\ pc' = "exec"
  /\ UNCHANGED <<session, rest, chain, cmd, buf, bits, replies, failed, conns>>

(* A reply c is written, and the server is ready for the next command, or  *)
(* writing it fails, which closes the connection.                          *)
Reply(c) ==
  \/ /\ replies' = Append(replies, c)
     /\ Fresh
     /\ pc' = "loop"
     /\ UNCHANGED failed
  \/ /\ failed' = TRUE
     /\ pc' = "closed"
     /\ UNCHANGED <<replies, cmd, buf, bits>>

(* The reader used up the pbuf: keep what it has read for the next one.    *)
NeedMore(r) ==
  /\ r.status = "MORE"
  /\ buf' = r.buf
  /\ pc' = "loop"
  /\ UNCHANGED <<replies, cmd, bits, failed>>

(* Mutant: the command stays set after its reply.                          *)
HandleGetinfoAgain ==
  /\ pc = "exec"
  /\ cmd = "getinfo"
  /\ replies' = Append(replies, [kind |-> "getinfo"])
  /\ pc' = "loop"
  /\ UNCHANGED <<session, rest, chain, cmd, buf, bits, failed, conns>>

HandleGetinfo ==
  /\ pc = "exec"
  /\ cmd = "getinfo"
  /\ Reply([kind |-> "getinfo"])
  /\ UNCHANGED <<session, rest, chain, conns>>

HandleSettck ==
  /\ pc = "exec"
  /\ cmd = "settck"
  /\ LET r == ReadUint32(chain, buf)
     IN  /\ chain' = r.chain
         /\ \/ /\ r.status = "OK"
               /\ Reply([kind |-> "settck", period |-> Uint32Value(r.buf)])
            \/ NeedMore(r)
  /\ UNCHANGED <<session, rest, conns>>

(* Mutant: the length is not compared with the size of the buffer.         *)
HandleShiftLengthAny ==
  /\ pc = "exec"
  /\ cmd = "shift"
  /\ bits = -1
  /\ LET r == ReadUint32(chain, buf)
     IN  /\ chain' = r.chain
         /\ \/ /\ r.status = "OK"
               /\ bits' = Uint32Value(r.buf)
               /\ buf' = <<>>
               /\ pc' = "exec"
               /\ UNCHANGED <<replies, cmd, failed>>
            \/ NeedMore(r)
  /\ UNCHANGED <<session, rest, conns>>

HandleShiftLength ==
  /\ pc = "exec"
  /\ cmd = "shift"
  /\ bits = -1
  /\ LET r == ReadUint32(chain, buf)
     IN  /\ chain' = r.chain
         /\ \/ /\ r.status = "OK"
               /\ bits' = Uint32Value(r.buf)
               /\ buf' = <<>>
               /\ pc' = IF bits' > 8 * MaxBytes THEN "closed" ELSE "exec"
               /\ UNCHANGED <<replies, cmd, failed>>
            \/ NeedMore(r)
  /\ UNCHANGED <<session, rest, conns>>

(* The vectors are complete: do_shift succeeds and its reply is written,   *)
(* or one of them fails.                                                   *)
HandleShiftData ==
  /\ pc = "exec"
  /\ cmd = "shift"
  /\ bits # -1
  /\ LET r == ReadDataShiftVector(chain, buf)
         n == BitsToBytes(bits)
     IN  /\ chain' = r.chain
         /\ \/ /\ r.status = "OK"
               /\ Reply([kind |-> "shift", bits |-> bits,
                         tms  |-> SubSeq(r.buf, 1, n),
                         tdi  |-> SubSeq(r.buf, n + 1, 2 * n)])
            \/ NeedMore(r)
  /\ UNCHANGED <<session, rest, conns>>

(* The client drops the connection, or the server closes it after an       *)
(* error; the state is reset and the next client is accepted.              *)
Reconnect ==
  /\ pc \in {"recv", "closed"}
  /\ conns < MaxConnections
  /\ conns' = conns + 1
  /\ session' \in Sessions
  /\ rest' = Stream[session']
  /\ chain' = <<>>
  /\ pc' = "recv"
  /\ Fresh
  /\ replies' = <<>>
  /\ failed' = FALSE

Server ==
  \/ NextPbuf
  \/ HandleCommand
  \/ Resume
  \/ HandleGetinfo
  \/ HandleSettck
  \/ HandleShiftLength
  \/ HandleShiftData

Next == Receive \/ Server \/ Reconnect

Spec == Init /\ [][Next]_vars

-----------------------------------------------------------------------------
(* Properties.                                                             *)

(* What the loop has left to do: three units for each pbuf and each byte,  *)
(* and the rest of the current pass; a pass whose command needs data and   *)
(* finds some consumes it.                                                 *)
Work ==
  LET needsData == cmd = "settck" \/ (cmd = "shift" /\ bits # 0)
  IN  3 * (Len(chain) + Len(FlattenSeq(chain)))
        + CASE pc = "loop"                                        -> 1
            [] pc = "exec" /\ needsData /\ Head(chain) # <<>>     -> 0
            [] OTHER                                              -> 2

(* The server executes exactly what the client sent, in order: wherever    *)
(* the stream is cut, the commands executed so far are the client's first  *)
(* commands, with their arguments and vectors intact; nothing of an        *)
(* earlier connection leaks in.                                            *)
CommandsInOrder == IsPrefix(replies, session)

(* Once a client's bytes have all been received and handled, each of its   *)
(* commands has been answered, and the server expects a new command.       *)
AllAnswered ==
  (pc = "recv" /\ rest = <<>> /\ chain = <<>>) =>
    replies = session /\ cmd = "NOT_SET" /\ buf = <<>>

(* handle_receive returns, because every step of its loop leaves less to   *)
(* do: a pbuf or a byte less, or the reply to a command already read.  No  *)
(* cut of the data makes the loop spin without consuming any.              *)
LoopConsumes ==
  [][(pc \in {"loop", "exec"} /\ pc' \in {"loop", "exec"}) => Work' < Work]_vars

(* Where the string of the next command begins in the stream, and where    *)
(* the pbuf that is being read ends.                                       *)
CommandStart == Len(FlattenSeq([i \in 1 .. Len(replies) |-> Encode(session[i])]))
CommandEnd ==
  LET c == session[Len(replies) + 1]
  IN  CommandStart + Len(IF c.kind = "junk" THEN c.text ELSE CommandStr[c.kind])
PbufEnd == Len(Stream[session]) - Len(rest) - Len(FlattenSeq(Tail(chain)))

(* The server stops serving a client only for a reason.  It gives the      *)
(* connection up because of the client's data or because do_shift or       *)
(* netconn_write failed, never because of where the data was cut.  And,    *)
(* "when recv_buffer does not contain a full command and more data is      *)
(* needed, XVC_STATUS_MORE_DATA_NEEDED is returned": the task is stopped   *)
(* for ever only if two pbufs of one chain meet inside a command string,   *)
(* never by where one receive buffer ends and the next begins, and never   *)
(* by a cut inside a number or a vector.                                   *)
StopsForCause ==
  /\ pc = "closed" =>
       failed \/ (Len(replies) < Len(session) /\ ~Valid(session[Len(replies) + 1]))
  /\ pc = "hung" =>
       Len(chain) > 1 /\ PbufEnd \in CommandStart + 1 .. CommandEnd - 1
=============================================================================
