---------------------------- MODULE TelnetSession ----------------------------
(***************************************************************************)
(* The Telnet server of BasicTelnet.c: the task that accepts one           *)
(* connection after the other, and prvtelnet_Connection, which cuts what   *)
(* it receives into lines, executes each line and looks for the end of the *)
(* connection.  The part of lwIP that it stands on is modelled with it:    *)
(* netconn_recv, the receive mailbox and last_err (api_lib.c, api_msg.c),  *)
(* the data that TCP keeps when the mailbox is full (tcp_in.c, tcp.c), and *)
(* the callbacks that ETHINT runs when a segment, a FIN or a RST comes in, *)
(* at any moment.  ETHINT's priority is the highest: the callbacks of one  *)
(* segment are one step.                                                   *)
(*                                                                         *)
(* A character is "d", the letter of the dump command and a hexadecimal    *)
(* digit too, the digit "1", a space, "x", which stands for all that is no *)
(* digit, or the newline "n".  A 32-bit word is the function of its        *)
(* hexadecimal digits.  What the other commands do is part of XvcServer    *)
(* and FpgaAccess.                                                         *)
(***************************************************************************)
EXTENDS Integers, Sequences, FiniteSets

CONSTANTS
  LINEBUF_LENGTH,  \* 80 in the source
  WORD_DIGITS,     \* hexadecimal digits of a long: 8
  MBOX_SIZE,       \* DEFAULT_TCP_RECVMBOX_SIZE
  Packets,         \* the packets that the peer may send
  MaxPackets       \* bound on the packets of one connection

\* A packet is a chain of pbufs, which the model cuts in two: the characters
\* of the first pbuf, and those of the others, if there are any.
Char == {"d", "x", "1", " ", "n"}
Digits == {"d", "1"}

ASSUME TelnetAssumption ==
  /\ LINEBUF_LENGTH \in Nat \ {0, 1} /\ WORD_DIGITS \in Nat \ {0}
  /\ MBOX_SIZE \in Nat \ {0} /\ MaxPackets \in Nat
  /\ \A p \in Packets : /\ p.first \in Seq(Char) /\ p.first # <<>>
                        /\ p.rest \in Seq(Char)

Null == [first |-> <<>>, rest |-> <<>>]   \* the NULL message: end of the stream
Junk == "?"                               \* a character that nobody has written

\* The values of lptr: the words, and two that are not known.
Words == [1 .. WORD_DIGITS -> 0 .. 15]
Unset == [j \in 1 .. WORD_DIGITS |-> -1]   \* lptr before it is assigned
Lost == [j \in 1 .. WORD_DIGITS |-> -2]    \* what was read beyond the buffer
None == [j \in 1 .. WORD_DIGITS |-> -3]    \* the parser's answer: no digit
Places == Words \cup {Unset, Lost}

VARIABLES
  link,        \* the peer's side: "none", "open", "finished", "reset"
  mbox,        \* recvmbox
  held,        \* refused_data of the pcb: a packet that met a full mailbox
  lastErr,     \* last_err of the netconn: "ERR_OK", "ERR_CLSD", "ERR_RST"
  point,       \* program point of the task
  linebuf,     \* the line buffer
  linebufpos,  \* its fill
  lptr,        \* the address of the next dump
  packet,      \* the packet in hand
  i,           \* characters of the packet that are done
  taken,       \* history: how many packets the session has taken
  sent,        \* history: the characters of the packets that it has taken
  done,        \* history: the commands that the session has executed
  unseen       \* history: the connection ended and the task is not told: the
               \* NULL of a FIN met a full mailbox, or a RST came when the
               \* task was not about to see its NULL

session == <<linebuf, linebufpos, lptr, packet, i>>
netconn == <<link, mbox, held, lastErr, unseen>>
telnetVars == <<netconn, point, session, taken, sent, done>>

Fatal(e) == e \in {"ERR_CLSD", "ERR_RST"}    \* ERR_IS_FATAL
SetSafeErr(e) == lastErr' = IF Fatal(lastErr) THEN lastErr ELSE e

-----------------------------------------------------------------------------
TelnetInit ==
  /\ link = "none" /\ mbox = <<>> /\ held = Null /\ lastErr = "ERR_OK"
  /\ unseen = FALSE
  /\ point = "accept"
  /\ linebuf = [k \in 0 .. LINEBUF_LENGTH - 1 |-> Junk]
  /\ linebufpos = 0 /\ lptr = Unset
  /\ packet = Null /\ i = 0
  /\ taken = 0 /\ sent = <<>> /\ done = <<>>

-----------------------------------------------------------------------------
(* The peer, and what the stack does with it. *)

\* netconn_accept returns a connection
Connect ==
  /\ point = "accept" /\ link = "none"
  /\ link' = "open"
  /\ point' = "prompt"
  /\ taken' = 0 /\ sent' = <<>> /\ done' = <<>>
  /\ UNCHANGED <<mbox, held, lastErr, unseen, session>>

\* recv_tcp: sys_mbox_trypost leaves a full mailbox as it is.
Room(m) == Len(m) < MBOX_SIZE
RecvTcp(m, p) == IF Room(m) THEN Append(m, p) ELSE m

\* A segment may come: TCP drops it while it has refused data.
Arrives == link = "open" /\ held = Null
More == taken + Len(mbox) < MaxPackets

\* A segment of data.  A full mailbox refuses it and TCP keeps it.
Deliver(p) ==
  /\ Arrives /\ More
  /\ mbox' = RecvTcp(mbox, p)
  /\ held' = IF Room(mbox) THEN Null ELSE p
  /\ UNCHANGED <<link, lastErr, unseen, point, session, taken, sent, done>>

\* tcp_fasttmr, and tcp_input before the next segment: the data once more
Redeliver ==
  /\ held # Null /\ Room(mbox)
  /\ mbox' = RecvTcp(mbox, held)
  /\ held' = Null
  /\ UNCHANGED <<link, lastErr, unseen, point, session, taken, sent, done>>

\* A FIN: the callback with NULL.  A full mailbox refuses the NULL too, but
\* nothing keeps it.
Finish ==
  /\ Arrives
  /\ link' = "finished"
  /\ mbox' = RecvTcp(mbox, Null)
  /\ unseen' = ~Room(mbox)
  /\ UNCHANGED <<held, lastErr, point, session, taken, sent, done>>

\* A segment of data with the FIN: both callbacks
DeliverFin(p) ==
  /\ Arrives /\ More
  /\ link' = "finished"
  /\ mbox' = RecvTcp(RecvTcp(mbox, p), Null)
  /\ held' = IF Room(mbox) THEN Null ELSE p
  /\ unseen' = ~Room(RecvTcp(mbox, p))
  /\ UNCHANGED <<lastErr, point, session, taken, sent, done>>

\* err_tcp: the NULL message is lost when the mailbox is full.  The pcb goes,
\* and the data that it kept.
Reset ==
  /\ link \in {"open", "finished"} /\ point # "accept"
  /\ link' = "reset"
  /\ lastErr' = "ERR_RST"
  /\ mbox' = RecvTcp(mbox, Null)
  /\ held' = Null
  /\ unseen' = ~(point = "blocked" /\ (mbox = <<>> \/ Head(mbox) = Null))
  /\ UNCHANGED <<point, session, taken, sent, done>>

-----------------------------------------------------------------------------
(* The task. *)

\* The prompt is written; an error of netconn_write is ignored.
Prompt ==
  /\ point = "prompt"
  /\ point' = "recv"
  /\ UNCHANGED <<netconn, session, taken, sent, done>>

\* netconn_recv looks at last_err before it waits for the mailbox.
RecvLook ==
  /\ point = "recv"
  /\ point' = CASE lastErr = "ERR_OK"   -> "blocked"
             [] lastErr = "ERR_CLSD" -> "close"
             [] lastErr = "ERR_RST"  -> "retry"
  /\ UNCHANGED <<netconn, session, taken, sent, done>>

\* The loop over errors other than ERR_CLSD and ERR_MEM: a delay, and again.
\* (ERR_MEM does not occur: only this session uses the pool of netbufs.)
Retry ==
  /\ point = "retry"
  /\ point' = "recv"
  /\ UNCHANGED <<netconn, session, taken, sent, done>>

\* Mutant: the end of the stream is taken for an empty packet.
RecvClosedForgets ==
  /\ point = "blocked" /\ mbox # <<>> /\ Head(mbox) = Null
  /\ mbox' = Tail(mbox)
  /\ point' = "prompt"
  /\ UNCHANGED <<link, held, lastErr, unseen, session, taken, sent, done>>

\* netconn_recv: the mailbox has the NULL message
RecvClosed ==
  /\ point = "blocked" /\ mbox # <<>> /\ Head(mbox) = Null
  /\ mbox' = Tail(mbox)
  /\ SetSafeErr("ERR_CLSD")
  /\ point' = "close"
  /\ UNCHANGED <<link, held, unseen, session, taken, sent, done>>

\* Mutant: every packet starts a new line.
RecvDataFresh ==
  /\ point = "blocked" /\ mbox # <<>> /\ Head(mbox) # Null
  /\ packet' = Head(mbox) /\ i' = 0
  /\ mbox' = Tail(mbox)
  /\ taken' = taken + 1 /\ sent' = sent \o Head(mbox).first
  /\ point' = "process" /\ linebufpos' = 0
  /\ UNCHANGED <<link, held, lastErr, unseen, linebuf, lptr, done>>

\* netconn_recv: the mailbox has data
RecvData ==
  /\ point = "blocked" /\ mbox # <<>> /\ Head(mbox) # Null
  /\ packet' = Head(mbox) /\ i' = 0
  /\ mbox' = Tail(mbox)
  /\ taken' = taken + 1 /\ sent' = sent \o Head(mbox).first
  /\ point' = "process"
  /\ UNCHANGED <<link, held, lastErr, unseen, linebuf, linebufpos, lptr, done>>

\* A character of the packet enters the line buffer, if there is room.
Ch == packet.first[i + 1]
Stored == IF linebufpos < LINEBUF_LENGTH THEN [linebuf EXCEPT ![linebufpos] = Ch]
                                         ELSE linebuf

\* The line in buffer b: what comes before its terminator, or all of it.
Text(b) ==
  LET ends == {k \in DOMAIN b : b[k] = "n"}
      len  == IF ends = {} THEN LINEBUF_LENGTH
              ELSE CHOOSE k \in ends : \A j \in ends : k <= j
  IN [k \in 1 .. len |-> b[k - 1]]

\* The first position from f on whose character is not in S, if there is one;
\* else the parser leaves the buffer.
Skip(b, S, f) ==
  LET others == {k \in f .. LINEBUF_LENGTH - 1 : b[k] \notin S}
  IN IF others = {} THEN LINEBUF_LENGTH
     ELSE CHOOSE k \in others : \A j \in others : k <= j

\* The n digits of s before position e, shifted into a word one after the
\* other: the last WORD_DIGITS of them, zeros before fewer.
DigitValue(c) == IF c = "d" THEN 13 ELSE 1
Shifted(s, e, n) ==
  [j \in 1 .. WORD_DIGITS |->
     IF WORD_DIGITS - j < n THEN DigitValue(s[e + j - 1 - WORD_DIGITS]) ELSE 0]

\* linebuf_set_u32 from position 1: spaces, then digits.  What follows a
\* buffer that ends first is not known.
Number(b) ==
  LET from == Skip(b, {" "}, 1)
      to   == Skip(b, Digits, from)
  IN CASE to = LINEBUF_LENGTH -> Lost
       [] to < LINEBUF_LENGTH /\ to = from -> None
       [] to < LINEBUF_LENGTH /\ to > from -> Shifted(b, to, to - from)

\* The place behind a dump at a: a + 16, with the carry from digit to digit,
\* known only if a is.
Past(a) ==
  IF a \in {Unset, Lost} THEN a
  ELSE [j \in 1 .. WORD_DIGITS |->
          IF j < WORD_DIGITS /\ \A k \in j + 1 .. WORD_DIGITS - 1 : a[k] = 15
          THEN (a[j] + 1) % 16 ELSE a[j]]

\* Mutant: lptr stays where the dump began.
ExecuteStays(b) ==
  LET addr == IF Number(b) # None THEN Number(b) ELSE lptr
  IN /\ done' = Append(done, [text |-> Text(b), addr |-> IF b[0] = "d" THEN addr ELSE Unset])
     /\ lptr' = IF b[0] = "d" THEN addr ELSE lptr

\* The command in the buffer.  `d' dumps at the address given, else at lptr,
\* and moves lptr past the dump.
Execute(b) ==
  LET addr == IF Number(b) # None THEN Number(b) ELSE lptr
  IN IF b[0] = "d"
     THEN /\ done' = Append(done, [text |-> Text(b), addr |-> addr])
          /\ lptr' = Past(addr)
     ELSE /\ done' = Append(done, [text |-> Text(b), addr |-> Unset])
          /\ UNCHANGED lptr

\* The loop over the characters of the packet.
Process ==
  /\ point = "process" /\ i < Len(packet.first)
  /\ i' = i + 1
  /\ linebuf' = Stored
  /\ IF Ch = "n"
     THEN linebufpos' = 0 /\ Execute(Stored)
     ELSE /\ linebufpos' = IF linebufpos < LINEBUF_LENGTH THEN linebufpos + 1
                                                         ELSE linebufpos
          /\ UNCHANGED <<lptr, done>>
  /\ UNCHANGED <<netconn, point, packet, taken, sent>>

\* The packet is done.  Its first character decides whether the session ends.
PacketDone ==
  /\ point = "process" /\ i = Len(packet.first)
  /\ point' = IF packet.first[1] = "x" THEN "close" ELSE "prompt"
  /\ packet' = Null /\ i' = 0
  /\ UNCHANGED <<netconn, linebuf, linebufpos, lptr, taken, sent, done>>

\* netconn_close and netconn_delete.  The next session has new variables.
Close ==
  /\ point = "close"
  /\ point' = "accept"
  /\ link' = "none" /\ mbox' = <<>> /\ held' = Null /\ lastErr' = "ERR_OK"
  /\ unseen' = FALSE
  /\ linebuf' = [k \in DOMAIN linebuf |-> Junk]
  /\ linebufpos' = 0 /\ lptr' = Unset /\ packet' = Null /\ i' = 0
  /\ UNCHANGED <<taken, sent, done>>

Task == Prompt \/ RecvLook \/ Retry \/ RecvClosed \/ RecvData \/ Process
        \/ PacketDone \/ Close

TelnetNext ==
  \/ Connect \/ Redeliver \/ Finish \/ Reset \/ Task
  \/ \E p \in Packets : Deliver(p) \/ DeliverFin(p)

\* The task runs when it can, and so does TCP's timer; the peer does what it
\* likes.
TelnetSpec ==
  /\ TelnetInit /\ [][TelnetNext]_telnetVars
  /\ WF_telnetVars(Task) /\ WF_telnetVars(Redeliver)

-----------------------------------------------------------------------------
(* Properties. *)

TelnetType ==
  /\ link \in {"none", "open", "finished", "reset"}
  /\ mbox \in Seq(Packets \cup {Null}) /\ Len(mbox) <= MBOX_SIZE
  /\ held \in Packets \cup {Null}
  /\ lastErr \in {"ERR_OK", "ERR_CLSD", "ERR_RST"} /\ unseen \in BOOLEAN
  /\ point \in {"accept", "prompt", "recv", "blocked", "retry", "process", "close"}
  /\ linebuf \in [0 .. LINEBUF_LENGTH - 1 -> Char \cup {Junk}]
  /\ linebufpos \in 0 .. LINEBUF_LENGTH /\ lptr \in Places
  /\ packet \in Packets \cup {Null} /\ i \in 0 .. Len(packet.first)
  /\ taken \in Nat /\ sent \in Seq(Char)
  /\ done \in Seq([text : Seq(Char), addr : Places])

\* What the session has read: all but what is left of the packet in hand.
Read == SubSeq(sent, 1, Len(sent) - (Len(packet.first) - i))

\* The newlines among the first p characters of a text.
Newlines(s, p) == {q \in 1 .. p : s[q] = "n"}

\* A line of a text: it follows position b and ends with the newline at p.
IsLine(s, b, p) ==
  /\ b = 0 \/ s[b] = "n"
  /\ s[p] = "n"
  /\ \A q \in b + 1 .. p - 1 : s[q] # "n"

\* However the stream is cut into packets, the commands are its lines, one
\* for each and in their order, cut to the length of the buffer; nothing of
\* an earlier line comes into a later one.  (Of a packet that is a chain of
\* pbufs the session reads the first: what is left out is not in the lines.)
CommandsAreLines ==
  /\ TelnetType
  /\ point # "accept" =>
       /\ Len(done) = Cardinality(Newlines(Read, Len(Read)))
       /\ \A p \in 1 .. Len(Read), b \in 0 .. Len(Read) :
            b < p /\ IsLine(Read, b, p) =>
              LET cut == IF p - b - 1 < LINEBUF_LENGTH THEN p - 1 ELSE b + LINEBUF_LENGTH
              IN  done[Cardinality(Newlines(Read, p))].text = SubSeq(Read, b + 1, cut)

IsDump(c) == c.text # <<>> /\ c.text[1] = "d"

\* The number of a line: its digits begin at f, after spaces only.
Begins(text, f) == text[f] \in Digits /\ \A h \in 2 .. f - 1 : text[h] = " "
HasAddress(c) == \E f \in 2 .. Len(c.text) : Begins(c.text, f)

\* a is the word that is left of the digits from f to before e, where the
\* line ends or something else follows.
IsAddress(text, a) ==
  \E f \in 2 .. Len(text) : \E e \in f + 1 .. Len(text) + 1 :
    /\ Begins(text, f)
    /\ \A h \in f .. e - 1 : text[h] \in Digits
    /\ e <= Len(text) => text[e] \notin Digits
    /\ a = Shifted(text, e, e - f)

\* The registers that `d' dumps: those at the number in the line, which is
\* the last eight of the digits behind the spaces, whatever letters they
\* are, else where the last dump ended.  Only a line that is too long makes
\* the parser run out of the buffer, and only before the first address of a
\* session is the place unknown.
DumpAddresses ==
  \A k \in 1 .. Len(done) : IsDump(done[k]) =>
    LET text == done[k].text
        addr == done[k].addr
        before == {j \in 1 .. k - 1 : IsDump(done[j])}
    IN /\ HasAddress(done[k]) /\ addr # Lost => IsAddress(text, addr)
       /\ addr = Lost =>
            \E j \in before \cup {k} : Len(done[j].text) = LINEBUF_LENGTH
       /\ addr = Unset => \A j \in before \cup {k} : ~HasAddress(done[j])
       /\ ~HasAddress(done[k]) =>
            \/ addr = Lost /\ Len(text) = LINEBUF_LENGTH
            \/ \A j \in before : (\A h \in before : h <= j) => addr = Past(done[j].addr)

\* The task comes back to accept after every connection that has ended,
\* unless nobody told it: the NULL of a FIN met a full mailbox, or a RST came
\* while the task did not wait in netconn_recv with nothing left to read, and
\* last_err keeps it from the NULL message.
SessionEnds ==
  (link \in {"finished", "reset"} /\ ~unseen) ~> (point = "accept" \/ unseen)
=============================================================================
