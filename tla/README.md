# TLA+ models of the VME-SAM3X firmware

VME-SAM3X is the firmware of the SAM3X microcontroller on the VME-EVM-300 and
VME-EVR-300 cards: FreeRTOS 10 and lwIP 1.4.0 on a Cortex-M3, a UDP server that
gives access to the FPGA's registers, an embedded Xilinx Virtual Cable (XVC)
server that drives the FPGA's JTAG port, a Telnet and a serial console. This
directory holds TLA+ modules of its core, TLC runs on small instances, and
proofs checked by TLAPS. `PROJECT.json` lists runs, mutants, findings, hazards,
theorems, and the source lines that each definition stands for.

Paths below are relative to the repository (`src/`); `demo/` is
`src/ASF/thirdparty/freertos/demo/`.

## 1. The system

The build defines `UDP_USED=1`, `TELNET_USED=1`, `XVC_USED=1`, `HTTP_USED=0` and
`FREERTOS_USED`. The scheduler is preemptive, with time slices.

| task | priority | code |
|---|---|---|
| ETHINT | 7 | `ethernetif_input`: reads frames and runs lwIP's input side, the UDP callback included |
| TCP/IP | 7 | lwIP's own thread: timers and the sequential API |
| XVC | 5 | `vXvcServer` |
| UDP set-up | 4 | registers `udp_server_callback`, then deletes itself |
| Telnet | 3 | `vBasicTelnetServer` |
| LED, LED2, serial monitor | 0 | `task_led` polls the JTAG cables once a second |

### Inventory

| component | state | operations | interacts with | what is hard | what makes it correct |
|---|---|---|---|---|---|
| XVC state machine, `src/xvc/xvc_server.c` | `xvc_server_state`, direction of the JTAG pins, JTAGSEL | `enable`, `disable`, `update_gpio_config`, `update_jtagsel`, `do_shift` | called by the XVC, Telnet and LED tasks; the cables change by themselves | the state is the lock; it is taken in critical sections but written back outside of them; error returns leave it in a transition | one holder of the port at a time; transitions end; a cable gets the port |
| XVC framing, same file | `xvc_server_connection_state_t` | `handle_receive`, `read_command`, `read_uint32`, `read_data_shift_vector` | lwIP's pbuf chains | the stream may be cut anywhere | the client's commands, in order, however it is cut |
| XVC bit loop, same file | loop variables, one buffer for TDI and TDO | `do_shift` | the JTAG chain | in-place overwrite, prefetch at byte ends | each bit at its place, in both directions |
| EMAC transmit, `emac.c`, `ethernetif.c` | ring of 8 descriptors, head, tail, wakeup callback | `low_level_output`, `emac_dev_write`, `emac_handler` | DMA, interrupt, up to two tasks | full ring, lost wakeups, unlocked head | frames leave in order, none lost or overwritten |
| EMAC receive, same files | ring of 16 buffers, `us_rx_idx`, callback | `low_level_input`, `emac_dev_read`, `emac_handler` | DMA, interrupt | frames over several buffers, overflow in the middle of a frame, arrival while going to sleep | complete frames, in order; no buffer leaks |
| UDP register server, `demo/lwip_sam_example/BasicUDP.c` | the packet itself | `udp_server_callback` | `fpga_twi.c` | partial failures, two protocol versions | a status of zero is true |
| FPGA access, `fpga_twi.c` | the address and the result kept by the FPGA | `fpga_read_*`, `fpga_write_*` | TWI driver; called by ETHINT, Telnet, serial monitor | sequences of transactions without a lock, successes that were none | each access is about the register it names |
| TWI driver, `src/ASF/sam/drivers/twi/twi.c` | one waiting task per bus, TWI and PDC registers | `twi_master_read`, `twi_master_write`, handler | one notification per task, shared with the EMAC driver | flags that are cleared by a read, timeouts | success means that all bytes were transferred |
| Telnet session, `BasicTelnet.c` | connection, its mailbox, `refused_data` and `last_err`, line buffer, last address | `d`, `m`, `j`, `x` commands | lwIP's callbacks in ETHINT and the TCP/IP thread; XVC, FPGA access | packets that cut lines, RST and FIN at any moment, also at a full mailbox, long lines and long numbers | commands are lines; the session ends when the connection does |
| TCP/IP thread, lwIP's `tcpip.c`, `lwip_timers_140.c` | mailbox, list of timeouts, `tcpip_tcp_timer_active` | `tcpip_apimsg`, `sys_timeout`, the timers | callers of the netconn interface; ETHINT runs the stack too | messages on the callers' stacks, a timer list that two tasks change without a lock, ticks that wrap around | calls return, no message outlives its caller, timers are kept and on time |
| sys_arch | semaphores, mailboxes | `sys_mbox_post`, `sys_arch_mbox_fetch`, `sys_arch_sem_wait` | FreeRTOS queues | tick wrap-around | the time waited is what lwIP is told |
| serial monitor, SPI flash, `serial_monitor.c`, `ext_flash.c`, `m25p128_spi.c` | the set-up sector; latch and busy bit of the chip | `E`, `S`; erase, program, wait; the start of the board | SPI | a chip that works on while the firmware goes on, power losses, errors on the SPI | the stored set-up survives; firmware and chip stay in step |

## 2. Modules

| module | what it models |
|---|---|
| `JtagPort` | abstract: an exclusive JTAG port, configured or shifted, never both |
| `XvcServer` | the XVC state machine in the XVC, Telnet and LED tasks |
| `XvcProtocol`, `XvcProtocolProofs` | the framing of the XVC byte stream, and theorems about it |
| `XvcShift` | the bit loop of `do_shift` |
| `XvcServerProofs` | theorems about `XvcServer` and `XvcShift` |
| `EmacTx`, `EmacTxProofs` | the transmit path of the Ethernet driver, in the two tasks that run lwIP, and a theorem about its ring |
| `EmacRx`, `EmacRxProofs` | the receive path, and theorems about its ring and its frames |
| `FpgaRegisters` | registers and requests of the UDP protocol |
| `RegisterService` | abstract: what the repository's `README.md` promises to a UDP client |
| `FpgaAccess`, `FpgaAccessProofs` | the UDP server and a Telnet session on the TWI bus, and theorems about them |
| `TwiMaster`, `TwiMasterProofs` | the TWI driver below `FpgaAccess`: one transaction in all its steps, and theorems about what it reports |
| `TimeoutOps` | the list of timeouts as a sequence: what `sys_timeout` and the wait do to it |
| `TcpipThread`, `TcpipThreadProofs` | lwIP's TCP/IP thread: mailbox, netconn calls, list of timeouts, TCP timer, and theorems about the calls and the timers |
| `TelnetSession` | the connection, the line buffer, the parser of numbers and the `d` command of the Telnet server |
| `SetupFlash` | the stored set-up: serial commands `E` and `S`, the flash chip, the start |
| `ConsoleProofs` | theorems about `TelnetSession` and `SetupFlash` |
| `MC*` | the instances that TLC checks (where a `.cfg` alone cannot give the constants) |

Operators called "Mutant" in a comment are deliberately wrong variants of the
definition that follows them. Each property is violated when one of them takes
the place of the original, which shows that the property depends on that code.

How the modules fit together: `XvcProtocol` hands a complete vector to the loop
of `XvcShift`, which runs inside the steps `ShiftHigh` and `ShiftLow` of
`XvcServer`. `FpgaAccess` treats a TWI transaction as two steps, its beginning and its end, and lets
it have every outcome that `TwiMaster` shows the driver to have, also the one of finding 2 (refused
and reported as done) and a read that begins with a byte left in RHR. `EmacRx` and `EmacTx` share ETHINT's
notification, which each sees as a notification that may appear or vanish while
the other part runs. `TcpipThread` is the thread that `TelnetSession` and the XVC
task call.

### XvcServer

State: `state` is `xvc_server_state`; `pins`, `tck`, `jtagsel` are the GPIO
outputs; `connected` the cables; `pc`, `call`, `saw`, `status` the program point
and locals of each task; `bitsLeft` the rest of a shift; `priority` the priorities,
chosen once. A critical section of the code is one action; every other access to
shared state is an action of its own. So `update_gpio_config` is `ConfigBegin`
(critical section), `ConfigReadJtag`, `ConfigReadUsb`, `ConfigRelease`, `ConfigDrive`,
`ConfigOutput`, `ConfigSelect`, `ConfigRestore`; `enable` and `disable` are
`EnableBegin`/`EnableEnd` and `DisableBegin`/`DisableEnd` around it; `do_shift` is
`ShiftBegin`, one pair `ShiftHigh`/`ShiftLow` for each TCK cycle, `ShiftEnd`. `CanRun` is
the scheduler: a task runs only while every task of higher priority is blocked.

### XvcProtocol

State: the bytes still to come (`rest`), the received chain (`chain`), and the
connection state (`cmd`, `buf`, `bits`). `Receive` cuts the stream at any place
into up to `MaxChain` pbufs; `HandleCommand`, `Resume`, `HandleGetinfo`,
`HandleSettck`, `HandleShiftLength`, `HandleShiftData` are the branches of
`handle_receive`; `Reconnect` is a new client, also after a connection that died in
the middle of a command. Command strings have their real bytes. What a client may send is `Command`,
with numbers of four bytes and vectors of any bytes, and `Garbage`, which neither is nor begins a
command; `Encode` puts a command into bytes, `Stream` a list of them.

### XvcShift

One iteration of the loop is `ShiftBit`. A byte is a function from bit numbers to
bits of width `ByteBits`, and the JTAG chain answers any bit.

### EmacTx, EmacRx

State: the rings with the hardware's bits, the DMA's position, the callbacks, the
notification of each task. `emac_dev_write` is four actions, since a second task may
preempt it between any two accesses; one iteration of the loop of `emac_dev_read` is
an action; the interrupt handler is one action. The DMA is external: `Transmit`,
`Halt`, `FrameBegins`, `PieceArrives`, `NoBuffer`. The ring's arithmetic keeps C's
truncating remainder of negative numbers. `overlap` and `cut` are histories: two tasks
have been inside `emac_dev_write` at once; the ring has overflowed in a frame.

### FpgaAccess

A TWI transaction is entered (`Enter`) and ends in a later step. When it was alone on the bus it ends in one
of five ways: done and reported as done; not done, or read with a stale byte, and reported as done (`Success`;
`deceived[t]` remembers it until the end of the request); done or not done, and reported as failed (`Failure`). Nothing
keeps a second task out of the driver: when two transactions overlap (`bus` is `"mixed"`), the FPGA may make
any message of them, and each task gets any status and any data (`Garbled`, `Mixture`). The FPGA keeps the address
(`opb`) and the result (`latch`) between transactions, and its registers may change on
their own. `Dispatch`, `WriteFailed`, `ReadFailed` and `Reply` are the control flow of
`udp_server_callback`; `WriteAddress`, `WriteData`, `ReadAddress`, `ReadCommand` and
`ReadData` are the ends of the transactions of `fpga_twi.c`. The data fields are pairs of words,
and 16 bit accesses take and fill the half that the code takes and fills. `crossed[t]`
is a history: a transaction of another task has overlapped one of `t`, or has put its address, or fetched its
result, between two of them. `Supported` in `RegisterService` is the table of access types in the repository's `README.md`.

### TwiMaster

State: the registers of the peripheral (`thr`, `rhr`, the flags NACK and TXCOMP, the
interrupt mask), the PDC's counters, the task's locals and its notification. `CallWrite`
and `CallRead` are the code before the loops; `WriteDma`, `WriteByte`, `WriteReady`, `WriteStop`,
`WriteComp` and `ReadDma`, `ReadStop`, `ReadLast`, `ReadComp` are one turn of one loop each; a
status read is a step of its own and clears NACK. `Wait`, `EnableInterrupt`, `Notified` and
`TimesOut`/`Timeout` are `twi_wait_for_interrupt`; `Handler` is the interrupt, which disables
the interrupts and so reads the status as well. `Reset` is `fpga_twi_reset` after an error.
The chip refuses its address or a byte when it likes and may stop for ever.

### TcpipThread

State: the tick count with its width, the list of timeouts with relative times, the
flag of the TCP timer, whether there are pcbs, the mailbox, the callers' semaphores and
program points, the thread's. `Call`, `SysMboxPost`, `SysArchSemWait` are `tcpip_apimsg`;
`StartWait`, `Receive`, `TimedOut`, `Overdue`, `Nearer`, `PopTimeout` are
`sys_timeouts_mbox_fetch` with `sys_arch_mbox_fetch`; `Serve` is the message, completed at once
or later by the stack (`EthComplete`); `PeriodicTimer`, `TcpTmr`, `TcpTimerAgain`,
`TcpTimerNotNeeded`, `TcpTimerOff` are the handlers. `EthReg`, `EthArm` and `EthRemove` are what ETHINT does
to the pcbs, and through `TCP_REG` to the timer, between any two steps of the thread.
`left`, `lag` and `rough` are histories that say when a timer should be served.

The list of timeouts has no lock. ETHINT and the thread have the same priority and share the processor tick by tick, so that
the statements of `sys_timeout` in the one may lie between those of `sys_timeout`, or of the two that take the head
off the list (`lwip_timers_140.c:439-440`), in the other. ETHINT's operation is therefore two steps, from the test of
`tcpip_tcp_timer_active` (`EthReg`) to the end of `sys_timeout` (`EthArm`), and any operation of the thread between them is a
`clash`: whichever statements of two operations are interleaved, the two overlap, and each overlap is such a behaviour. An
operation that nothing disturbs does what `TimeoutOps` says. After a clash an entry, or the time of one, may be lost; the
model then knows nothing of the list, the thread serves any timer or none (`Astray`), and time is not followed any
further. What is said of the timers and of progress is said up to a clash.

### TelnetSession

State: the link, the connection's mailbox, `refused_data` (`held`) and `last_err`, the line buffer, its position,
`lptr`, the packet in hand. `Deliver`, `Finish`, `DeliverFin`, `Reset` are lwIP's callbacks `recv_tcp` and
`err_tcp` for a segment of data, a FIN, both in one segment, and a RST. A full mailbox refuses them all; TCP keeps data and presents it
again (`Redeliver`, `tcp_fasttmr`), but not the NULL of a FIN (`tcp_in.c:376-385`). `RecvLook`, `RecvClosed`, `RecvData`, `Retry` are the
receive loop with `netconn_recv`; `Process` is one turn of the character loop and `Execute` the `d` command. Characters are
`"d"`, which begins a command and is a hexadecimal digit as well, the digit `"1"`, a space, `"x"` for all the rest, and a newline.
A word is the function of its `WORD_DIGITS` hexadecimal digits (8 in the code); `Number` is `linebuf_set_u32`, which shifts every digit that
follows into the word, so that the last `WORD_DIGITS` are left of it. `Unset` is the uninitialised `lptr`, `Lost` a number for which the parser
leaves the buffer. `sent` and `taken` are histories of the packets that the session has taken, `done` of
the commands that it has executed; `unseen` says that the connection has ended and the task will not be told.

### SetupFlash

State: three fields of the sector, each the set of its bits that are 1; the chip's latch
and job; the firmware's job, its status and program point. `CommandErase` and `CommandSet` are the
serial commands; `WriteEnable`, `Operation`, `WriteDisable` and `Ready`/`GiveUp` are the four calls
that each job makes. `ChipDone` and `PowerLoss` are external: programming clears bits,
an unfinished job leaves any part of its effect. `Boot` is what `main.c` makes of the sector.
`stored` and `plan` are histories of what was reported and waited for.

## 3. Runs

| run | bounds | shows |
|---|---|---|
| `XvcServer` | equal priorities and the shipped 5, 3, 0; vectors of up to 2 bits | the inductive invariant (exclusion, ownership of the port, settled states) in every interleaving; refinement of `JtagPort`; a shift is never interrupted and the Telnet report is true with the shipped order; configurations end, a disable request is honoured, a cable gets the port |
| `XvcProtocol` | lists of two commands, two connections, chains of up to three pbufs, a buffer for vectors of 4 bytes | commands in order, complete; the server stops only for a cause; the buffer fits; every turn of the loop lowers the variant `Work`, so `handle_receive` returns |
| `XvcShift` | bytes of 2 bits, up to 6 bits | bits in order, TDO in place |
| `EmacTx` | two tasks, ring of 3, 4 frames | while the tasks do not meet in `emac_dev_write`: the ring holds what was written, in order; all is transmitted; every call returns |
| `EmacTxDropped` | one task | violated, see 6 |
| `EmacRx` | ring of 4, frames of up to 5 buffers, `pc_buf` of 2, 3 frames | whole frames in order, no buffer leaks, no arrival is missed, recovery from overflow and from frames that are too long or fill the ring |
| `FpgaAccess` | one register of two words, words of one bit, every type of request in both versions from UDP, writes of the second word with readback from Telnet | writes go where asked and the UDP server implements `RegisterService`, except for requests that were crossed or deceived and for type 3 in version 1 |
| `TwiMaster` | packets of up to 3 bytes | what a read that succeeds returns, and a write that the chip did not refuse has sent, is the packet; the peripheral rests between calls; every call returns |
| `TwiMasterNack` | the same | violated, see 6 |
| `TcpipThread` | two callers, two periodic timers and the TCP timer, tick count of 4 values, mailbox of 1 | no message outlives its caller; until the thread and ETHINT meet in the list no timer is lost, doubled, early or later than the ticks that the list cannot count, calls return, timers go on |
| `TelnetSession` | 4 packets out of 7, line buffer of 5, words of 2 digits, mailbox of 2 | commands are the lines, however they are cut; dumps are where the lines say or follow each other; the session ends, unless the task is not told |
| `SetupFlash` | fields of 2 bits | the stored set-up survives errors and power losses; firmware and chip stay in step; commands end |

**Why the bounds suffice.** The XVC state machine is finite apart from the length of
a vector; two bits are enough for a shift to be interrupted at every point of a TCK
cycle, between two cycles and at the end. Command lists of two let every
command follow every other, and the lists contain vectors that end inside and at the
end of a byte, the longest, a too long and an empty one, and bytes that look like a
command. Bytes of 2 bits and 6 bits give vectors of one to three bytes, full and
partly filled. A transmit ring of 3 with 4 frames is full and wraps around, with either
task the one that waits; a receive ring of 4 with 3 frames of up to 5 buffers overflows
before, inside and after a frame, is filled by one frame, and wraps around; `pc_buf` of 2
makes frames both fit and not fit. One register of two words tells the right word from
the wrong one and a wide access from a narrow one. A TWI packet of 1 is transferred without
the PDC; of 3, the PDC moves up to three bytes (all but the last of a read), so that a timeout may find it with and
without progress. Three timers, of
intervals 1, 2 and 2, are due alone and together, and the TCP timer, which is the shortest as in the firmware, is put before and behind the others; tick counts 0 to 3 wrap around within one
or two intervals, and the start of the count is arbitrary; one message fills the mailbox, so that callers wait for room. A line buffer of 5 has lines that are
shorter, equal and longer, also of digits or spaces only; with words of two digits numbers lose their front and `lptr`
wraps around; four packets are more than the mailbox and `refused_data` hold. Fields of two bits can be
ANDed to a third content, which is neither the old nor the new one.

`CHECK_DEADLOCK FALSE` is used where the environment is bounded (no more frames, no
more connections) and for the loop that ends with its vector.

**Fairness.**

- `XvcServer`: weak fairness for the XVC task, the highest of the three, once it runs; strong
  fairness for the Telnet and LED tasks, since the tasks above them block in lwIP between
  two commands of a client, so they get the CPU again and again but not continuously;
  weak fairness for the LED task's delay. Nothing is assumed of clients, cables or users.
- `XvcProtocol`, `XvcShift`, `FpgaAccess`: none; termination of `handle_receive` is a variant.
- `EmacTx`, `EmacRx`: the DMA and the interrupt are not held up for ever, and a task waits for
  100 ticks at most; ETHINT has the highest priority. No frame has to arrive.
- `TwiMaster`: the task in the driver goes on, and every wait of it is bounded by ticks. Nothing
  is assumed of the bus, the PDC or the interrupt.
- `TcpipThread`: the thread and ETHINT have the highest priority and go on when they can; strong fairness
  for ticks while the thread waits (the callers cannot keep it busy at every tick); a caller goes on when it can, and one that
  waits for room in the mailbox is woken again and again when there is some; an operation
  that the stack has to finish is finished, since the peer acknowledges or TCP gives up after its last
  retransmission and reports an error (strong fairness: ETHINT may be busy with another segment in between).
- `TelnetSession`: the task goes on, and TCP's fast timer presents refused data again while the mailbox has room. The peer
  need not do anything.
- `SetupFlash`: the task goes on. The user and the chip need not.

## 4. Proofs

`XvcServerProofs` proves, for every set of assignments of priorities and every `MaxBits`:

- `IndInvIsInvariant` and its consequences `TypeCorrect`, `ConfigurationIsExclusive`, `ShiftHasPort`,
  `SettledStatesFixPort`;
- `TasksImplementPort`: the tasks implement `JtagPort`;
- `ShippedShiftUninterrupted`, `ShippedReportTrue`: the two invariants that need the
  order of the shipped priorities (XVC above Telnet above LED). The order is a
  hypothesis inside the invariants, `ShippedOrder`, and all that they assume of the numbers.

The argument rests on `IndInv`. That two tasks never configure at the same time is not
inductive: it holds because whoever configures has put a transition state into
`state`, which `ConfigBegin` and `ShiftBegin` refuse. `ConfigPhase(t)` therefore states for every
program point which state the task has put there, what it knows about the pins and
JTAGSEL, and which of its API calls it is in. The theorems about priorities need
`OrderInv`: while the XVC task is inside an API function or a shift, no lower
task makes a step.

About `XvcShift` it proves for vectors of any length and bytes of any width:
`ShiftSendsVectors` and `ShiftReturnsTdo`. `LoopInv` ties the byte and bit indices to the number
of bits done, says that the prefetched bytes are the client's although their place in the
buffer has been cleared, and splits the buffer into the part that holds TDO and the part
that still holds TDI. The lemmas `LaterByte` and `PlaceUnique` supply the
arithmetic (two places in the vector are equal only if byte and bit are).

`XvcProtocolProofs` proves for lists of any length, any numbers and vectors, chains of any length and every cut:

- `TypeCorrect`: the buffer of the connection is never filled beyond its size;
- `InOrderAlways`: what was executed is the beginning of the client's list, with every argument intact;
- `AnsweredAlways`: when all bytes have been received and handled, all commands have been answered;
- `StopsForCauseAlways`: a connection is given up, or the task hangs, only for the causes that `StopsForCause` names;
- `LoopConsumesAlways`: every step of the loop lowers the variant, so `handle_receive` returns.

The invariant `IInv` has as its main part `Position`: what is in the buffer followed by what is left of the chain is exactly the
part of the stream between the bytes that are used up and those still to come. `Start` says where a
command begins in the stream, and `Layout` where its string, its numbers and its vectors are. `Reading` adds what the
connection state knows of the command in work: which one it is, how long the vectors are, that less is buffered than is
needed. The bytes that a reader takes are then those of the current command, so that the value it gets is the
argument that the client sent (`Uint32Value` is the inverse of `Uint32`), and a string that is not recognised is not the
beginning of any. Each reader has a lemma of its own (`PullIs`, `FinishIs`, `ReadBytesIs`) which says what it moves
from the chain to the buffer, and each action a lemma that it keeps `IInv`. Since lists and chains are flattened by the recursive `FlattenSeq`, its
properties (the length, the first element split off, one more element) come first.

`FpgaAccessProofs` proves for any number of registers, any values and any requests:

- `AccessTypeCorrect`;
- `WritesGoWhereAsked`: the step that writes changes only the words that its request names, whichever errors the driver
  reports, unless the request was crossed or the driver has reported a success that was none;
- `ServerImplementsService`: every step of the UDP server and of a Telnet session beside it is a
  step of `RegisterService` or changes nothing of it, unless the UDP request was crossed or deceived, or the step is the reply to
  access type 3 in version 1, which the repository's `README.md` does not allow.

The argument rests on `AccessInv`. That a write goes where it was asked to follows from what the FPGA has kept since
the transaction before, so `UserInv(t)` says for each program point of task `t`: the address in the FPGA is that of
its request unless it was crossed or deceived; the write has been done at most once, and unless deceived has been done when the status is still
good after it; only a refused request has the status `INVALID_CMD`. A task that does not step keeps
all this because a step of the other one that sets an address, or overlaps its transaction, also marks it as crossed (`BystanderInv`).
The refinement then needs one lemma for each action; most steps change only locals and the registers stay
as they are (`SameRegisters`).

`TcpipThreadProofs` proves for any callers, timers and sizes:

- `MessagesOutliveNoCaller`: `tcpip_apimsg` puts a message on its stack and passes its address on, so nobody may
  know it once the call has returned. `CallInv` is what makes this inductive: the message of a caller is in the
  mailbox, with the thread, with the stack or signalled, in exactly one of them and only while the caller waits, and no
  message is twice in the mailbox (otherwise the one that is taken out would leave a second one behind).
- `TimersAreKept`: until a clash no timer is lost or doubled and the pool does not run dry. `TimerInv` says that a timer is either in
  the list, once, or in the hands of the thread or of ETHINT, and the TCP timer only while it is marked active. The inductive invariant is
  `CalmInv`: types always, `TimerInv` while there was no clash. A list
  without a repeated timer has no more entries than there are timers, so `sys_timeout` always finds a free element.
- `TimersInTime`: until a clash no timer is early, and none later than the list can know, with the exceptions that `TimersOnTime` names. The list keeps the time of
  each entry relative to the one before, so what is due when is the sum `Due`; the lemmas on `SysTimeout` say that inserting an
  entry leaves the sums of all others as they were, wherever it is put. `TimeInv` compares, for every entry, its sum with
  the ticks that are really left: the difference is what the thread did not wait for, plus the time of the current wait, minus one
  tick for a wrap-around of the count (`Accounted`). Since no interval is longer than the count, a timer meets at
  most two wrap-arounds in its life, and a wait at most one (`Awaited`).
- `TimerStopsInOnePlace`: the only step that leaves pcbs without a running TCP timer is the last one of
  `tcpip_tcp_timer` (the observation in section 6), so that there is no second such window.

`TwiMasterProofs` proves for packets of any length `ReadsAreTrue`, `WritesAreTrue` and `DriverRests`. `TwiInv` follows a
byte through its places: what was sent, the shift register, THR and the part that the PDC or the loop has still to load add up
to the packet, at every program point and also in a wait, where `Here` is the loop that the wait belongs to (`WriteInv`); the same for the
bytes in the buffer and in RHR (`ReadInv`). `PhaseInv` says what the PDC and the driver's counters are
in each loop, `BusInv` what the peripheral does, `InterruptInv` that interrupts are enabled only for the task that waits. Only
all of them together are inductive: that a write has sent everything rests on TXCOMP being set only when nothing
is left in THR, which rests on the loop that has loaded it.

`EmacTxProofs` proves for rings of any size, any number of tasks and frames `RingHoldsWritten`. The ring is a circle, so
the invariant `TxInv` speaks of the distances from the tail (`Dist`): tail, DMA and the first free descriptor
(`FreeFrom`, which is one ahead of the head while a task has marked its descriptor and not yet moved the head) follow each
other in this order; from the DMA's position on the descriptors hold the frames that were written and not yet sent, in
order, and all others have their USED bit, at which the DMA stops; and while no two tasks have met, only one task is past the test for space. The handler
takes back descriptors up to the DMA's position and no further, which is what keeps it from passing by a frame
that has not left.

`EmacRxProofs` proves for rings, frames and buffers of any size `BuffersInOrder` and `FramesReachLwip`. `RxInv` says that
the buffers that software holds are the first `Held` ones from `us_rx_idx`, where a full and an empty ring are told
apart by the ownership bit, and that `emac_dev_read` has looked at a part of them only. `StreamInv` is about the content: the pieces in the
ring follow each other and continue what has been copied (`OrderInv`, `CopyInv`), the last one is followed by what the
DMA receives next, and the frames that were delivered, with those in the ring, are all that have arrived
completely and fit (`MatchInv`). It holds until a frame is cut by an overflow; `RxInv` holds beyond that, so
the theorem about the buffers needs no such condition.

`ConsoleProofs` proves for fields of any width and whatever is typed:

- `StoredSetupSurvives`: what was reported as written and waited for is in the flash and is used at the start;
- `FirmwareInStep`: the chip is idle when a command is sent and its latch is closed afterwards, up to
  the errors that the firmware has seen.

`FlashInv` has the part `Relied` (what is relied on is in the flash, and nothing is relied on that a job of the firmware or of
the chip is about to change) and the part `Planned`, which carries a job through its four calls: before the operation
the chip is idle, the field erased and the latch set; after it the chip works with the data that were
typed, or is done and has them. Without `Planned` a job that ends well would say nothing about the flash.

About `TelnetSession` the same module proves for line buffers and mailboxes of any size and any packets:

- `TelnetCommandsAreLines`: there is one command for each newline that was read, and the command of a line is
  its text, cut to the buffer;
- `TelnetDumpAddresses`: a dump is at what a word keeps of the digits in its line (the last `WORD_DIGITS` of them, letters included) or where the
  last dump ended, 16 further with the carry through all digits.

`TelnetInv` says that the packet in hand is the end of what was taken (`InPacket`), that the line buffer holds the beginning of the line
that has not ended yet (`Open`), with older characters behind it, and that `lptr` is where the last dump ended
(`Follows`). When a line ends, its terminator hides the older characters (`Text`, `Number`), unless the line fills
the buffer; `SkipIs`, `ShiftedIs`, `NumberIs` and `ParsedIs` say what the parser then finds. A character that is added changes neither the lines nor
the addresses before it (`LineKept`, `AddressKept`).

The strengthened invariants were checked by TLC on the instances of the runs before they were proved.

**Assumptions on constants.** The priorities are functions from the tasks to natural numbers; `MaxBits`,
`ByteBits`, `MaxLength` are positive. There is at least one register, 0 is a value, and the mark for "no request" is
neither a request nor data; the UDP server is one of the tasks; Telnet makes 16 bit accesses only, as
the `d` and `m` commands do. The timers that `sys_timeouts_init` starts are distinct,
their intervals are positive and, with `MaxLag`, do not exceed the largest tick count: `portMAX_DELAY` is 2^32 - 1 ticks of a
millisecond, the longest interval a minute. The pool has an element for every timer (`MEMP_NUM_SYS_TIMEOUT` is 6 for four
periodic timers and TCP's; with fewer `TimersKept` would be false). The mailbox has room for a message. The rings have more than one
descriptor (8 and 16 in `conf_eth.h`), a frame and `pc_buf` at least one buffer, a TWI packet at least a byte. The manufacturer's part of the MAC address and the serial numbers
are not the content of an erased field, since the firmware recognises an erased field by it. The buffer for vectors has at least
4 bytes (512 in the code), so that a number fits; only the last item of a client's list is no command, which
is no restriction, because what follows it on the connection is part of it. The line buffer has at least two characters (80 in the
code), a word at least one digit and a packet at least one character.

**Induction over numbers.** What is said of all positions of a list, a ring, a stream or a packet is proved by the least
number for which it would fail (`Least` in `TcpipThreadProofs` and `XvcProtocolProofs`, from the well-foundedness of the natural
numbers), since an induction principle with a predicate as parameter is not available to the provers.

**Only model-checked.** Every invariant and every action property that a passing run checks is also a theorem, and so are the two
refinements. Liveness (all `~>`, `<>[]` and `[]<>` properties) is outside of the prover's reach and is checked on
the instances only. The two runs that are violated have nothing to prove.

## 5. Not modelled

- **In the drivers.** The branch of `emac_handler` for excessive collisions (RLES, `emac.c:709`): it
  resets the ring under a task that may be filling it, and what the DMA does then is not
  determined by the source (the link is full duplex, so that it should not be taken). Two tasks inside
  `twi_master_*` at the same time, statement by statement: there is one task handle per bus, and `FpgaAccess` lets
  transactions that overlap have any outcome, so that nothing more is known of them. `twi_probe`, the slave mode and the speed of the TWI.
- **In the tasks.** Start-up (it runs once, without state of its own), also reads of the stored set-up that fail (`main.c:395` and `409`
  ignore the status and use what is in the buffer); the exit of
  `vXvcServer` after a fatal error of `netconn_accept`, the serial commands that print or make one call of the
  register functions.
- **In lwIP.** What becomes of the list of timeouts once two tasks have met in it (a lost timer, a lost time, a lost cell of the pool, or a
  NULL pointer), and of TCP's own data when ETHINT and the thread meet in it.
- **In lwIP's port.** Creating and deleting semaphores, mailboxes and threads.
- **Not in the build.** The HTTP server (`HTTP_USED` is 0) and most of the ASF.
- **Third-party code.** The greater part of the repository is vendored: FreeRTOS 10 (the kernel alone is
  8,000 lines and more, with the ports of processors that are not used), lwIP's protocols,
  CMSIS, register headers and the ASF drivers, most of which the firmware never calls. They are
  modelled only as far as the firmware's own behaviour rests on them (`tcpip.c`, the timers, `api_lib.c` and `api_msg.c`,
  the kernel's priorities, notifications and ticks). For this reason the definitions here stand for a small share of
  all lines of the repository, and a model of the rest would be a model of other projects.
  What is the firmware's own (the XVC server, the UDP and Telnet servers, the register
  accesses, the changed drivers, the stored set-up) is modelled, except for the points above.

## 6. Findings

1. `EmacTxDropped`: with a full ring `low_level_output` overwrites `EMAC_TX_BUSY` by the status of
   the callback's registration, drops the frame and returns `ERR_OK`.
2. `TwiMasterNack`: the interrupt handler's `twi_disable_interrupt` reads, and so clears, the status
   register; a NACK is lost, and a packet that the chip has refused is reported as written. The same
   happens to a NACK of the last byte, which nobody looks for after the STOP.

Observations that the models contain. The properties name them as exceptions (`overlap`, `cut`, `crossed`, `deceived`,
`UndocumentedReply`, `quiet`, `refused`, `clash`, `rough`, `unseen`, `pc = "hung"`). The checks and proofs show that the modelled behaviour keeps
the properties apart from these exceptions. They show nothing of what
happens once an exception has occurred, beyond what a property says of it, nor of anything that section 5 lists:

- *XVC.* A command string that is split between two pbufs of one chain makes `read_command` ask
  `pbuf_header` for more than the first pbuf holds (`xvc_server.c:713`); the assertion of `cc.h:104` then loops for
  ever (`pc = "hung"` in `StopsForCause`).
- *Two tasks run lwIP.* `netif_add` is given `ethernet_input` (`ethernet.c:151`), so that ETHINT runs the
  stack beside the TCP/IP thread. When both are inside `emac_dev_write`, a frame is overwritten and a gap may be left in the ring, at
  which the DMA stops (`overlap` in `EmacTx`). When ETHINT starts the TCP timer while the thread waits, the timer
  is served early, and the timers behind it are late by what was waited (`rough` in `TimersOnTime`). When it
  starts the timer while the thread changes the list, the list may lose an entry or the time of one (`clash`): if a tick falls between
  `tmptimeout = next_timeout` and `next_timeout = tmptimeout->next` (`lwip_timers_140.c:439-440`) and ETHINT puts the TCP timer in front there, the
  thread takes it off again; `tcpip_tcp_timer_active` stays 1, and no later `TCP_REG` starts the timer. When ETHINT
  registers a pcb after `tcpip_tcp_timer` has decided to stop, the TCP timer is off although there is a
  pcb (`TcpTimerRuns`).
- *EMAC.* `CIRC_SPACE` is negative for half of the positions of head and tail (`emac.c:761`), so the
  handler does not wake a task that waits for space, which goes on after its 100 ticks. After a frame was cut by
  an overflow, `emac_dev_read` copies the last discarded buffer in place of the first
  one of the new frame (`emac.c:418`; `cut` in `EmacRx`).
- *Register accesses* of UDP and Telnet are not kept apart (`fpga_twi.c:248`): an access of the one between two
  transactions of the other redirects it or changes its result, and one during a transaction of the other has any effect (`crossed`). By finding 2 a
  refused transaction may be reported as done (`deceived`): a write is then answered with status 0 although nothing
  was written, or goes to the address of an earlier access. Access type 3 is executed in protocol version 1 as well (`BasicUDP.c:144`) and
  answered with 0, where the repository's `README.md` (lines 120-124, 148-149) has -3 (`UndocumentedReply`).
- *TWI.* A PDC transfer that finishes right after a timeout with progress is reported as
  `TWI_ERROR_TIMEOUT`, because `rc` keeps its value (`twi.c:415`, `604`). A byte that is left in RHR shifts the result of
  the next read (`quiet` in `ReadIsTrue`).
- *Ticks.* The time waited is one tick short when the count has wrapped around
  (`sys_arch.c:190`, `378`), so that timers are one tick late then.
- *Telnet.* A RST that does not find the task waiting in `netconn_recv` leaves it repeating the call, and a FIN that comes when the
  mailbox is full is lost (`api_msg.c:251` returns `ERR_MEM`, which `tcp_in.c:382-385` ignores), so that the task waits in `netconn_recv` until a RST
  comes and nobody else can log in (`unseen` in `SessionEnds`). A line that fills the buffer loses its terminator; `d` without an
  address before the first one uses an uninitialised `lptr`; only the first pbuf of a packet is read.
- *Set-up.* `E` prints its two messages the wrong way round and never the status; `S` without a number writes an
  uninitialised address; `S` without an erase ANDs the old and the new content; nothing is waited for before
  `m25p_write_enable`.

## 7. Plan

1. Done: all modules of section 2, their runs, and the proofs of section 4.
2. Two tasks in the TWI driver, as an extension of `TwiMaster` by a second set of locals and the one
   task handle of the bus, to narrow what `FpgaAccess` allows for transactions that overlap.
3. The branch of `emac_handler` that resets the ring, once it is known what the DMA does then.
4. The list of timeouts cell by cell, with every statement of the two tasks a step, to say what a clash can lose.
