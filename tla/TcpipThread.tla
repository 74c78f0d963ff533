----------------------------- MODULE TcpipThread -----------------------------
(***************************************************************************)
(* The TCP/IP thread of lwIP as this firmware runs it: tcpip_thread with   *)
(* its mailbox (tcpip.c), the list of timeouts that it serves while it     *)
(* waits (lwip_timers_140.c), the wait itself (sys_arch.c) and the tasks   *)
(* that call it through the netconn interface.                             *)
(*                                                                         *)
(* ethernet.c gives netif_add the function ethernet_input, so that the     *)
(* task ETHINT runs the stack too, without the mailbox.  What it touches   *)
(* here is the TCP timer: a segment that creates a connection registers a  *)
(* pcb, and TCP_REG starts the timer when it is not running.               *)
(*                                                                         *)
(* A message is the task that has sent it.  Time is counted in ticks of    *)
(* the kernel, one millisecond each.                                       *)
(*                                                                         *)
(* ETHINT and the thread have the same priority, share the processor tick  *)
(* by tick and change the list of timeouts without a lock.  ETHINT's       *)
(* operation is two steps here, and an operation of the thread one: that   *)
(* may lie between ETHINT's two, and stands for every way in which the two *)
(* can overlap, at any statement.  Such a clash is recorded.  Until then   *)
(* an operation is not disturbed and does to the list what TimeoutOps      *)
(* says; from then on nothing is known of the list, and the thread serves  *)
(* any timer at any time or none.                                          *)
(***************************************************************************)
EXTENDS TimeoutOps, SequencesExt

CONSTANTS
  Callers,    \* the tasks that use the netconn interface
  MBOX_SIZE,  \* TCPIP_MBOX_SIZE
  MAX_DELAY,  \* portMAX_DELAY, the largest tick count
  MaxLag      \* bound on the ticks that pass while the thread does not wait

ASSUME TickAssumption ==
  /\ MAX_DELAY \in Nat /\ MAX_DELAY > 1
  /\ \A t \in Timers : Interval[t] + MaxLag <= MAX_DELAY
  /\ MBOX_SIZE \in Nat \ {0} /\ MaxLag \in Nat

NoOne == "none"   \* the thread has neither a message nor a timer in hand

VARIABLES
  tick,       \* xTickCount
  next,       \* the list next_timeout: each time counts from the one before
  active,     \* tcpip_tcp_timer_active
  pcbs,       \* there are active or time-wait pcbs
  mbox,       \* the mailbox of the thread
  op,         \* op_completed of each caller's netconn
  cpc,        \* program point of each caller: "idle", "post", "wait"
  pending,    \* callers whose operation is done later, by the stack
  tpc,        \* program point of the thread
  hand,       \* the message or the timer that the thread works on
  timeout,    \* the time that sys_arch_mbox_fetch was given, 0 for ever
  tickStart,  \* TickStart of sys_arch_mbox_fetch
  waited,     \* history: ticks since TickStart
  left,       \* history: ticks until a timer is due, negative when it is late
  lag,        \* history: ticks of a timer's life that the list may not count
  rough,      \* history: timers in the list when ETHINT changed it in a wait
  epc,        \* program point of ETHINT: "idle", or "arm" in tcp_timer_needed
  clash       \* history: the thread and ETHINT have met in the list

threadVars == <<tpc, hand, timeout, tickStart, waited>>
listVars   == <<next, left, lag, rough, clash>>
timerVars  == <<listVars, active, pcbs, epc>>
callVars   == <<mbox, op, cpc, pending>>
vars == <<tick, threadVars, timerVars, callVars>>

-----------------------------------------------------------------------------
(* The list of timeouts. *)

InList(t) == \E i \in 1 .. Len(next) : next[i].timer = t

\* The thread works on the list: ETHINT may be there too.
Meets == clash' = (clash \/ epc = "arm")

\* What becomes of the list and of the histories, until a clash.
Follow(l, ls, lg, rg) ==
  /\ next' = IF clash' THEN <<>> ELSE l
  /\ left' = IF clash' THEN [t \in Timers |-> 0] ELSE ls
  /\ lag' = IF clash' THEN [t \in Timers |-> 0] ELSE lg
  /\ rough' = IF clash' THEN {} ELSE rg

\* sys_timeout for timer t
Arm(t, rg) ==
  Follow(SysTimeout(next, t), [left EXCEPT ![t] = Interval[t]], [lag EXCEPT ![t] = 0], rg)

-----------------------------------------------------------------------------
Init ==
  /\ tick \in 0 .. MAX_DELAY
  /\ next = InitialList
  /\ active = FALSE /\ pcbs = FALSE
  /\ mbox = <<>>
  /\ op = [c \in Callers |-> 0]
  /\ cpc = [c \in Callers |-> "idle"]
  /\ pending = {}
  /\ tpc = "fetch" /\ hand = NoOne
  /\ timeout = 0 /\ tickStart = 0 /\ waited = 0
  /\ left = [t \in Timers |-> IF t = Tcp THEN 0 ELSE Interval[t]]
  /\ lag = [t \in Timers |-> 0]
  /\ rough = {}
  /\ epc = "idle" /\ clash = FALSE

-----------------------------------------------------------------------------
(* The callers. *)

\* netconn_*: tcpip_apimsg is called
Call(c) ==
  /\ cpc[c] = "idle"
  /\ cpc' = [cpc EXCEPT ![c] = "post"]
  /\ UNCHANGED <<tick, threadVars, timerVars, mbox, op, pending>>

\* sys_mbox_post: repeated until there is room
SysMboxPost(c) ==
  /\ cpc[c] = "post"
  /\ Len(mbox) < MBOX_SIZE
  /\ mbox' = Append(mbox, c)
  /\ cpc' = [cpc EXCEPT ![c] = "wait"]
  /\ UNCHANGED <<tick, threadVars, timerVars, op, pending>>

\* sys_arch_sem_wait with no limit of time, and the return to the caller
SysArchSemWait(c) ==
  /\ cpc[c] = "wait" /\ op[c] = 1
  /\ op' = [op EXCEPT ![c] = 0]
  /\ cpc' = [cpc EXCEPT ![c] = "idle"]
  /\ UNCHANGED <<tick, threadVars, timerVars, mbox, pending>>

-----------------------------------------------------------------------------
(* The thread. *)

\* sys_timeouts_mbox_fetch calls sys_arch_mbox_fetch
StartWait ==
  /\ tpc = "fetch"
  /\ next # <<>> => next[1].time > 0
  /\ Meets /\ Follow(next, left, lag, rough)
  /\ timeout' = IF next' = <<>> THEN 0 ELSE next'[1].time
  /\ tickStart' = tick /\ waited' = 0
  /\ tpc' = "waiting"
  /\ UNCHANGED <<tick, hand, active, pcbs, epc, callVars>>

\* The first entry leaves the list, whichever it is now, and is served.
PopTimeout ==
  /\ next # <<>>
  /\ hand' = next[1].timer
  /\ Meets
  /\ Follow(Tail(next), [left EXCEPT ![hand'] = 0], [lag EXCEPT ![hand'] = 0],
            rough \ {hand'})
  /\ tpc' = "handler"
  /\ timeout' = 0 /\ tickStart' = 0 /\ waited' = 0
  /\ UNCHANGED <<tick, active, pcbs, epc, callVars>>

\* The entry was due when the thread looked.
Overdue == tpc = "fetch" /\ next # <<>> /\ next[1].time = 0 /\ PopTimeout

\* The wait ends with SYS_ARCH_TIMEOUT: the mailbox was empty all the time.
TimedOut ==
  /\ tpc = "waiting" /\ timeout > 0 /\ waited >= timeout
  /\ mbox = <<>>
  /\ PopTimeout

\* After a clash the thread may find any entry at the head of the list.
Astray ==
  /\ clash /\ tpc \in {"fetch", "waiting"}
  /\ hand' \in Timers
  /\ tpc' = "handler"
  /\ timeout' = 0 /\ tickStart' = 0 /\ waited' = 0
  /\ UNCHANGED <<tick, timerVars, callVars>>

\* The result of sys_arch_mbox_fetch when a message came.
TickElapsed ==
  IF tick >= tickStart THEN tick - tickStart ELSE MAX_DELAY - tickStart + tick

\* The wait ends with a message.
Receive ==
  /\ tpc = "waiting" /\ mbox # <<>>
  /\ hand' = Head(mbox)
  /\ mbox' = Tail(mbox)
  /\ IF timeout = 0 THEN UNCHANGED listVars
     ELSE Meets /\ Follow(Nearer(next, TickElapsed), left, lag, rough)
  /\ tpc' = "serve"
  /\ timeout' = 0 /\ tickStart' = 0 /\ waited' = 0
  /\ UNCHANGED <<tick, active, pcbs, epc, op, cpc, pending>>

\* tcp_timer_needed, called by TCP_REG after the pcb is in its list
TcpTimerNeeded ==
  /\ Meets
  /\ IF active THEN Follow(next, left, lag, rough) ELSE Arm(Tcp, rough)
  /\ active' = TRUE

\* Mutant: the operation is left to the stack and op_completed is signalled.
ServeAcksEarly ==
  /\ tpc = "serve"
  /\ op' = [op EXCEPT ![hand] = 1]
  /\ pending' \in {pending, pending \cup {hand}}
  /\ tpc' = "fetch" /\ hand' = NoOne
  /\ UNCHANGED <<tick, timeout, tickStart, waited, timerVars, mbox, cpc>>

\* Mutant: an operation that fails does not signal op_completed.
ServeForgets ==
  /\ tpc = "serve"
  /\ op' \in {op, [op EXCEPT ![hand] = 1]}
  /\ tpc' = "fetch" /\ hand' = NoOne
  /\ UNCHANGED <<tick, timeout, tickStart, waited, timerVars, mbox, cpc, pending>>

\* The function of the message: it is done at once and signals op_completed,
\* or leaves the rest to the stack.  On its way it may register a pcb that
\* goes to time-wait, or remove the last one.
Serve ==
  /\ tpc = "serve"
  /\ \/ op' = [op EXCEPT ![hand] = 1] /\ UNCHANGED pending
     \/ pending' = pending \cup {hand} /\ UNCHANGED op
  /\ \/ pcbs' \in {pcbs, FALSE} /\ UNCHANGED <<listVars, active>>
     \/ pcbs /\ UNCHANGED pcbs /\ TcpTimerNeeded
  /\ tpc' = "fetch" /\ hand' = NoOne
  /\ UNCHANGED <<tick, timeout, tickStart, waited, epc, mbox, cpc>>

\* Mutant: the timer does not start itself again.
PeriodicTimerOnce ==
  /\ tpc = "handler" /\ hand \in Periodic
  /\ tpc' = "fetch" /\ hand' = NoOne
  /\ UNCHANGED <<tick, timeout, tickStart, waited, timerVars, callVars>>

\* A periodic timer: its function, which starts it again.
PeriodicTimer ==
  /\ tpc = "handler" /\ hand \in Periodic
  /\ Meets /\ Arm(hand, rough)
  /\ tpc' = "fetch" /\ hand' = NoOne
  /\ UNCHANGED <<tick, timeout, tickStart, waited, active, pcbs, epc, callVars>>

\* tcpip_tcp_timer: tcp_tmr, which may remove the last pcb and may finish
\* what a caller waits for
TcpTmr ==
  /\ tpc = "handler" /\ hand = Tcp
  /\ pcbs' \in {pcbs, FALSE}
  /\ \/ UNCHANGED <<op, pending>>
     \/ \E c \in pending : /\ pending' = pending \ {c}
                           /\ op' = [op EXCEPT ![c] = 1]
  /\ tpc' = "needed"
  /\ UNCHANGED <<tick, hand, timeout, tickStart, waited, listVars, active,
                 epc, mbox, cpc>>

\* tcpip_tcp_timer: is the timer still needed?
TcpTimerAgain ==
  /\ tpc = "needed" /\ pcbs
  /\ Meets /\ Arm(Tcp, rough)
  /\ tpc' = "fetch" /\ hand' = NoOne
  /\ UNCHANGED <<tick, timeout, tickStart, waited, active, pcbs, epc, callVars>>

TcpTimerNotNeeded ==
  /\ tpc = "needed" /\ ~pcbs
  /\ tpc' = "off"
  /\ UNCHANGED <<tick, hand, timeout, tickStart, waited, timerVars, callVars>>

TcpTimerOff ==
  /\ tpc = "off"
  /\ active' = FALSE
  /\ tpc' = "fetch" /\ hand' = NoOne
  /\ UNCHANGED <<tick, timeout, tickStart, waited, listVars, pcbs, epc, callVars>>

Thread ==
  \/ StartWait \/ Overdue \/ TimedOut \/ Astray \/ Receive \/ Serve
  \/ PeriodicTimer \/ TcpTmr \/ TcpTimerAgain \/ TcpTimerNotNeeded \/ TcpTimerOff

-----------------------------------------------------------------------------
(* ETHINT runs the stack on a segment that came in. *)

\* Mutant: the timer is started without a look at the mark.
EthRegAlways ==
  /\ epc = "idle"
  /\ pcbs' = TRUE
  /\ active' = TRUE /\ epc' = "arm"
  /\ UNCHANGED <<tick, threadVars, listVars, callVars>>

\* Mutant: the timer is started and not marked.
EthRegUnmarked ==
  /\ epc = "idle"
  /\ pcbs' = TRUE
  /\ epc' = IF active THEN "idle" ELSE "arm"
  /\ UNCHANGED <<tick, threadVars, listVars, active, callVars>>

\* TCP_REG in tcp_listen_input or tcp_process: the pcb is in its list, and
\* tcp_timer_needed has tested and set the mark
EthReg ==
  /\ epc = "idle"
  /\ pcbs' = TRUE
  /\ active' = TRUE
  /\ epc' = IF active THEN "idle" ELSE "arm"
  /\ UNCHANGED <<tick, threadVars, listVars, callVars>>

\* tcp_timer_needed: sys_timeout
EthArm ==
  /\ epc = "arm" /\ epc' = "idle"
  /\ UNCHANGED clash
  /\ Arm(Tcp, IF tpc = "waiting" THEN {t \in Timers : InList(t)} \cup {Tcp} ELSE rough)
  /\ UNCHANGED <<tick, threadVars, active, pcbs, callVars>>

\* The last pcb goes.
EthRemove ==
  /\ epc = "idle"
  /\ pcbs /\ pcbs' = FALSE
  /\ UNCHANGED <<tick, threadVars, listVars, active, epc, callVars>>

\* An acknowledgement finishes what a caller waits for.
EthComplete(c) ==
  /\ epc = "idle"
  /\ c \in pending
  /\ pending' = pending \ {c}
  /\ op' = [op EXCEPT ![c] = 1]
  /\ UNCHANGED <<tick, threadVars, timerVars, mbox, cpc>>

-----------------------------------------------------------------------------
(* A tick of the kernel. *)

\* A running timer comes nearer.  The histories stop at a value beyond what
\* any property tells apart.
LateBound == -(MaxLag + 4)

\* The tick is one that the thread cannot count: it does not wait, its time
\* is over, or the count wraps around.
Uncounted ==
  \/ tpc # "waiting"
  \/ timeout > 0 /\ waited >= timeout
  \/ tick = MAX_DELAY

\* Time is not followed any further than to a clash.
Tick ==
  /\ ~clash
  /\ tpc # "waiting" \/ (timeout > 0 /\ waited >= timeout)
        => \A t \in Timers : lag[t] < MaxLag
  /\ tick' = (tick + 1) % (MAX_DELAY + 1)
  /\ waited' = IF tpc = "waiting" /\ waited < MAX_DELAY THEN waited + 1 ELSE waited
  /\ left' = [t \in Timers |->
                IF InList(t) /\ left[t] > LateBound THEN left[t] - 1 ELSE left[t]]
  /\ lag' = [t \in Timers |->
                IF InList(t) /\ Uncounted /\ lag[t] < -LateBound
                THEN lag[t] + 1 ELSE lag[t]]
  /\ UNCHANGED <<tpc, hand, timeout, tickStart, next, rough, clash, active, pcbs, epc,
                 callVars>>

-----------------------------------------------------------------------------
Next ==
  \/ \E c \in Callers : Call(c) \/ SysMboxPost(c) \/ SysArchSemWait(c) \/ EthComplete(c)
  \/ Thread
  \/ EthReg \/ EthArm \/ EthRemove
  \/ Tick

\* The thread and ETHINT have the highest priority.  A caller that may go on
\* does so; one that waits for room in the mailbox is woken when there is
\* some.  The peer acknowledges what a caller waits for, again when ETHINT
\* was busy with another segment.  Ticks come while the thread waits: the
\* callers do not keep it busy at every one.
Fairness ==
  /\ WF_vars(Thread)
  /\ WF_vars(EthArm)
  /\ SF_vars(Tick /\ tpc = "waiting")
  /\ \A c \in Callers : /\ SF_vars(SysMboxPost(c))
                        /\ WF_vars(SysArchSemWait(c))
                        /\ SF_vars(EthComplete(c))

Spec == Init /\ [][Next]_vars /\ Fairness
-----------------------------------------------------------------------------
(* Properties. *)

ListType ==
  next \in Seq([timer : Timers, time : Nat]) /\ Len(next) <= POOL_SIZE

TimerType ==
  /\ active \in BOOLEAN /\ pcbs \in BOOLEAN
  /\ left \in [Timers -> Int] /\ lag \in [Timers -> Nat]
  /\ rough \subseteq Timers
  /\ epc \in {"idle", "arm"} /\ clash \in BOOLEAN

CallerType ==
  /\ mbox \in Seq(Callers) /\ Len(mbox) <= MBOX_SIZE
  /\ op \in [Callers -> {0, 1}]
  /\ cpc \in [Callers -> {"idle", "post", "wait"}]
  /\ pending \subseteq Callers

ThreadType ==
  /\ tick \in 0 .. MAX_DELAY
  /\ tpc \in {"fetch", "waiting", "serve", "handler", "needed", "off"}
  /\ hand \in Callers \cup Timers \cup {NoOne}
  /\ timeout \in Nat /\ tickStart \in 0 .. MAX_DELAY /\ waited \in 0 .. MAX_DELAY

TypeOK == ListType /\ TimerType /\ CallerType /\ ThreadType

\* tcpip_apimsg puts the message on the stack of the caller.  A message that
\* the mailbox, the thread or the stack still refers to belongs to a caller
\* that has not returned, and nobody refers to it twice.
MessageAlive ==
  /\ \A c \in Callers :
       LET refs == Cardinality({i \in 1 .. Len(mbox) : mbox[i] = c})
                   + (IF tpc = "serve" /\ hand = c THEN 1 ELSE 0)
                   + (IF c \in pending THEN 1 ELSE 0)
                   + op[c]
       IN refs = (IF cpc[c] = "wait" THEN 1 ELSE 0)

\* Until the thread and ETHINT meet in the list, the timers that the stack
\* needs are never lost: a periodic timer is in the list or is being served,
\* and so is the TCP timer while it is marked active, or ETHINT is about to
\* start it; each is there once, so that the pool is large enough.
TimersKept ==
  /\ TypeOK
  /\ ~clash => \A t \in Timers :
       Cardinality({i \in 1 .. Len(next) : next[i].timer = t})
         + (IF tpc \in {"handler", "needed", "off"} /\ hand = t THEN 1 ELSE 0)
         + (IF epc = "arm" /\ t = Tcp THEN 1 ELSE 0)
       = (IF t \in Periodic \/ active THEN 1 ELSE 0)

\* The thread serves timer t in this step.
Served(t) == tpc # "handler" /\ tpc' = "handler" /\ hand' = t

\* sys_timeout promises to call the handler when the time has elapsed.
\* Until the thread and ETHINT meet in the list, and wherever else ETHINT
\* changes it, a periodic timer is not served early, and the TCP timer only
\* when ETHINT started it while the thread waited.  A timer is late only by
\* the ticks that the thread did not wait for and, once for every wrap-around
\* of the tick count, by one more: the list loses no other time, however the
\* waits are cut by messages.
TimersOnTime ==
  [][\A t \in Timers : Served(t) /\ ~clash' =>
       /\ ~(t = Tcp /\ t \in rough) => left[t] <= 0
       /\ t \notin rough => -left[t] <= lag[t]]_vars

\* The TCP timer is marked active whenever there are pcbs, except for a pcb
\* that ETHINT registers after tcpip_tcp_timer has decided to stop: in the
\* steps from then on the timer is off although it is needed.  A clash does
\* not change this: the mark is not in the list.
TcpTimerRuns ==
  [][pcbs' /\ ~active' => (pcbs /\ ~active) \/ (tpc = "off" /\ pcbs)]_vars

\* A call of the netconn interface comes back, unless the thread and ETHINT
\* meet in the list.
CallReturns == \A c \in Callers : cpc[c] = "post" ~> cpc[c] = "idle" \/ clash

\* The periodic timers are served again and again, however often ETHINT
\* starts the TCP timer and whatever the callers send, unless the thread and
\* ETHINT meet in the list.
PeriodicServed ==
  \A t \in Periodic : []<>(clash \/ (tpc = "handler" /\ hand = t))

=============================================================================
