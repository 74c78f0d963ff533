----------------------------- MODULE TimeoutOps -----------------------------
(***************************************************************************)
(* What the operations of lwip_timers_140.c do to the list of timeouts     *)
(* when they run undisturbed.  The list is a sequence of entries; the time *)
(* of each counts from the one before.                                     *)
(***************************************************************************)
EXTENDS Integers, Sequences, FiniteSets, Functions

CONSTANTS
  Order,      \* the timers that sys_timeouts_init starts, in its order
  Tcp,        \* the timer tcpip_tcp_timer
  Interval,   \* the interval of every timer
  POOL_SIZE   \* MEMP_NUM_SYS_TIMEOUT

Periodic == Range(Order)

Timers == Periodic \cup {Tcp}

ASSUME TimerAssumption ==
  /\ Order \in Seq(Periodic) /\ Tcp \notin Periodic
  /\ \A i, j \in 1 .. Len(Order) : Order[i] = Order[j] => i = j
  /\ Interval \in [Timers -> Nat \ {0}]

\* The pool has an element for each timer: lwipopts.h sets 6, for four
\* periodic timers and the one of TCP.
ASSUME PoolAssumption == POOL_SIZE \in Nat /\ Len(Order) < POOL_SIZE

\* The time from the start of the list to the end of its k-th entry.
Due(l, k) ==
  LET sum[i \in 0 .. Len(l)] == IF i = 0 THEN 0 ELSE sum[i - 1] + l[i].time
  IN sum[k]

\* Mutant: the entry behind the new one keeps its time.
SysTimeoutKeepsNext(l, t) ==
  LET k == Cardinality({i \in 1 .. Len(l) : Due(l, i) <= Interval[t]})
  IN IF Len(l) >= POOL_SIZE THEN l
     ELSE SubSeq(l, 1, k) \o <<[timer |-> t, time |-> Interval[t] - Due(l, k)]>>
            \o SubSeq(l, k + 1, Len(l))

\* sys_timeout: the new entry comes behind all that are due no later than it.
\* Without a free element of the pool nothing happens.
SysTimeout(l, t) ==
  LET k     == Cardinality({i \in 1 .. Len(l) : Due(l, i) <= Interval[t]})
      delta == Interval[t] - Due(l, k)
      rest  == SubSeq(l, k + 1, Len(l))
      after == IF rest = <<>> THEN rest
               ELSE [rest EXCEPT ![1].time = @ - delta]
  IN IF Len(l) >= POOL_SIZE THEN l
     ELSE SubSeq(l, 1, k) \o <<[timer |-> t, time |-> delta]>> \o after

\* sys_timeouts_init
InitialList ==
  LET list[i \in 0 .. Len(Order)] ==
        IF i = 0 THEN <<>> ELSE SysTimeout(list[i - 1], Order[i])
  IN list[Len(Order)]

\* sys_timeouts_mbox_fetch after a message came: the first entry is taken
\* nearer by the time of the wait.
Nearer(l, elapsed) ==
  [l EXCEPT ![1].time = IF elapsed < @ THEN @ - elapsed ELSE 0]
=============================================================================
