-------------------------- MODULE TcpipThreadProofs --------------------------
(***************************************************************************)
(* Proofs about the TCP/IP thread, for any number of callers, any timers   *)
(* and intervals and any size of the mailbox: a message of the netconn     *)
(* interface, which is on the stack of its caller, is referred to exactly  *)
(* while the caller waits; no timer is lost or started twice; the TCP      *)
(* timer stops under a pcb in one place only; and a timer is served when   *)
(* its time has come.                                                      *)
(***************************************************************************)
EXTENDS TcpipThread, FiniteSetTheorems, SequenceTheorems,
        WellFoundedInduction, TLAPS

InMbox(c) == \E i \in 1 .. Len(mbox) : mbox[i] = c

InHand(c) == tpc = "serve" /\ hand = c

CallType ==
  /\ mbox \in Seq(Callers)
  /\ op \in [Callers -> {0, 1}]
  /\ cpc \in [Callers -> {"idle", "post", "wait"}]
  /\ pending \subseteq Callers
  /\ tpc = "serve" => hand \in Callers

(* The message of caller c is in one place, and only while c waits: in the *)
(* mailbox, with the thread, with the stack, or done and signalled.        *)
Placed(c) ==
  /\ cpc[c] = "wait" <=> (InMbox(c) \/ InHand(c) \/ c \in pending \/ op[c] = 1)
  /\ InMbox(c) => ~InHand(c) /\ c \notin pending /\ op[c] = 0
  /\ InHand(c) => c \notin pending /\ op[c] = 0
  /\ c \in pending => op[c] = 0

Distinct == \A i, j \in 1 .. Len(mbox) : mbox[i] = mbox[j] => i = j

CallInv == CallType /\ Distinct /\ \A c \in Callers : Placed(c)

-----------------------------------------------------------------------------
(* No message exists before the first call.                                *)
LEMMA InitCallInv == Init => CallInv
<1> SUFFICES ASSUME Init PROVE CallInv
  OBVIOUS
<1>1. CallType /\ Distinct
  BY DEF Init, CallType, Distinct
<1>2. ASSUME NEW c \in Callers PROVE Placed(c)
  BY DEF Init, Placed, InMbox, InHand
<1> QED
  BY <1>1, <1>2 DEF CallInv

(* Nothing changes as long as the calls and the message in hand do not.    *)
LEMMA CallInvKept ==
  ASSUME CallInv, UNCHANGED callVars,
         (tpc = "serve" \/ tpc' = "serve") => UNCHANGED <<tpc, hand>>
  PROVE  CallInv'
<1>1. CallType' /\ Distinct'
  BY DEF CallInv, CallType, Distinct, callVars
<1>2. ASSUME NEW c \in Callers PROVE Placed(c)'
  BY DEF CallInv, Placed, InMbox, InHand, callVars
<1> QED
  BY <1>1, <1>2 DEF CallInv

(* A caller of tcpip_apimsg has its message on its own stack, in no queue. *)
LEMMA CallPreserves ==
  ASSUME CallInv, NEW c \in Callers, Call(c) PROVE CallInv'
<1>1. UNCHANGED <<mbox, op, pending, tpc, hand>>
  BY DEF Call, threadVars
<1>2. cpc' = [cpc EXCEPT ![c] = "post"] /\ cpc[c] = "idle"
  BY DEF Call
<1>3. CallType' /\ Distinct'
  BY <1>1, <1>2 DEF CallInv, CallType, Distinct
<1>4. ASSUME NEW d \in Callers PROVE Placed(d)'
  BY <1>1, <1>2 DEF CallInv, CallType, Placed, InMbox, InHand
<1> QED
  BY <1>3, <1>4 DEF CallInv

(* sys_mbox_post puts a message into the mailbox that is nowhere else.     *)
LEMMA SysMboxPostPreserves ==
  ASSUME CallInv, NEW c \in Callers, SysMboxPost(c) PROVE CallInv'
<1>1. UNCHANGED <<op, pending, tpc, hand>> /\ mbox' = Append(mbox, c)
      /\ cpc' = [cpc EXCEPT ![c] = "wait"] /\ cpc[c] = "post"
  BY DEF SysMboxPost, threadVars
<1>2. /\ mbox' \in Seq(Callers) /\ Len(mbox') = Len(mbox) + 1 /\ Len(mbox) \in Nat
      /\ mbox'[Len(mbox) + 1] = c
      /\ \A i \in 1 .. Len(mbox) : mbox'[i] = mbox[i]
  BY <1>1 DEF CallInv, CallType
<1>3. ~InMbox(c)
  BY <1>1 DEF CallInv, Placed
<1>4. CallType'
  BY <1>1, <1>2 DEF CallInv, CallType
<1>5. Distinct'
  BY <1>2, <1>3 DEF CallInv, Distinct, InMbox
<1>6. \A d \in Callers : InMbox(d)' <=> InMbox(d) \/ d = c
  BY <1>2 DEF InMbox
<1>7. ASSUME NEW d \in Callers PROVE Placed(d)'
  BY <1>1, <1>6 DEF CallInv, CallType, Placed, InHand
<1> QED
  BY <1>4, <1>5, <1>7 DEF CallInv

(* A caller leaves only when its operation is signalled.                   *)
LEMMA SysArchSemWaitPreserves ==
  ASSUME CallInv, NEW c \in Callers, SysArchSemWait(c) PROVE CallInv'
<1>1. UNCHANGED <<mbox, pending, tpc, hand>>
      /\ op' = [op EXCEPT ![c] = 0] /\ op[c] = 1
      /\ cpc' = [cpc EXCEPT ![c] = "idle"]
  BY DEF SysArchSemWait, threadVars
<1>2. CallType' /\ Distinct'
  BY <1>1 DEF CallInv, CallType, Distinct
<1>3. ASSUME NEW d \in Callers PROVE Placed(d)'
  BY <1>1 DEF CallInv, CallType, Placed, InMbox, InHand
<1> QED
  BY <1>2, <1>3 DEF CallInv

(* The thread takes the first message out of the mailbox into its hand.    *)
LEMMA ReceivePreserves == ASSUME CallInv, Receive PROVE CallInv'
<1>1. /\ UNCHANGED <<op, cpc, pending>> /\ tpc = "waiting" /\ tpc' = "serve"
      /\ mbox # <<>> /\ hand' = Head(mbox) /\ mbox' = Tail(mbox)
  BY DEF Receive
<1>2. /\ mbox' \in Seq(Callers) /\ Len(mbox) \in Nat /\ Len(mbox) > 0
      /\ Len(mbox') = Len(mbox) - 1 /\ hand' = mbox[1] /\ mbox[1] \in Callers
      /\ \A i \in 1 .. Len(mbox) - 1 : mbox'[i] = mbox[i + 1]
  BY <1>1 DEF CallInv, CallType
<1>3. CallType'
  BY <1>1, <1>2 DEF CallInv, CallType
<1>4. Distinct'
  <2> SUFFICES ASSUME NEW i \in 1 .. Len(mbox) - 1, NEW j \in 1 .. Len(mbox) - 1,
                      mbox[i + 1] = mbox[j + 1]
               PROVE  i = j
    BY <1>2 DEF Distinct
  <2>1. i + 1 = j + 1
    BY <1>2 DEF CallInv, Distinct
  <2> QED
    BY <2>1, <1>2
<1>5. \A c \in Callers : InMbox(c)' <=> InMbox(c) /\ c # hand'
  <2> TAKE c \in Callers
  <2>1. ASSUME InMbox(c)' PROVE InMbox(c) /\ c # hand'
    <3>1. PICK i \in 1 .. Len(mbox) - 1 : mbox[i + 1] = c
      BY <2>1, <1>2 DEF InMbox
    <3>2. i + 1 \in 1 .. Len(mbox) /\ 1 \in 1 .. Len(mbox) /\ i + 1 # 1
      BY <1>2
    <3>3. mbox[i + 1] # mbox[1]
      BY <3>2 DEF CallInv, Distinct
    <3> QED
      BY <3>1, <3>2, <3>3, <1>2 DEF InMbox
  <2>2. ASSUME InMbox(c), c # hand' PROVE InMbox(c)'
    <3>1. PICK i \in 1 .. Len(mbox) : mbox[i] = c
      BY <2>2 DEF InMbox
    <3>2. i # 1
      BY <3>1, <2>2, <1>2
    <3>3. i - 1 \in 1 .. Len(mbox) - 1 /\ mbox'[i - 1] = mbox[i]
      BY <3>1, <3>2, <1>2
    <3> QED
      BY <3>1, <3>3, <1>2 DEF InMbox
  <2> QED
    BY <2>1, <2>2
<1>6. InMbox(hand')
  BY <1>2 DEF InMbox
<1>7. ASSUME NEW c \in Callers PROVE Placed(c)'
  <2>1. InHand(c)' <=> c = hand'
    BY <1>1 DEF InHand
  <2>2. ~InHand(c)
    BY <1>1 DEF InHand
  <2> QED
    BY <1>1, <1>5, <1>6, <2>1, <2>2 DEF CallInv, Placed
<1> QED
  BY <1>3, <1>4, <1>7 DEF CallInv

(* The thread completes a message or leaves it to the stack.               *)
LEMMA ServePreserves == ASSUME CallInv, Serve PROVE CallInv'
<1>1. /\ tpc = "serve" /\ tpc' = "fetch" /\ UNCHANGED <<mbox, cpc>>
      /\ hand \in Callers /\ InHand(hand)
      /\ \/ op' = [op EXCEPT ![hand] = 1] /\ pending' = pending
         \/ pending' = pending \cup {hand} /\ op' = op
  BY DEF Serve, CallInv, CallType, InHand
<1>2. CallType' /\ Distinct'
  BY <1>1 DEF CallInv, CallType, Distinct
<1>3. ASSUME NEW c \in Callers PROVE Placed(c)'
  <2>1. /\ InMbox(c)' <=> InMbox(c)
        /\ ~InHand(c)' /\ (InHand(c) <=> c = hand)
    BY <1>1 DEF InMbox, InHand
  <2>2. op[c] \in {0, 1} /\ op'[c] \in {0, 1}
    BY <1>2 DEF CallInv, CallType
  <2>3. (c # hand => op'[c] = op[c] /\ (c \in pending' <=> c \in pending))
        /\ (c = hand => \/ op'[c] = 1 /\ (c \in pending' <=> c \in pending)
                        \/ op'[c] = op[c] /\ c \in pending')
    BY <1>1 DEF CallInv, CallType
  <2>4. Placed(c)
    BY DEF CallInv
  <2> QED
    BY <1>1, <2>1, <2>2, <2>3, <2>4 DEF Placed
<1> QED
  BY <1>2, <1>3 DEF CallInv

(* The stack has finished the operation of c.                              *)
LEMMA CompletionPreserves ==
  ASSUME CallInv, NEW c \in pending, pending' = pending \ {c},
         op' = [op EXCEPT ![c] = 1], UNCHANGED <<mbox, cpc>>,
         (tpc = "serve" \/ tpc' = "serve") => UNCHANGED <<tpc, hand>>
  PROVE  CallInv'
<1>1. CallType' /\ Distinct'
  BY DEF CallInv, CallType, Distinct
<1>2. ASSUME NEW d \in Callers PROVE Placed(d)'
  <2>1. (InMbox(d)' <=> InMbox(d)) /\ (InHand(d)' <=> InHand(d))
    BY DEF InMbox, InHand
  <2>2. op'[d] = IF d = c THEN 1 ELSE op[d]
    BY DEF CallInv, CallType
  <2> QED
    BY <2>1, <2>2 DEF CallInv, Placed
<1> QED
  BY <1>1, <1>2 DEF CallInv

(* tcp_tmr may complete operations that the stack has kept.                *)
LEMMA TcpTmrPreserves == ASSUME CallInv, TcpTmr PROVE CallInv'
<1>1. tpc = "handler" /\ tpc' = "needed" /\ UNCHANGED <<mbox, cpc>>
  BY DEF TcpTmr
<1>2. CASE UNCHANGED <<op, pending>>
  BY <1>1, <1>2, CallInvKept DEF callVars
<1>3. CASE \E c \in pending : /\ pending' = pending \ {c}
                              /\ op' = [op EXCEPT ![c] = 1]
  BY <1>1, <1>3, CompletionPreserves
<1> QED
  BY <1>2, <1>3 DEF TcpTmr

(* So may ETHINT.                                                          *)
LEMMA EthCompletePreserves ==
  ASSUME CallInv, NEW c \in Callers, EthComplete(c) PROVE CallInv'
BY CompletionPreserves DEF EthComplete, threadVars

(* The steps that leave the calls alone.                                   *)
LEMMA OthersPreserve ==
  ASSUME CallInv,
         \/ StartWait \/ Overdue \/ TimedOut \/ Astray \/ PeriodicTimer
         \/ TcpTimerAgain \/ TcpTimerNotNeeded \/ TcpTimerOff
         \/ EthReg \/ EthArm \/ EthRemove \/ Tick
  PROVE  CallInv'
<1>1. CASE StartWait \/ Overdue \/ TimedOut \/ Astray
  BY <1>1, CallInvKept DEF StartWait, Overdue, TimedOut, PopTimeout, Astray
<1>2. CASE PeriodicTimer \/ TcpTimerAgain \/ TcpTimerNotNeeded \/ TcpTimerOff
  BY <1>2, CallInvKept DEF PeriodicTimer, TcpTimerAgain, TcpTimerNotNeeded, TcpTimerOff
<1>3. CASE EthReg \/ EthArm \/ EthRemove \/ Tick
  BY <1>3, CallInvKept DEF EthReg, EthArm, EthRemove, Tick, threadVars
<1> QED
  BY <1>1, <1>2, <1>3

(* The invariant holds in every behaviour.                                 *)
LEMMA CallInvIsInvariant == Spec => []CallInv
<1>1. ASSUME CallInv, UNCHANGED vars PROVE CallInv'
  BY <1>1, CallInvKept DEF vars, threadVars
<1>2. ASSUME CallInv, Next PROVE CallInv'
  BY <1>2, CallPreserves, SysMboxPostPreserves, SysArchSemWaitPreserves,
     EthCompletePreserves, ReceivePreserves, ServePreserves, TcpTmrPreserves,
     OthersPreserve DEF Next, Thread
<1>3. CallInv /\ [Next]_vars => CallInv'
  BY <1>1, <1>2
<1> QED
  BY <1>3, InitCallInv, PTL DEF Spec

(* The mailbox, the thread and the stack refer to the message on a         *)
(* caller's stack once while tcpip_apimsg waits, and never after it has    *)
(* returned: for any callers, timers and sizes.                            *)
THEOREM MessagesOutliveNoCaller == Spec => []MessageAlive
<1>1. CallInv => MessageAlive
  <2> SUFFICES ASSUME CallInv, NEW c \in Callers
               PROVE  Cardinality({i \in 1 .. Len(mbox) : mbox[i] = c})
                        + (IF tpc = "serve" /\ hand = c THEN 1 ELSE 0)
                        + (IF c \in pending THEN 1 ELSE 0)
                        + op[c] = (IF cpc[c] = "wait" THEN 1 ELSE 0)
    BY DEF MessageAlive
  <2> DEFINE places == {i \in 1 .. Len(mbox) : mbox[i] = c}
  <2>1. Cardinality(places) = IF InMbox(c) THEN 1 ELSE 0
    <3>1. CASE InMbox(c)
      <4>1. PICK i \in 1 .. Len(mbox) : mbox[i] = c
        BY <3>1 DEF InMbox
      <4>2. places = {i}
        BY <4>1 DEF CallInv, Distinct
      <4>3. Cardinality({i}) = 1
        BY FS_Singleton
      <4> QED
        BY <3>1, <4>2, <4>3
    <3>2. CASE ~InMbox(c)
      <4>1. places = {}
        BY <3>2 DEF InMbox
      <4>2. Cardinality({}) = 0
        BY FS_EmptySet
      <4> QED
        BY <3>2, <4>1, <4>2
    <3> QED
      BY <3>1, <3>2
  <2>2. Placed(c) /\ op[c] \in {0, 1}
    BY DEF CallInv, CallType
  <2> HIDE DEF places
  <2>3. Cardinality(places) + (IF InHand(c) THEN 1 ELSE 0)
          + (IF c \in pending THEN 1 ELSE 0) + op[c]
        = (IF cpc[c] = "wait" THEN 1 ELSE 0)
    BY <2>1, <2>2 DEF Placed
  <2> QED
    BY <2>3 DEF InHand, places
<1> QED
  BY <1>1, CallInvIsInvariant, PTL
-----------------------------------------------------------------------------
(* The list of timeouts.                                                   *)

(* An element of the list next_timeout.                                    *)
Entry == [timer : Timers, time : Nat]

(* No timer is in list l twice.                                            *)
Once(l) == \A i, j \in 1 .. Len(l) : l[i].timer = l[j].timer => i = j

(* Timer t is in list l.                                                   *)
Has(l, t) == \E i \in 1 .. Len(l) : l[i].timer = t

(* A set of natural numbers that is not empty has a least member.  Every   *)
(* induction below looks for the least number at which it fails.           *)
LEMMA Least ==
  ASSUME NEW T, T \subseteq Nat, T # {}
  PROVE  \E x \in T : \A y \in T : x <= y
<1> DEFINE R == OpToRel(<, Nat)
<1>1. IsWellFoundedOn(R, Nat)
  BY NatLessThanWellFounded
<1> HIDE DEF R
<1>2. PICK x \in T : \A y \in T : ~ (<<y, x>> \in R)
  BY <1>1, WFMin
<1>3. \A y \in T : ~ (y < x)
  BY <1>2 DEF R, OpToRel
<1> QED
  BY <1>3

(* Due adds the times up: the recursive function in its definition exists. *)
LEMMA DueIs ==
  ASSUME NEW l \in Seq(Entry)
  PROVE  /\ Due(l, 0) = 0
         /\ \A k \in 1 .. Len(l) : Due(l, k) = Due(l, k - 1) + l[k].time
         /\ \A k \in 0 .. Len(l) : Due(l, k) \in Nat
<1> DEFINE n == Len(l)
           Is(g, m) == g = [i \in 0 .. m |->
                              IF i = 0 THEN 0 ELSE g[i - 1] + l[i].time]
           s == CHOOSE g : Is(g, n)
<1>1. n \in Nat
  OBVIOUS
<1>2. \E g : Is(g, n)
  <2> DEFINE bad == {m \in 0 .. n : ~ \E g : Is(g, m)}
  <2> SUFFICES ASSUME bad # {} PROVE FALSE
    BY <1>1
  <2>1. PICK m \in bad : \A y \in bad : m <= y
    <3>1. bad \subseteq Nat
      OBVIOUS
    <3> HIDE DEF bad
    <3> QED
      BY <3>1, Least
  <2>2. m # 0
    <3>1. Is([i \in 0 .. 0 |-> 0], 0)
      OBVIOUS
    <3> QED
      BY <3>1
  <2>3. PICK g : Is(g, m - 1)
    <3>1. m - 1 \in 0 .. n /\ ~ (m <= m - 1)
      BY <1>1, <2>2
    <3>2. m - 1 \notin bad
      BY <2>1, <3>1
    <3> QED
      BY <3>1, <3>2
  <2> DEFINE h == [i \in 0 .. m |-> IF i = m THEN g[m - 1] + l[m].time ELSE g[i]]
  <2>4. \A i \in 0 .. m - 1 : g[i] = IF i = 0 THEN 0 ELSE g[i - 1] + l[i].time
    BY <2>3
  <2>5. ASSUME NEW i \in 0 .. m
        PROVE  h[i] = IF i = 0 THEN 0 ELSE h[i - 1] + l[i].time
    BY <2>2, <2>4
  <2>6. Is(h, m)
    BY <2>5
  <2> QED
    BY <2>6
<1>3. Is(s, n)
  BY <1>2
<1>4. \A k : Due(l, k) = s[k]
  BY DEF Due
<1> HIDE DEF s
<1>5. s[0] = 0 /\ \A k \in 1 .. n : s[k] = s[k - 1] + l[k].time
  BY <1>1, <1>3
<1>6. \A k \in 0 .. n : s[k] \in Nat
  <2> DEFINE bad == {k \in 0 .. n : s[k] \notin Nat}
  <2> SUFFICES ASSUME bad # {} PROVE FALSE
    OBVIOUS
  <2>1. PICK k \in bad : \A y \in bad : k <= y
    <3>1. bad \subseteq Nat
      OBVIOUS
    <3> HIDE DEF bad
    <3> QED
      BY <3>1, Least
  <2>2. k # 0
    BY <1>5
  <2>3. k - 1 \in 0 .. n /\ k - 1 \notin bad
    BY <2>1, <2>2
  <2>4. k \in 1 .. n /\ l[k].time \in Nat
    <3>1. k \in 1 .. n
      BY <1>1, <2>2
    <3>2. l[k] \in Entry
      BY <3>1
    <3> QED
      BY <3>1, <3>2 DEF Entry
  <2> QED
    BY <1>5, <2>2, <2>3, <2>4
<1> QED
  BY <1>4, <1>5, <1>6

(* An entry is due no earlier than those before it.                        *)
LEMMA DueGrows ==
  ASSUME NEW l \in Seq(Entry), NEW i \in 0 .. Len(l), NEW j \in i .. Len(l)
  PROVE  Due(l, i) <= Due(l, j)
<1> DEFINE bad == {k \in i .. Len(l) : ~ (Due(l, i) <= Due(l, k))}
<1> SUFFICES ASSUME bad # {} PROVE FALSE
  OBVIOUS
<1>1. PICK k \in bad : \A y \in bad : k <= y
  <2>1. bad \subseteq Nat
    OBVIOUS
  <2> HIDE DEF bad
  <2> QED
    BY <2>1, Least
<1>2. k # i
  BY DueIs
<1>3. k - 1 \in i .. Len(l) /\ k - 1 \notin bad
  BY <1>1, <1>2
<1>4. k \in 1 .. Len(l) /\ l[k].time \in Nat
  <2>1. k \in 1 .. Len(l)
    BY <1>2
  <2>2. l[k] \in Entry
    BY <2>1
  <2> QED
    BY <2>1, <2>2 DEF Entry
<1>5. Due(l, k) = Due(l, k - 1) + l[k].time
  BY <1>4, DueIs
<1>6. Due(l, i) \in Nat /\ Due(l, k - 1) \in Nat /\ Due(l, i) <= Due(l, k - 1)
  BY <1>3, DueIs
<1>7. ~ (Due(l, i) <= Due(l, k))
  OBVIOUS
<1> QED
  BY <1>4, <1>5, <1>6, <1>7

(* The entries that are due no later than the new timer are the first k,   *)
(* and k counts them.                                                      *)
LEMMA DuePrefix ==
  ASSUME NEW l \in Seq(Entry), NEW t \in Timers
  PROVE  LET k == Cardinality({i \in 1 .. Len(l) : Due(l, i) <= Interval[t]})
         IN  /\ k \in 0 .. Len(l)
             /\ Due(l, k) <= Interval[t]
             /\ k < Len(l) => Due(l, k + 1) > Interval[t]
<1> DEFINE D == {i \in 1 .. Len(l) : Due(l, i) <= Interval[t]}
           late == {i \in 1 .. Len(l) + 1 : i = Len(l) + 1 \/ i \notin D}
<1>1. PICK m \in late : \A y \in late : m <= y
  <2>1. late \subseteq Nat /\ Len(l) + 1 \in late
    OBVIOUS
  <2> HIDE DEF late
  <2> QED
    BY <2>1, Least
<1>2. m \in 1 .. Len(l) + 1
  OBVIOUS
<1>3. Interval[t] \in Nat
  BY TimerAssumption
<1>4. D = 1 .. m - 1
  <2>1. ASSUME NEW i \in 1 .. m - 1 PROVE i \in D
    BY <1>1, <1>2
  <2>2. ASSUME NEW i \in D PROVE i \in 1 .. m - 1
    <3>1. CASE m = Len(l) + 1
      BY <3>1
    <3>2. CASE m # Len(l) + 1 /\ i >= m
      <4>1. m \notin D /\ m \in 1 .. Len(l) /\ i \in m .. Len(l)
        BY <3>2, <1>2
      <4>2. Due(l, m) <= Due(l, i)
        BY <4>1, DueGrows
      <4> QED
        BY <1>3, <4>1, <4>2, DueIs
    <3> QED
      BY <1>2, <3>1, <3>2
  <2> QED
    BY <2>1, <2>2
<1>5. Cardinality(D) = m - 1
  <2>1. 1 \in Int /\ m - 1 \in Int
    BY <1>2
  <2>2. Cardinality(1 .. m - 1) = IF 1 > m - 1 THEN 0 ELSE (m - 1) - 1 + 1
    BY <2>1, FS_Interval
  <2> HIDE DEF D
  <2> QED
    BY <1>2, <1>4, <2>2
<1>6. Due(l, m - 1) <= Interval[t]
  <2>1. CASE m = 1
    BY <2>1, <1>3, DueIs
  <2>2. CASE m # 1
    <3>1. m - 1 \in D
      BY <1>4, <1>2, <2>2
    <3> QED
      BY <3>1
  <2> QED
    BY <2>1, <2>2
<1>7. m - 1 < Len(l) => Due(l, m) > Interval[t]
  <2>1. ASSUME m - 1 < Len(l) PROVE Due(l, m) > Interval[t]
    <3>1. m \in 1 .. Len(l) /\ m \notin D
      BY <1>2, <2>1
    <3>2. Due(l, m) \in Nat
      BY <3>1, DueIs
    <3> QED
      BY <3>1, <3>2, <1>3
  <2> QED
    BY <2>1
<1> HIDE DEF D
<1> QED
  BY <1>2, <1>5, <1>6, <1>7 DEF D

(* Entry i of the list after sys_timeout: the first k are the old ones,    *)
(* then comes the new one, and the one behind it is taken nearer by delta. *)
PutAt(l, t, k, i) ==
  LET e     == SysTimeout(l, t)[i]
      delta == Interval[t] - Due(l, k)
  IN  /\ i <= k     => e = l[i]
      /\ i = k + 1  => e.timer = t /\ e.time = delta
      /\ i = k + 2  => e.timer = l[i - 1].timer /\ e.time = l[i - 1].time - delta
      /\ i > k + 2  => e = l[i - 1]

(* sys_timeout puts the new timer between two neighbours, keeps the others *)
(* in their order, and leaves no time negative.                            *)
LEMMA SysTimeoutIs ==
  ASSUME NEW l \in Seq(Entry), NEW t \in Timers, Len(l) < POOL_SIZE
  PROVE  /\ SysTimeout(l, t) \in Seq(Entry)
         /\ Len(SysTimeout(l, t)) = Len(l) + 1
         /\ \E k \in 0 .. Len(l) :
              /\ Due(l, k) <= Interval[t]
              /\ k < Len(l) => Due(l, k + 1) > Interval[t]
              /\ \A i \in 1 .. Len(l) + 1 : PutAt(l, t, k, i)
<1> DEFINE k     == Cardinality({i \in 1 .. Len(l) : Due(l, i) <= Interval[t]})
           delta == Interval[t] - Due(l, k)
           rest  == SubSeq(l, k + 1, Len(l))
           after == IF rest = <<>> THEN rest ELSE [rest EXCEPT ![1].time = @ - delta]
           r     == SubSeq(l, 1, k) \o <<[timer |-> t, time |-> delta]>> \o after
<1>1. ~ (Len(l) >= POOL_SIZE)
  BY PoolAssumption
<1>2. SysTimeout(l, t) = r
  BY <1>1 DEF SysTimeout
<1>3. k \in 0 .. Len(l) /\ Due(l, k) <= Interval[t]
      /\ (k < Len(l) => Due(l, k + 1) > Interval[t])
  BY DuePrefix
<1> HIDE DEF k
<1>4. Interval[t] \in Nat /\ Due(l, k) \in Nat
  BY <1>3, DueIs, TimerAssumption
<1>5. delta \in Nat
  BY <1>3, <1>4
<1>6. rest \in Seq(Entry) /\ Len(rest) = Len(l) - k
      /\ \A i \in 1 .. Len(l) - k : rest[i] = l[k + i]
  BY <1>3
<1>7. /\ after \in Seq(Entry) /\ Len(after) = Len(l) - k
      /\ \A i \in 2 .. Len(l) - k : after[i] = l[k + i]
      /\ Len(after) > 0 => /\ after[1].timer = l[k + 1].timer
                           /\ after[1].time = l[k + 1].time - delta
  <2>1. CASE rest = <<>>
    <3>1. Len(l) - k = 0 /\ after = rest
      BY <2>1, <1>6
    <3> QED
      BY <1>6, <3>1
  <2>2. CASE rest # <<>>
    <3>1. Len(rest) > 0 /\ k < Len(l)
      BY <1>3, <1>6, <2>2
    <3>2. Due(l, k + 1) = Due(l, k) + l[k + 1].time /\ Due(l, k + 1) \in Nat
      BY <1>3, <3>1, DueIs
    <3>3. rest[1] = l[k + 1] /\ rest[1] \in Entry
      BY <1>3, <1>6, <3>1
    <3>4. rest[1].time \in Nat /\ rest[1].time > delta
      BY SMTT(30), <1>3, <1>4, <3>1, <3>2, <3>3 DEF Entry
    <3> HIDE DEF rest, delta
    <3>5. rest[1].time - delta \in Nat
      BY <1>5, <3>4
    <3>6. [rest[1] EXCEPT !.time = @ - delta] \in Entry
      BY <3>3, <3>5 DEF Entry
    <3>7. after = [rest EXCEPT ![1] = [rest[1] EXCEPT !.time = @ - delta]]
      BY <2>2, <3>1, <1>6
    <3> HIDE DEF after
    <3>8. after \in Seq(Entry) /\ Len(after) = Len(rest)
      BY <1>6, <3>1, <3>6, <3>7, ExceptSeq
    <3>9. /\ \A i \in 2 .. Len(rest) : after[i] = rest[i]
          /\ after[1] = [rest[1] EXCEPT !.time = @ - delta]
      BY <1>6, <3>1, <3>7
    <3>10. after[1].timer = rest[1].timer /\ after[1].time = rest[1].time - delta
      BY <3>3, <3>9 DEF Entry
    <3> QED
      BY <1>3, <1>6, <3>3, <3>8, <3>9, <3>10
  <2> QED
    BY <2>1, <2>2
<1> HIDE DEF rest, after, delta
<1> DEFINE e == [timer |-> t, time |-> delta]
           front == SubSeq(l, 1, k)
<1>8. front \in Seq(Entry) /\ Len(front) = k /\ \A i \in 1 .. k : front[i] = l[i]
  BY <1>3
<1>9. e \in Entry /\ e.timer = t /\ e.time = delta
  BY <1>5 DEF Entry
<1> HIDE DEF front, e
<1>10. r = front \o <<e>> \o after
  BY DEF front, e
<1> HIDE DEF r
<1>11. r \in Seq(Entry) /\ Len(r) = Len(l) + 1
  <2>1. front \o <<e>> \in Seq(Entry) /\ Len(front \o <<e>>) = k + 1
    BY <1>3, <1>8, <1>9
  <2>2. r \in Seq(Entry) /\ Len(r) = Len(front \o <<e>>) + Len(after)
    BY <1>7, <1>10, <2>1, ConcatProperties
  <2>3. Len(l) \in Nat /\ Len(r) = (k + 1) + (Len(l) - k)
    BY <1>7, <2>1, <2>2
  <2> QED
    BY <1>3, <2>2, <2>3
<1>12. ASSUME NEW i \in 1 .. Len(l) + 1
       PROVE  /\ i <= k     => r[i] = l[i]
              /\ i = k + 1  => r[i].timer = t /\ r[i].time = delta
              /\ i = k + 2  => /\ r[i].timer = l[i - 1].timer
                               /\ r[i].time = l[i - 1].time - delta
              /\ i > k + 2  => r[i] = l[i - 1]
  <2>1. CASE i <= k
    <3>1. r[i] = front[i]
      BY <1>3, <1>7, <1>8, <1>9, <1>10, <2>1
    <3> QED
      BY <1>3, <1>8, <2>1, <3>1
  <2>2. CASE i = k + 1
    <3>1. front \o <<e>> \in Seq(Entry) /\ Len(front \o <<e>>) = k + 1
          /\ (front \o <<e>>)[k + 1] = e
      BY <1>3, <1>8, <1>9
    <3>2. r[i] = (front \o <<e>>)[k + 1]
      BY <1>3, <1>7, <1>10, <2>2, <3>1
    <3> QED
      BY <1>3, <1>9, <2>2, <3>1, <3>2
  <2>3. CASE i > k + 1
    <3>1. r[i] = after[i - k - 1] /\ i - k - 1 \in 1 .. Len(l) - k
      BY SMTT(30), <1>3, <1>7, <1>8, <1>9, <1>10, <2>3
    <3>2. k + (i - k - 1) = i - 1 /\ (i = k + 2 => i - k - 1 = 1 /\ k + 1 = i - 1)
      BY <1>3
    <3>3. CASE i = k + 2
      <4>1. Len(after) > 0
        BY <1>7, <3>1, <3>3
      <4> QED
        BY <1>3, <1>7, <3>1, <3>2, <3>3, <4>1
    <3>4. CASE i > k + 2
      <4>1. i - k - 1 \in 2 .. Len(l) - k
        BY <1>3, <3>1, <3>4
      <4> QED
        BY SMTT(30), <1>3, <1>7, <3>1, <3>2, <3>4, <4>1
    <3> QED
      BY <1>3, <2>3, <3>3, <3>4
  <2> QED
    BY <1>3, <2>1, <2>2, <2>3
<1>13. \A i \in 1 .. Len(l) + 1 : PutAt(l, t, k, i)
  BY <1>2, <1>12 DEF PutAt, delta
<1> QED
  BY <1>2, <1>3, <1>11, <1>13

(* The first entry is due at its own time.                                 *)
LEMMA DueFirst ==
  ASSUME NEW l \in Seq(Entry), l # <<>>
  PROVE  Due(l, 1) = l[1].time /\ 1 \in 1 .. Len(l) /\ l[1].time \in Nat
<1>1. 1 \in 1 .. Len(l)
  OBVIOUS
<1>2. l[1] \in Entry
  BY <1>1
<1>3. Due(l, 1) = Due(l, 0) + l[1].time /\ Due(l, 0) = 0
  BY <1>1, DueIs
<1> QED
  BY <1>1, <1>2, <1>3 DEF Entry

(* sys_timeout makes the new timer due after its interval and leaves every *)
(* other timer due when it was; the first time in the list does not grow.  *)
LEMMA DueInsert ==
  ASSUME NEW l \in Seq(Entry), NEW t \in Timers, Len(l) < POOL_SIZE
  PROVE  LET r == SysTimeout(l, t)
         IN  /\ \A i \in 1 .. Len(r) :
                  \/ r[i].timer = t /\ Due(r, i) = Interval[t]
                  \/ \E j \in 1 .. Len(l) :
                       r[i].timer = l[j].timer /\ Due(r, i) = Due(l, j)
             /\ r # <<>>
             /\ l # <<>> => r[1].time <= l[1].time
<1> DEFINE r == SysTimeout(l, t)
<1>1. Len(l) \in Nat /\ r \in Seq(Entry) /\ Len(r) = Len(l) + 1
  BY SysTimeoutIs
<1>2. PICK k \in 0 .. Len(l) :
        /\ Due(l, k) <= Interval[t]
        /\ k < Len(l) => Due(l, k + 1) > Interval[t]
        /\ \A i \in 1 .. Len(l) + 1 : PutAt(l, t, k, i)
  BY SysTimeoutIs
<1> DEFINE delta == Interval[t] - Due(l, k)
<1>3. \A i \in 1 .. Len(l) + 1 :
        /\ i <= k     => r[i] = l[i]
        /\ i = k + 1  => r[i].timer = t /\ r[i].time = delta
        /\ i = k + 2  => r[i].timer = l[i - 1].timer /\ r[i].time = l[i - 1].time - delta
        /\ i > k + 2  => r[i] = l[i - 1]
  BY <1>2 DEF PutAt
<1>4. Interval[t] \in Nat
  BY TimerAssumption
<1> HIDE DEF r
<1> DEFINE Same(i) == Due(r, i) = IF i <= k THEN Due(l, i)
                                  ELSE IF i = k + 1 THEN Interval[t]
                                  ELSE Due(l, i - 1)
<1>5. \A i \in 0 .. Len(r) : Same(i)
  <2> DEFINE bad == {i \in 0 .. Len(r) : ~Same(i)}
  <2> SUFFICES ASSUME bad # {} PROVE FALSE
    OBVIOUS
  <2>1. PICK i \in bad : \A y \in bad : i <= y
    <3>1. bad \subseteq Nat
      OBVIOUS
    <3> HIDE DEF bad
    <3> QED
      BY <3>1, Least
  <2>2. i # 0
    BY <1>1, DueIs
  <2>3. i \in 1 .. Len(r) /\ i - 1 \in 0 .. Len(r) /\ ~ (i <= i - 1)
    BY <1>1, <2>2
  <2>4. Same(i - 1)
    <3>1. i - 1 \notin bad
      BY <2>1, <2>3
    <3> QED
      BY <2>3, <3>1
  <2>5. Due(r, i) = Due(r, i - 1) + r[i].time
    BY <1>1, <2>3, DueIs
  <2>6. \A j \in 1 .. Len(l) : Due(l, j) = Due(l, j - 1) + l[j].time /\ Due(l, j) \in Nat
                               /\ Due(l, j - 1) \in Nat /\ l[j].time \in Nat
    <3> TAKE j \in 1 .. Len(l)
    <3>1. l[j] \in Entry /\ j - 1 \in 0 .. Len(l)
      BY <1>1
    <3>2. l[j].time \in Nat
      BY <3>1 DEF Entry
    <3>3. Due(l, j) = Due(l, j - 1) + l[j].time
      BY DueIs
    <3>4. Due(l, j - 1) \in Nat
      BY <3>1, DueIs
    <3> QED
      BY <3>2, <3>3, <3>4
  <2>7. Due(l, k) \in Nat
    BY DueIs
  <2> SUFFICES Same(i)
    OBVIOUS
  <2>8. CASE i <= k
    <3>1. i \in 1 .. Len(l) /\ r[i] = l[i]
      BY <1>1, <1>3, <2>3, <2>8
    <3> QED
      BY <2>3, <2>4, <2>5, <2>6, <2>8, <3>1
  <2>9. CASE i = k + 1
    <3>1. r[i].time = delta
      BY <1>1, <1>3, <2>3, <2>9
    <3>2. Due(r, i - 1) = Due(l, k)
      BY <2>3, <2>4, <2>9
    <3> QED
      BY <1>4, <2>3, <2>5, <2>7, <2>9, <3>1, <3>2
  <2>10. CASE i = k + 2
    <3>1. r[i].time = l[k + 1].time - delta /\ k + 1 \in 1 .. Len(l) /\ i - 1 = k + 1
      BY <1>1, <1>3, <2>3, <2>10
    <3>2. Due(r, i - 1) = Interval[t]
      BY <2>4, <3>1
    <3>3. Due(l, k + 1) = Due(l, k) + l[k + 1].time /\ l[k + 1].time \in Nat
      BY <2>6, <3>1
    <3> QED
      BY <1>4, <2>5, <2>7, <2>10, <3>1, <3>2, <3>3
  <2>11. CASE i > k + 2
    <3>1. r[i] = l[i - 1] /\ i - 1 \in 1 .. Len(l) /\ (i - 1) - 1 = i - 2
      BY <1>1, <1>3, <2>3, <2>11
    <3>2. Due(r, i - 1) = Due(l, i - 2)
      BY <2>3, <2>4, <2>11, <3>1
    <3>3. Due(l, i - 1) = Due(l, i - 2) + l[i - 1].time
      BY <2>6, <3>1
    <3> QED
      BY <2>3, <2>5, <2>11, <3>1, <3>2, <3>3
  <2> QED
    BY <2>3, <2>8, <2>9, <2>10, <2>11
<1>6. ASSUME NEW i \in 1 .. Len(r)
      PROVE  \/ r[i].timer = t /\ Due(r, i) = Interval[t]
             \/ \E j \in 1 .. Len(l) :
                  r[i].timer = l[j].timer /\ Due(r, i) = Due(l, j)
  <2>1. Same(i)
    BY <1>1, <1>5
  <2>2. CASE i <= k
    <3>1. i \in 1 .. Len(l) /\ r[i].timer = l[i].timer /\ Due(r, i) = Due(l, i)
      BY <1>1, <1>3, <2>1, <2>2
    <3> QED
      BY <3>1
  <2>3. CASE i = k + 1
    BY <1>1, <1>3, <2>1, <2>3
  <2>4. CASE i > k + 1
    <3>1. i - 1 \in 1 .. Len(l) /\ Due(r, i) = Due(l, i - 1)
      BY <1>1, <2>1, <2>4
    <3>2. r[i].timer = l[i - 1].timer
      BY <1>1, <1>3, <2>4
    <3> QED
      BY <3>1, <3>2
  <2> QED
    BY <2>2, <2>3, <2>4
<1>7. r # <<>>
  BY <1>1
<1>8. ASSUME l # <<>> PROVE r[1].time <= l[1].time
  <2>1. l[1].time \in Nat /\ Due(l, 1) = l[1].time /\ 1 \in 1 .. Len(l)
    BY <1>8, DueFirst
  <2>2. CASE k = 0
    <3>1. Due(l, 1) > Interval[t]
      BY <1>2, <2>1, <2>2
    <3>2. r[1].time = Interval[t]
      <4>1. Due(l, k) = 0
        BY <2>2, DueIs
      <4>2. r[1].time = Interval[t] - Due(l, k)
        BY <1>1, <1>3, <2>2
      <4> QED
        BY <1>4, <4>1, <4>2
    <3> QED
      BY <1>4, <2>1, <3>1, <3>2
  <2>3. CASE k > 0
    BY <1>1, <1>3, <2>1, <2>3
  <2> QED
    BY <2>2, <2>3
<1> QED
  BY <1>6, <1>7, <1>8 DEF r

(* There are as many timers as sys_timeouts_init starts, and one more.     *)
LEMMA TimersFinite ==
  IsFiniteSet(Timers) /\ Cardinality(Timers) <= Len(Order) + 1
<1>1. IsFiniteSet(1 .. Len(Order)) /\ Cardinality(1 .. Len(Order)) = Len(Order)
  <2>1. Len(Order) \in Nat
    BY TimerAssumption
  <2>2. IsFiniteSet(1 .. Len(Order))
        /\ Cardinality(1 .. Len(Order)) = IF 1 > Len(Order) THEN 0 ELSE Len(Order) - 1 + 1
    BY SMTT(30), <2>1, FS_Interval
  <2> QED
    BY <2>1, <2>2
<1>2. Order \in Surjection(1 .. Len(Order), Periodic)
  BY TimerAssumption DEF Surjection, Periodic, Range
<1>3. IsFiniteSet(Periodic) /\ Cardinality(Periodic) <= Len(Order)
  BY <1>1, <1>2, FS_Surjection
<1>4. Cardinality(Periodic) \in Nat /\ Len(Order) \in Nat
  BY <1>3, TimerAssumption, FS_CardinalityType
<1>5. IsFiniteSet(Timers) /\ Cardinality(Timers) = Cardinality(Periodic) + 1
  BY <1>3, TimerAssumption, FS_AddElement DEF Timers
<1> QED
  BY <1>3, <1>4, <1>5

(* A list without timer t leaves an element of the pool for it.            *)
LEMMA RoomForTimer ==
  ASSUME NEW l \in Seq(Entry), Once(l), NEW t \in Timers, ~ Has(l, t)
  PROVE  Len(l) < POOL_SIZE
<1> DEFINE f == [i \in 1 .. Len(l) |-> l[i].timer]
           others == Timers \ {t}
<1>1. IsFiniteSet(others) /\ Cardinality(others) <= Len(Order)
  <2>1. IsFiniteSet(others) /\ Cardinality(others) = Cardinality(Timers) - 1
    BY TimersFinite, FS_RemoveElement
  <2>2. Cardinality(Timers) \in Nat /\ Len(Order) \in Nat
    BY TimersFinite, FS_CardinalityType, TimerAssumption
  <2> QED
    BY <2>1, <2>2, TimersFinite
<1>2. ASSUME NEW i \in 1 .. Len(l) PROVE l[i].timer \in others
  <2>1. l[i] \in Entry
    OBVIOUS
  <2> QED
    BY <2>1 DEF Entry, Has
<1>3. f \in Injection(1 .. Len(l), others)
  BY <1>2 DEF Injection, IsInjective, Once
<1>4. Cardinality(1 .. Len(l)) <= Cardinality(others)
  BY <1>1, <1>3, FS_Injection
<1>5. Cardinality(1 .. Len(l)) = Len(l)
  <2>1. Cardinality(1 .. Len(l)) = IF 1 > Len(l) THEN 0 ELSE Len(l) - 1 + 1
    BY FS_Interval
  <2> QED
    BY <2>1
<1>6. Cardinality(others) \in Nat /\ Len(Order) \in Nat
  BY <1>1, FS_CardinalityType, TimerAssumption
<1> QED
  BY <1>1, <1>4, <1>5, <1>6, PoolAssumption

(* sys_timeout adds the timer, and nothing else changes.                   *)
LEMMA AddTimer ==
  ASSUME NEW l \in Seq(Entry), Once(l), NEW t \in Timers, ~ Has(l, t)
  PROVE  /\ SysTimeout(l, t) \in Seq(Entry)
         /\ Len(SysTimeout(l, t)) <= POOL_SIZE
         /\ Once(SysTimeout(l, t))
         /\ \A u \in Timers : Has(SysTimeout(l, t), u) <=> Has(l, u) \/ u = t
<1> DEFINE r == SysTimeout(l, t)
<1>1. Len(l) \in Nat /\ Len(l) < POOL_SIZE
  BY RoomForTimer
<1>2. r \in Seq(Entry) /\ Len(r) = Len(l) + 1
  BY <1>1, SysTimeoutIs
<1>3. PICK k \in 0 .. Len(l) : \A i \in 1 .. Len(l) + 1 :
        r[i].timer =
          IF i <= k THEN l[i].timer ELSE IF i = k + 1 THEN t ELSE l[i - 1].timer
  <2>1. PICK k \in 0 .. Len(l) : \A i \in 1 .. Len(l) + 1 : PutAt(l, t, k, i)
    BY <1>1, SysTimeoutIs
  <2>2. \A i \in 1 .. Len(l) + 1 :
          r[i].timer =
            IF i <= k THEN l[i].timer ELSE IF i = k + 1 THEN t ELSE l[i - 1].timer
    BY <1>1, <2>1 DEF PutAt
  <2> QED
    BY <2>2
<1> HIDE DEF r
<1> DEFINE from(i) == IF i <= k THEN i ELSE i - 1
<1>4. \A i \in 1 .. Len(r) : i # k + 1 =>
        from(i) \in 1 .. Len(l) /\ r[i].timer = l[from(i)].timer
  BY <1>1, <1>2, <1>3
<1>5. k + 1 \in 1 .. Len(r) /\ r[k + 1].timer = t
  BY <1>1, <1>2, <1>3
<1>6. Once(r)
  <2> SUFFICES ASSUME NEW i \in 1 .. Len(r), NEW j \in 1 .. Len(r),
                      r[i].timer = r[j].timer
               PROVE  i = j
    BY DEF Once
  <2>1. \A m \in 1 .. Len(l) : l[m].timer # t
    BY DEF Has
  <2>2. \A m \in 1 .. Len(r) : m # k + 1 => r[m].timer # t
    BY <1>4, <2>1
  <2>3. CASE i # k + 1 /\ j # k + 1
    <3>1. from(i) = from(j)
      BY <1>4, <2>3 DEF Once
    <3> QED
      BY <2>3, <3>1
  <2> QED
    BY <1>5, <2>2, <2>3
<1>7. ASSUME NEW u \in Timers PROVE Has(r, u) <=> Has(l, u) \/ u = t
  <2>1. ASSUME Has(r, u) PROVE Has(l, u) \/ u = t
    BY <1>4, <1>5, <2>1 DEF Has
  <2>2. ASSUME u = t PROVE Has(r, u)
    BY <1>5, <2>2 DEF Has
  <2>3. ASSUME Has(l, u) PROVE Has(r, u)
    <3>1. PICK i \in 1 .. Len(l) : l[i].timer = u
      BY <2>3 DEF Has
    <3> DEFINE at == IF i <= k THEN i ELSE i + 1
    <3>2. at \in 1 .. Len(r) /\ at # k + 1 /\ from(at) = i
      BY <1>1, <1>2
    <3> QED
      BY <1>4, <3>1, <3>2 DEF Has
  <2> QED
    BY <2>1, <2>2, <2>3
<1> QED
  BY <1>1, <1>2, <1>6, <1>7, PoolAssumption DEF r

(* sys_timeouts_init starts each periodic timer once.                      *)
LEMMA InitialListIs ==
  /\ InitialList \in Seq(Entry)
  /\ Len(InitialList) <= POOL_SIZE
  /\ Once(InitialList)
  /\ \A t \in Timers : Has(InitialList, t) <=> t \in Periodic
  /\ \A i \in 1 .. Len(InitialList) :
       Due(InitialList, i) = Interval[InitialList[i].timer]
<1> DEFINE n == Len(Order)
           Is(g, m) == g = [i \in 0 .. m |->
                              IF i = 0 THEN <<>> ELSE SysTimeout(g[i - 1], Order[i])]
           s == CHOOSE g : Is(g, n)
<1>1. n \in Nat
  BY TimerAssumption
<1>2. \E g : Is(g, n)
  <2> DEFINE bad == {m \in 0 .. n : ~ \E g : Is(g, m)}
  <2> SUFFICES ASSUME bad # {} PROVE FALSE
    BY <1>1
  <2>1. PICK m \in bad : \A y \in bad : m <= y
    <3>1. bad \subseteq Nat
      OBVIOUS
    <3> HIDE DEF bad
    <3> QED
      BY <3>1, Least
  <2>2. m # 0
    <3>1. Is([i \in 0 .. 0 |-> <<>>], 0)
      OBVIOUS
    <3> QED
      BY <3>1
  <2>3. PICK g : Is(g, m - 1)
    <3>1. m - 1 \in 0 .. n /\ ~ (m <= m - 1)
      BY <1>1, <2>2
    <3>2. m - 1 \notin bad
      BY <2>1, <3>1
    <3> QED
      BY <3>1, <3>2
  <2> DEFINE h == [i \in 0 .. m |->
                     IF i = m THEN SysTimeout(g[m - 1], Order[m]) ELSE g[i]]
  <2>4. \A i \in 0 .. m - 1 :
          g[i] = IF i = 0 THEN <<>> ELSE SysTimeout(g[i - 1], Order[i])
    BY <2>3
  <2>5. ASSUME NEW i \in 0 .. m
        PROVE  h[i] = IF i = 0 THEN <<>> ELSE SysTimeout(h[i - 1], Order[i])
    BY <2>2, <2>4
  <2>6. Is(h, m)
    BY <2>5
  <2> QED
    BY <2>6
<1>3. Is(s, n)
  BY <1>2
<1>4. InitialList = s[n]
  BY DEF InitialList
<1> HIDE DEF s
<1>5. s[0] = <<>> /\ \A k \in 1 .. n : s[k] = SysTimeout(s[k - 1], Order[k])
  BY <1>1, <1>3
<1> DEFINE Good(k) ==
             /\ s[k] \in Seq(Entry) /\ Len(s[k]) <= POOL_SIZE /\ Once(s[k])
             /\ \A t \in Timers : Has(s[k], t) <=> \E i \in 1 .. k : Order[i] = t
             /\ \A i \in 1 .. Len(s[k]) : Due(s[k], i) = Interval[s[k][i].timer]
<1>6. Good(n)
  <2> DEFINE bad == {k \in 0 .. n : ~ Good(k)}
  <2> SUFFICES ASSUME bad # {} PROVE FALSE
    BY <1>1
  <2>1. PICK k \in bad : \A y \in bad : k <= y
    <3>1. bad \subseteq Nat
      OBVIOUS
    <3> HIDE DEF bad
    <3> QED
      BY <3>1, Least
  <2>2. Good(0)
    BY <1>5, PoolAssumption DEF Once, Has
  <2>3. k # 0
    BY <2>2
  <2>4. k \in 1 .. n /\ k - 1 \in 0 .. n /\ ~ (k <= k - 1)
    BY <1>1, <2>3
  <2>5. Good(k - 1)
    <3>1. k - 1 \notin bad
      BY <2>1, <2>4
    <3> QED
      BY <2>4, <3>1
  <2>6. Order[k] \in Timers /\ ~ \E i \in 1 .. k - 1 : Order[i] = Order[k]
    <3>1. Order \in Seq(Periodic)
          /\ \A i, j \in 1 .. n : Order[i] = Order[j] => i = j
      BY TimerAssumption
    <3>2. Order[k] \in Periodic
      BY <2>4, <3>1
    <3> QED
      BY <2>4, <3>1, <3>2 DEF Timers
  <2>7. ~ Has(s[k - 1], Order[k])
    BY <2>5, <2>6
  <2>8. s[k] = SysTimeout(s[k - 1], Order[k])
    BY <1>5, <2>4
  <2>9. /\ s[k] \in Seq(Entry) /\ Len(s[k]) <= POOL_SIZE /\ Once(s[k])
        /\ \A t \in Timers : Has(s[k], t) <=> Has(s[k - 1], t) \/ t = Order[k]
    BY <2>5, <2>6, <2>7, <2>8, AddTimer
  <2>10. ASSUME NEW t \in Timers
         PROVE  Has(s[k], t) <=> \E i \in 1 .. k : Order[i] = t
    <3>1. (\E i \in 1 .. k : Order[i] = t)
             <=> (\E i \in 1 .. k - 1 : Order[i] = t) \/ Order[k] = t
      BY <2>4
    <3> QED
      BY <2>5, <2>9, <3>1
  <2>11. ASSUME NEW i \in 1 .. Len(s[k])
         PROVE  Due(s[k], i) = Interval[s[k][i].timer]
    <3>1. Len(s[k - 1]) < POOL_SIZE
      BY <2>5, <2>6, <2>7, RoomForTimer
    <3>2. \/ s[k][i].timer = Order[k] /\ Due(s[k], i) = Interval[Order[k]]
          \/ \E j \in 1 .. Len(s[k - 1]) :
               /\ s[k][i].timer = s[k - 1][j].timer
               /\ Due(s[k], i) = Due(s[k - 1], j)
      <4>1. PICK l : l = s[k - 1]
        OBVIOUS
      <4>2. l \in Seq(Entry) /\ Len(l) < POOL_SIZE /\ s[k] = SysTimeout(l, Order[k])
        BY <2>5, <2>8, <3>1, <4>1
      <4> HIDE DEF s
      <4>3. \/ s[k][i].timer = Order[k] /\ Due(s[k], i) = Interval[Order[k]]
            \/ \E j \in 1 .. Len(l) :
                 s[k][i].timer = l[j].timer /\ Due(s[k], i) = Due(l, j)
        BY <2>6, <4>2, DueInsert
      <4> QED
        BY <4>1, <4>3
    <3> QED
      BY <2>5, <3>2
  <2>12. Good(k)
    BY <2>9, <2>10, <2>11
  <2> QED
    BY <2>12
<1>7. \A t : t \in Periodic <=> \E i \in 1 .. n : Order[i] = t
  BY TimerAssumption DEF Periodic, Range
<1> QED
  BY <1>4, <1>6, <1>7

-----------------------------------------------------------------------------
(* The thread serves a timer that it has taken off the list.               *)
Working == {"handler", "needed", "off"}

(* It is timer t.                                                          *)
Busy(t) == tpc \in Working /\ hand = t

(* What the thread has in hand.                                            *)
HandInv ==
  /\ tpc \in Working => hand \in Timers
  /\ tpc \in {"needed", "off"} => hand = Tcp
  /\ tpc = "serve" => hand \in Callers

(* ETHINT has marked the TCP timer and is about to start it.               *)
Coming(t) == t = Tcp /\ epc = "arm"

(* A timer that runs is in the list unless it is being served or about to  *)
(* be started, and no other timer is in any of these places.               *)
PlaceInv ==
  \A t \in Timers :
    /\ Has(next, t) <=> (t \in Periodic \/ active) /\ ~Busy(t) /\ ~Coming(t)
    /\ Busy(t) => (t \in Periodic \/ active) /\ ~Coming(t)
    /\ Coming(t) => active

(* What holds of the list.                                                 *)
ListInv == ListType /\ Once(next) /\ HandInv /\ PlaceInv

(* The inductive invariant of the list, until a clash: the claim of        *)
(* PlaceInv needs the types, for the room in the pool and for the times,   *)
(* and what is in hand.                                                    *)
TimerInv == TypeOK /\ ListInv

(* Nothing changes as long as the list, the mark, the timer in hand and    *)
(* the place of ETHINT do not.                                             *)
LEMMA ListKept ==
  ASSUME ListInv, UNCHANGED <<next, active, epc>>, HandInv',
         \A t \in Timers : Busy(t)' <=> Busy(t)
  PROVE  ListInv'
BY DEF ListInv, ListType, PlaceInv, Coming, Once, Has

(* tcp_timer_needed starts the TCP timer only when it is not marked, and   *)
(* then it is neither in the list nor being served.                        *)
LEMMA TimerNeededList ==
  ASSUME ListInv, TcpTimerNeeded, ~clash', epc' = epc, HandInv',
         \A t \in Timers : Busy(t)' <=> Busy(t)
  PROVE  ListInv'
<1>0. \A t \in Timers : ~Coming(t) /\ ~Coming(t)'
  BY DEF TcpTimerNeeded, Meets, Coming
<1>1. CASE active
  BY <1>1, ListKept DEF TcpTimerNeeded, Follow
<1>2. CASE ~active
  <2>1. active' = TRUE /\ next' = SysTimeout(next, Tcp)
    BY <1>2 DEF TcpTimerNeeded, Arm, Follow
  <2>2. Tcp \in Timers /\ Tcp \notin Periodic
    BY TimerAssumption DEF Timers
  <2>3. next \in Seq(Entry) /\ Once(next) /\ ~Has(next, Tcp) /\ ~Busy(Tcp)
    BY <1>2, <2>2 DEF ListInv, ListType, PlaceInv, Entry
  <2>4. /\ next' \in Seq(Entry) /\ Len(next') <= POOL_SIZE /\ Once(next')
        /\ \A t \in Timers : Has(next', t) <=> Has(next, t) \/ t = Tcp
    BY <2>1, <2>2, <2>3, AddTimer
  <2>5. ListType' /\ Once(next)'
    BY <2>4 DEF ListType, Entry, Once
  <2>6. ASSUME NEW t \in Timers
        PROVE  /\ Has(next', t) <=> (t \in Periodic \/ active') /\ ~Busy(t)'
               /\ Busy(t)' => t \in Periodic \/ active'
    BY <1>0, <1>2, <2>1, <2>3, <2>4 DEF ListInv, PlaceInv, Timers
  <2>7. PlaceInv'
    BY <1>0, <2>6 DEF PlaceInv, Has
  <2> QED
    BY <2>5, <2>7 DEF ListInv
<1> QED
  BY <1>1, <1>2

(* A timer that is being served starts itself again.                       *)
LEMMA ArmAgainList ==
  ASSUME ListInv, tpc \in Working, next' = SysTimeout(next, hand),
         epc # "arm", UNCHANGED <<active, epc>>, tpc' = "fetch"
  PROVE  ListInv'
<1>0. \A t \in Timers : ~Coming(t) /\ ~Coming(t)'
  BY DEF Coming
<1>1. hand \in Timers /\ Busy(hand)
  BY DEF ListInv, HandInv, Busy
<1>2. /\ next \in Seq(Entry) /\ Once(next) /\ ~Has(next, hand)
      /\ hand \in Periodic \/ active
  BY <1>1 DEF ListInv, ListType, PlaceInv, Entry
<1>3. /\ next' \in Seq(Entry) /\ Len(next') <= POOL_SIZE /\ Once(next')
      /\ \A t \in Timers : Has(next', t) <=> Has(next, t) \/ t = hand
  BY <1>1, <1>2, AddTimer
<1>4. ListType' /\ Once(next)'
  BY <1>3 DEF ListType, Entry, Once
<1>5. ASSUME NEW t \in Timers
      PROVE  Has(next', t) <=> (t \in Periodic \/ active')
  BY <1>0, <1>2, <1>3 DEF ListInv, PlaceInv, Busy
<1>6. PlaceInv' /\ HandInv'
  BY <1>0, <1>5 DEF PlaceInv, HandInv, Has, Busy, Working
<1> QED
  BY <1>4, <1>6 DEF ListInv

(* The first timer goes from the list to the hand of the thread.           *)
LEMMA PopTimeoutList ==
  ASSUME ListInv, PopTimeout, ~clash', tpc \notin Working
  PROVE  ListInv'
<1>0. \A t \in Timers : ~Coming(t) /\ ~Coming(t)'
  BY DEF PopTimeout, Meets, Coming
<1> DEFINE t0 == next[1].timer
<1>1. next \in Seq(Entry) /\ next # <<>> /\ Len(next) \in Nat /\ Len(next) > 0
  BY DEF ListInv, ListType, Entry, PopTimeout
<1>2. t0 \in Timers
  <2>1. next[1] \in Entry
    BY <1>1
  <2> QED
    BY <2>1 DEF Entry
<1>3. /\ next' = Tail(next) /\ hand' = t0 /\ tpc' = "handler" /\ active' = active
  BY DEF PopTimeout, Follow
<1>4. /\ next' \in Seq(Entry) /\ Len(next') = Len(next) - 1
      /\ \A i \in 1 .. Len(next) - 1 : next'[i] = next[i + 1]
  BY <1>1, <1>3
<1>5. ListType' /\ Once(next)'
  <2>1. Len(next) <= POOL_SIZE /\ Once(next)
    BY DEF ListInv, ListType
  <2>2. ListType'
    BY <1>1, <1>4, <2>1, PoolAssumption DEF ListType, Entry
  <2>3. ASSUME NEW i \in 1 .. Len(next'), NEW j \in 1 .. Len(next'),
               next'[i].timer = next'[j].timer
        PROVE  i = j
    <3>1. /\ i + 1 \in 1 .. Len(next) /\ j + 1 \in 1 .. Len(next)
          /\ next[i + 1].timer = next[j + 1].timer
      BY <1>1, <1>4, <2>3
    <3>2. i + 1 = j + 1
      BY <2>1, <3>1 DEF Once
    <3> QED
      BY <1>1, <1>4, <3>2
  <2> QED
    BY <2>2, <2>3 DEF Once
<1>6. \A t \in Timers : Has(next', t) <=> Has(next, t) /\ t # t0
  <2> TAKE t \in Timers
  <2>1. ASSUME Has(next', t) PROVE Has(next, t) /\ t # t0
    <3>1. PICK i \in 1 .. Len(next) - 1 : next'[i].timer = t
      BY <1>4, <2>1 DEF Has
    <3>2. i + 1 \in 1 .. Len(next) /\ next[i + 1].timer = t
      BY <1>1, <1>4, <3>1
    <3> QED
      BY <1>1, <3>2 DEF Has, ListInv, Once
  <2>2. ASSUME Has(next, t), t # t0 PROVE Has(next', t)
    <3>1. PICK i \in 1 .. Len(next) : next[i].timer = t
      BY <2>2 DEF Has
    <3>2. i - 1 \in 1 .. Len(next) - 1 /\ (i - 1) + 1 = i
      BY <1>1, <2>2, <3>1
    <3>3. next'[i - 1] = next[i]
      BY <1>4, <3>2
    <3> QED
      BY <1>4, <3>1, <3>2, <3>3 DEF Has
  <2> QED
    BY <2>1, <2>2
<1>7. Has(next, t0)
  BY <1>1 DEF Has
<1>8. ASSUME NEW t \in Timers
      PROVE  /\ Has(next', t) <=> (t \in Periodic \/ active') /\ ~Busy(t)'
             /\ Busy(t)' => t \in Periodic \/ active'
  BY <1>0, <1>2, <1>3, <1>6, <1>7 DEF ListInv, PlaceInv, Busy, Working
<1>9. PlaceInv' /\ HandInv'
  BY <1>0, <1>2, <1>3, <1>8 DEF PlaceInv, HandInv, Has, Working
<1> QED
  BY <1>5, <1>9 DEF ListInv

(* A message makes the first time shorter and leaves the timers alone.     *)
LEMMA ReceiveList == ASSUME TimerInv, Receive, ~clash' PROVE ListInv'
<1>1. /\ UNCHANGED <<active, epc>> /\ tpc = "waiting" /\ tpc' = "serve"
      /\ next' = IF timeout = 0 THEN next ELSE Nearer(next, TickElapsed)
  BY DEF Receive, Follow, listVars
<1>2. \A t \in Timers : ~Busy(t) /\ ~Busy(t)'
  BY <1>1 DEF Busy, Working
<1>3. HandInv'
  <2>1. hand' \in Callers
    BY DEF Receive, TimerInv, TypeOK, CallerType
  <2> QED
    BY <1>1, <2>1 DEF HandInv, Working
<1>4. CASE next' = next
  BY <1>1, <1>2, <1>3, <1>4, ListKept DEF TimerInv
<1>5. CASE next' # next
  <2>1. next \in Seq(Entry) /\ Len(next) \in Nat /\ next' = Nearer(next, TickElapsed)
    BY <1>1, <1>5 DEF TimerInv, ListInv, ListType, Entry
  <2>2. Len(next) > 0
    <3>1. ASSUME next = <<>> PROVE Nearer(next, TickElapsed) = next
      BY <3>1 DEF Nearer
    <3> QED
      BY <1>5, <2>1, <3>1
  <2>3. next[1] \in Entry
    BY <2>1, <2>2
  <2>4. TickElapsed \in Nat
    BY TickAssumption DEF TimerInv, TypeOK, ThreadType, TickElapsed
  <2> DEFINE e == [next[1] EXCEPT !.time =
                     IF TickElapsed < @ THEN @ - TickElapsed ELSE 0]
  <2>5. e \in Entry /\ e.timer = next[1].timer
    BY <2>3, <2>4 DEF Entry
  <2>6. next' = [next EXCEPT ![1] = e]
    BY <2>1, <2>2 DEF Nearer
  <2> HIDE DEF e
  <2>7. next' \in Seq(Entry) /\ Len(next') = Len(next)
        /\ \A i \in 1 .. Len(next) : next'[i].timer = next[i].timer
    BY <2>1, <2>2, <2>5, <2>6, ExceptSeq
  <2>8. ListType' /\ Once(next)'
    BY <2>7 DEF TimerInv, ListInv, ListType, Entry, Once
  <2>9. \A t \in Timers : Has(next', t) <=> Has(next, t)
    BY <2>7 DEF Has
  <2>10. PlaceInv'
    BY <1>1, <1>2, <2>9 DEF TimerInv, ListInv, PlaceInv, Coming, Has
  <2> QED
    BY <1>3, <2>8, <2>10 DEF ListInv
<1> QED
  BY <1>4, <1>5

(* A clash is never forgotten.                                             *)
LEMMA ClashStays == ASSUME [Next]_vars, ~clash' PROVE ~clash
<1> SUFFICES ASSUME clash PROVE FALSE
  OBVIOUS
<1>1. ASSUME UNCHANGED clash PROVE FALSE
  BY <1>1
<1>2. ASSUME Meets PROVE FALSE
  BY <1>2 DEF Meets
<1>3. CASE UNCHANGED vars
  BY <1>1, <1>3 DEF vars, timerVars, listVars
<1>4. ASSUME NEW c \in Callers,
             Call(c) \/ SysMboxPost(c) \/ SysArchSemWait(c) \/ EthComplete(c)
      PROVE  FALSE
  BY <1>1, <1>4 DEF Call, SysMboxPost, SysArchSemWait, EthComplete, timerVars, listVars
<1>5. CASE StartWait \/ Overdue \/ TimedOut
  BY <1>2, <1>5 DEF StartWait, Overdue, TimedOut, PopTimeout
<1>6. CASE Astray \/ TcpTmr \/ TcpTimerNotNeeded \/ TcpTimerOff
  BY <1>1, <1>6 DEF Astray, TcpTmr, TcpTimerNotNeeded, TcpTimerOff, timerVars, listVars
<1>7. CASE Receive \/ Serve
  BY <1>1, <1>2, <1>7 DEF Receive, Serve, TcpTimerNeeded, listVars
<1>8. CASE PeriodicTimer \/ TcpTimerAgain
  BY <1>2, <1>8 DEF PeriodicTimer, TcpTimerAgain
<1>9. CASE EthReg \/ EthArm \/ EthRemove \/ Tick
  BY <1>1, <1>9 DEF EthReg, EthArm, EthRemove, Tick, listVars
<1> QED
  BY <1>3, <1>4, <1>5, <1>6, <1>7, <1>8, <1>9 DEF Next, Thread

(* ETHINT starts the timer that it has marked.                             *)
LEMMA EthArmList == ASSUME ListInv, EthArm, ~clash' PROVE ListInv'
<1>1. /\ next' = SysTimeout(next, Tcp) /\ epc = "arm" /\ epc' = "idle"
      /\ UNCHANGED <<active, tpc, hand>>
  BY DEF EthArm, Arm, Follow, threadVars
<1>2. Tcp \in Timers /\ Tcp \notin Periodic /\ Coming(Tcp)
  BY <1>1, TimerAssumption DEF Timers, Coming
<1>3. next \in Seq(Entry) /\ Once(next) /\ ~Has(next, Tcp) /\ ~Busy(Tcp) /\ active
  BY <1>2 DEF ListInv, ListType, PlaceInv, Entry
<1>4. /\ next' \in Seq(Entry) /\ Len(next') <= POOL_SIZE /\ Once(next')
      /\ \A t \in Timers : Has(next', t) <=> Has(next, t) \/ t = Tcp
  BY <1>1, <1>2, <1>3, AddTimer
<1>5. ListType' /\ Once(next)'
  BY <1>4 DEF ListType, Entry, Once
<1>6. \A t \in Timers : (Busy(t)' <=> Busy(t)) /\ ~Coming(t)'
  BY <1>1 DEF Busy, Coming
<1>7. ASSUME NEW t \in Timers
      PROVE  /\ Has(next', t) <=> (t \in Periodic \/ active') /\ ~Busy(t)'
             /\ Busy(t)' => t \in Periodic \/ active'
  BY <1>1, <1>2, <1>3, <1>4, <1>6 DEF ListInv, PlaceInv, Coming
<1>8. PlaceInv'
  BY <1>6, <1>7 DEF PlaceInv, Has
<1>9. HandInv'
  BY <1>1 DEF ListInv, HandInv
<1> QED
  BY <1>5, <1>8, <1>9 DEF ListInv

(* ETHINT marks the TCP timer when it finds it neither in the list nor     *)
(* being served.                                                           *)
LEMMA EthRegList == ASSUME ListInv, EthReg PROVE ListInv'
<1>1. /\ UNCHANGED <<next, tpc, hand>> /\ active' = TRUE /\ epc = "idle"
      /\ epc' = IF active THEN "idle" ELSE "arm"
  BY DEF EthReg, threadVars, listVars
<1>2. Tcp \notin Periodic /\ \A t \in Timers : t # Tcp => t \in Periodic
  BY TimerAssumption DEF Timers
<1>3. \A t \in Timers : (Busy(t)' <=> Busy(t)) /\ ~Coming(t)
                        /\ (Coming(t)' <=> t = Tcp /\ ~active)
  BY <1>1 DEF Busy, Coming
<1>4. ASSUME NEW t \in Timers
      PROVE  /\ Has(next, t) <=> (t \in Periodic \/ active') /\ ~Busy(t)' /\ ~Coming(t)'
             /\ Busy(t)' => (t \in Periodic \/ active') /\ ~Coming(t)'
             /\ Coming(t)' => active'
  BY <1>1, <1>2, <1>3 DEF ListInv, PlaceInv
<1>5. PlaceInv'
  BY <1>1, <1>4 DEF PlaceInv, Has
<1> QED
  BY <1>1, <1>5 DEF ListInv, ListType, HandInv, Once

(* Every step that is no clash keeps the list.                             *)
LEMMA ListStep == ASSUME TimerInv, [Next]_vars, ~clash' PROVE ListInv'
<1>0. ~clash
  BY ClashStays
<1>1. ASSUME UNCHANGED <<next, active, epc>>,
             \/ UNCHANGED <<tpc, hand>>
             \/ tpc \notin Working /\ tpc' \notin Working \cup {"serve"}
      PROVE  ListInv'
  <2>1. (\A t \in Timers : Busy(t)' <=> Busy(t)) /\ HandInv'
    BY <1>1 DEF TimerInv, ListInv, HandInv, Busy, Working
  <2> QED
    BY <1>1, <2>1, ListKept DEF TimerInv
<1>2. CASE UNCHANGED vars
  BY <1>1, <1>2 DEF vars, timerVars, listVars, threadVars
<1>3. ASSUME NEW c \in Callers,
             Call(c) \/ SysMboxPost(c) \/ SysArchSemWait(c) \/ EthComplete(c)
      PROVE  ListInv'
  BY <1>1, <1>3 DEF Call, SysMboxPost, SysArchSemWait, EthComplete, timerVars,
     listVars, threadVars
<1>4. CASE StartWait
  BY <1>1, <1>4 DEF StartWait, Follow, Working
<1>5. CASE Overdue \/ TimedOut
  BY <1>5, PopTimeoutList DEF Overdue, TimedOut, Working, TimerInv
<1>6. CASE Receive
  BY <1>6, ReceiveList
<1>7. CASE Serve
  <2>1. tpc \notin Working /\ tpc' \notin Working \cup {"serve"} /\ epc' = epc
    BY <1>7 DEF Serve, Working
  <2>2. CASE UNCHANGED <<next, active>>
    BY <1>1, <2>1, <2>2
  <2>3. CASE TcpTimerNeeded
    <3>1. (\A t \in Timers : Busy(t)' <=> Busy(t)) /\ HandInv'
      BY <2>1 DEF HandInv, Busy, Working
    <3> QED
      BY <2>1, <2>3, <3>1, TimerNeededList DEF TimerInv
  <2> QED
    BY <1>7, <2>2, <2>3 DEF Serve, listVars
<1>8. CASE PeriodicTimer
  BY <1>8, ArmAgainList DEF PeriodicTimer, Arm, Follow, Meets, TimerInv, Working
<1>9. CASE TcpTmr \/ TcpTimerNotNeeded
  <2>1. tpc \in Working /\ tpc' \in Working /\ hand = Tcp
        /\ UNCHANGED <<hand, next, active, epc>>
    BY <1>9 DEF TcpTmr, TcpTimerNotNeeded, timerVars, listVars, Working, TimerInv,
       ListInv, HandInv
  <2>2. (\A t \in Timers : Busy(t)' <=> Busy(t)) /\ HandInv'
    BY <2>1 DEF HandInv, Busy, Timers, Working
  <2> QED
    BY <2>1, <2>2, ListKept DEF TimerInv
<1>10. CASE TcpTimerAgain
  <2>1. hand = Tcp
    BY <1>10 DEF TcpTimerAgain, TimerInv, ListInv, HandInv
  <2> QED
    BY <1>10, <2>1, ArmAgainList DEF TcpTimerAgain, Arm, Follow, Meets, TimerInv,
       Working
<1>11. CASE TcpTimerOff
  <2>1. hand = Tcp /\ tpc \in Working /\ tpc' = "fetch"
        /\ active' = FALSE /\ UNCHANGED <<next, epc>>
    BY <1>11 DEF TcpTimerOff, listVars, TimerInv, ListInv, HandInv, Working
  <2>2. ASSUME NEW t \in Timers
        PROVE  (Has(next, t) <=> t \in Periodic) /\ ~Coming(t) /\ ~Coming(t)'
    BY <2>1, TimerAssumption DEF TimerInv, ListInv, PlaceInv, Busy, Coming, Timers
  <2>3. PlaceInv' /\ HandInv'
    BY <2>1, <2>2 DEF PlaceInv, HandInv, Has, Busy, Working
  <2> QED
    BY <2>1, <2>3 DEF TimerInv, ListInv, ListType, Once
<1>12. CASE EthReg \/ EthArm
  BY <1>12, EthRegList, EthArmList DEF TimerInv
<1>13. CASE EthRemove \/ Tick
  BY <1>1, <1>13 DEF EthRemove, Tick, listVars, threadVars
<1>14. CASE Astray
  BY <1>0, <1>14 DEF Astray
<1> QED
  BY <1>2, <1>3, <1>4, <1>5, <1>6, <1>7, <1>8, <1>9, <1>10, <1>11, <1>12, <1>13, <1>14
     DEF Next, Thread

(* What holds whether or not there was a clash.                            *)
Typed == TypeOK /\ HandInv

(* What the thread has in hand is of the right kind, after a clash too.    *)
LEMMA HandStep == ASSUME Typed, [Next]_vars PROVE HandInv'
<1>1. CASE UNCHANGED <<tpc, hand>>
  BY <1>1 DEF Typed, HandInv, Working
<1>2. ASSUME tpc' \in {"fetch", "waiting"} PROVE HandInv'
  BY <1>2 DEF HandInv, Working
<1>3. CASE UNCHANGED vars
  BY <1>1, <1>3 DEF vars, threadVars
<1>4. ASSUME NEW c \in Callers,
             Call(c) \/ SysMboxPost(c) \/ SysArchSemWait(c) \/ EthComplete(c)
      PROVE  HandInv'
  BY <1>1, <1>4 DEF Call, SysMboxPost, SysArchSemWait, EthComplete, threadVars
<1>5. CASE StartWait \/ Serve \/ PeriodicTimer \/ TcpTimerAgain \/ TcpTimerOff
  BY <1>2, <1>5 DEF StartWait, Serve, PeriodicTimer, TcpTimerAgain, TcpTimerOff
<1>6. CASE Overdue \/ TimedOut
  <2>1. next \in Seq(Entry) /\ next # <<>>
    BY <1>6 DEF Typed, TypeOK, ListType, Entry, Overdue, TimedOut, PopTimeout
  <2>2. next[1] \in Entry
    BY <2>1
  <2>3. hand' \in Timers /\ tpc' = "handler"
    BY <1>6, <2>2 DEF Overdue, TimedOut, PopTimeout, Entry
  <2> QED
    BY <2>3 DEF HandInv, Working
<1>7. CASE Astray
  BY <1>7 DEF Astray, HandInv, Working
<1>8. CASE Receive
  <2>1. hand' \in Callers
    BY <1>8 DEF Receive, Typed, TypeOK, CallerType
  <2> QED
    BY <1>8, <2>1 DEF Receive, HandInv, Working
<1>9. CASE TcpTmr \/ TcpTimerNotNeeded
  BY <1>9 DEF TcpTmr, TcpTimerNotNeeded, Typed, HandInv, Working, Timers
<1>10. CASE EthReg \/ EthArm \/ EthRemove \/ Tick
  BY <1>1, <1>10 DEF EthReg, EthArm, EthRemove, Tick, threadVars
<1> QED
  BY <1>3, <1>4, <1>5, <1>6, <1>7, <1>8, <1>9, <1>10 DEF Next, Thread

(* After a clash nothing is in the list or in the histories.               *)
LEMMA ClashTypes ==
  ASSUME Typed, [Next]_vars, clash'
  PROVE  /\ ListType'
         /\ left' \in [Timers -> Int] /\ lag' \in [Timers -> Nat]
         /\ rough' \subseteq Timers
<1> DEFINE Fits == /\ ListType' /\ rough' \subseteq Timers
                   /\ left' \in [Timers -> Int] /\ lag' \in [Timers -> Nat]
<1>1. ASSUME UNCHANGED listVars PROVE Fits
  BY <1>1 DEF listVars, Typed, TypeOK, ListType, TimerType
<1>2. ASSUME NEW l, NEW ls, NEW lg, NEW rg, Follow(l, ls, lg, rg) PROVE Fits
  <2>1. /\ next' = <<>> /\ left' = [t \in Timers |-> 0]
        /\ lag' = [t \in Timers |-> 0] /\ rough' = {}
    BY <1>2 DEF Follow
  <2>2. ListType'
    BY <2>1, PoolAssumption DEF ListType
  <2> QED
    BY <2>1, <2>2
<1>3. ASSUME NEW t, NEW rg, Arm(t, rg) PROVE Fits
  BY <1>2, <1>3 DEF Arm
<1>4. CASE UNCHANGED vars
  BY <1>1, <1>4 DEF vars, timerVars
<1>5. ASSUME NEW c \in Callers,
             Call(c) \/ SysMboxPost(c) \/ SysArchSemWait(c) \/ EthComplete(c)
      PROVE  Fits
  BY <1>1, <1>5 DEF Call, SysMboxPost, SysArchSemWait, EthComplete, timerVars
<1>6. CASE StartWait \/ Overdue \/ TimedOut
  BY <1>2, <1>6 DEF StartWait, Overdue, TimedOut, PopTimeout
<1>7. CASE Astray \/ TcpTmr \/ TcpTimerNotNeeded \/ TcpTimerOff
  BY <1>1, <1>7 DEF Astray, TcpTmr, TcpTimerNotNeeded, TcpTimerOff, timerVars
<1>8. CASE Receive
  BY <1>1, <1>2, <1>8 DEF Receive
<1>9. CASE Serve
  BY <1>1, <1>2, <1>3, <1>9 DEF Serve, TcpTimerNeeded
<1>10. CASE PeriodicTimer \/ TcpTimerAgain \/ EthArm
  BY <1>3, <1>10 DEF PeriodicTimer, TcpTimerAgain, EthArm
<1>11. CASE EthReg \/ EthRemove
  BY <1>1, <1>11 DEF EthReg, EthRemove
<1>12. CASE Tick
  BY <1>12 DEF Tick
<1> QED
  BY <1>4, <1>5, <1>6, <1>7, <1>8, <1>9, <1>10, <1>11, <1>12 DEF Next, Thread

(* Without one, the histories follow the list.                             *)
LEMMA CalmTypes ==
  ASSUME Typed, [Next]_vars, ~clash'
  PROVE  /\ left' \in [Timers -> Int] /\ lag' \in [Timers -> Nat]
         /\ rough' \subseteq Timers
<1> DEFINE Fits == /\ left' \in [Timers -> Int] /\ lag' \in [Timers -> Nat]
                   /\ rough' \subseteq Timers
<1>1. /\ left \in [Timers -> Int] /\ lag \in [Timers -> Nat] /\ rough \subseteq Timers
  BY DEF Typed, TypeOK, TimerType
<1>2. ASSUME UNCHANGED <<left, lag, rough>> PROVE Fits
  BY <1>1, <1>2
<1>3. ASSUME NEW t \in Timers, NEW rg \in SUBSET Timers, Arm(t, rg) PROVE Fits
  <2>1. Interval[t] \in Nat
    BY TimerAssumption
  <2>2. /\ left' = [left EXCEPT ![t] = Interval[t]] /\ lag' = [lag EXCEPT ![t] = 0]
        /\ rough' = rg
    BY <1>3 DEF Arm, Follow
  <2> QED
    BY <1>1, <2>1, <2>2
<1>4. CASE UNCHANGED vars
  BY <1>2, <1>4 DEF vars, timerVars, listVars
<1>5. ASSUME NEW c \in Callers,
             Call(c) \/ SysMboxPost(c) \/ SysArchSemWait(c) \/ EthComplete(c)
      PROVE  Fits
  BY <1>2, <1>5 DEF Call, SysMboxPost, SysArchSemWait, EthComplete, timerVars, listVars
<1>6. CASE StartWait
  BY <1>2, <1>6 DEF StartWait, Follow
<1>7. CASE Overdue \/ TimedOut
  <2>1. /\ left' = [left EXCEPT ![hand'] = 0] /\ lag' = [lag EXCEPT ![hand'] = 0]
        /\ rough' = rough \ {hand'}
    BY <1>7 DEF Overdue, TimedOut, PopTimeout, Follow
  <2>2. hand' \in Timers
    BY <1>7, HandStep DEF HandInv, Working, Overdue, TimedOut, PopTimeout
  <2>3. PICK t \in Timers : t = hand'
    BY <2>2
  <2>4. left' = [left EXCEPT ![t] = 0] /\ lag' = [lag EXCEPT ![t] = 0]
    BY <2>1, <2>3
  <2>5. left' \in [Timers -> Int] /\ lag' \in [Timers -> Nat]
    BY <1>1, <2>4
  <2> QED
    BY <1>1, <2>1, <2>5
<1>8. CASE Astray \/ TcpTmr \/ TcpTimerNotNeeded \/ TcpTimerOff
  BY <1>2, <1>8 DEF Astray, TcpTmr, TcpTimerNotNeeded, TcpTimerOff, timerVars, listVars
<1>9. CASE Receive
  BY <1>2, <1>9 DEF Receive, Follow, listVars
<1>10. CASE Serve
  <2>1. CASE UNCHANGED listVars
    BY <1>2, <2>1 DEF listVars
  <2>2. CASE TcpTimerNeeded
    <3>1. Tcp \in Timers
      BY DEF Timers
    <3> QED
      BY <1>1, <1>2, <1>3, <2>2, <3>1 DEF TcpTimerNeeded, Follow
  <2> QED
    BY <1>10, <2>1, <2>2 DEF Serve
<1>11. CASE PeriodicTimer
  BY <1>1, <1>3, <1>11 DEF PeriodicTimer, Timers
<1>12. CASE TcpTimerAgain
  <2>1. Tcp \in Timers
    BY DEF Timers
  <2> QED
    BY <1>1, <1>3, <1>12, <2>1 DEF TcpTimerAgain
<1>13. CASE EthReg \/ EthRemove
  BY <1>2, <1>13 DEF EthReg, EthRemove, listVars
<1>14. CASE EthArm
  <2> DEFINE rg == IF tpc = "waiting" THEN {t \in Timers : InList(t)} \cup {Tcp} ELSE rough
  <2>1. Tcp \in Timers
    BY DEF Timers
  <2>2. rg \in SUBSET Timers
    BY <1>1, <2>1
  <2>3. Arm(Tcp, rg)
    BY <1>14 DEF EthArm
  <2> HIDE DEF rg
  <2> QED
    BY <1>3, <2>1, <2>2, <2>3
<1>15. CASE Tick
  BY <1>1, <1>15 DEF Tick
<1> QED
  BY <1>4, <1>5, <1>6, <1>7, <1>8, <1>9, <1>10, <1>11, <1>12, <1>13, <1>14, <1>15
     DEF Next, Thread

(* The types of the marks are kept.                                        *)
LEMMA MarksStep ==
  ASSUME Typed, [Next]_vars
  PROVE  active' \in BOOLEAN /\ pcbs' \in BOOLEAN /\ epc' \in {"idle", "arm"}
         /\ clash' \in BOOLEAN
<1> DEFINE Fits == /\ active' \in BOOLEAN /\ pcbs' \in BOOLEAN
                   /\ epc' \in {"idle", "arm"} /\ clash' \in BOOLEAN
<1>1. /\ active \in BOOLEAN /\ pcbs \in BOOLEAN
      /\ epc \in {"idle", "arm"} /\ clash \in BOOLEAN
  BY DEF Typed, TypeOK, TimerType
<1>2. CASE UNCHANGED vars
  BY <1>1, <1>2 DEF vars, timerVars, listVars
<1>3. ASSUME NEW c \in Callers,
             Call(c) \/ SysMboxPost(c) \/ SysArchSemWait(c) \/ EthComplete(c)
      PROVE  Fits
  BY <1>1, <1>3 DEF Call, SysMboxPost, SysArchSemWait, EthComplete, timerVars, listVars
<1>4. CASE StartWait \/ Overdue \/ TimedOut \/ PeriodicTimer \/ TcpTimerAgain
  BY <1>1, <1>4 DEF StartWait, Overdue, TimedOut, PopTimeout, PeriodicTimer,
     TcpTimerAgain, Meets
<1>5. CASE Astray \/ TcpTmr \/ TcpTimerNotNeeded \/ TcpTimerOff
  BY <1>1, <1>5 DEF Astray, TcpTmr, TcpTimerNotNeeded, TcpTimerOff, timerVars, listVars
<1>6. CASE Receive \/ Serve
  BY <1>1, <1>6 DEF Receive, Serve, TcpTimerNeeded, Meets, listVars
<1>7. CASE EthReg \/ EthArm \/ EthRemove \/ Tick
  BY <1>1, <1>7 DEF EthReg, EthArm, EthRemove, Tick, listVars
<1> QED
  BY <1>2, <1>3, <1>4, <1>5, <1>6, <1>7 DEF Next, Thread

(* The types of the mailbox and the callers are kept.                      *)
LEMMA CallerTypeStep == ASSUME Typed, [Next]_vars PROVE CallerType'
<1>1. ASSUME UNCHANGED callVars PROVE CallerType'
  BY <1>1 DEF callVars, Typed, TypeOK, CallerType
<1>2. CASE UNCHANGED vars
  BY <1>1, <1>2 DEF vars
<1>3. ASSUME NEW c \in Callers, Call(c) \/ SysArchSemWait(c) \/ EthComplete(c)
      PROVE  CallerType'
  BY <1>3 DEF Call, SysArchSemWait, EthComplete, Typed, TypeOK, CallerType
<1>4. ASSUME NEW c \in Callers, SysMboxPost(c) PROVE CallerType'
  BY <1>4, TickAssumption DEF SysMboxPost, Typed, TypeOK, CallerType
<1>5. CASE StartWait \/ Overdue \/ TimedOut \/ Astray \/ TcpTimerNotNeeded
  BY <1>1, <1>5 DEF StartWait, Overdue, TimedOut, PopTimeout, Astray, TcpTimerNotNeeded
<1>6. CASE PeriodicTimer \/ TcpTimerAgain \/ TcpTimerOff
  BY <1>1, <1>6 DEF PeriodicTimer, TcpTimerAgain, TcpTimerOff
<1>7. CASE EthReg \/ EthArm \/ EthRemove \/ Tick
  BY <1>1, <1>7 DEF EthReg, EthArm, EthRemove, Tick
<1>8. CASE Receive
  BY <1>8, TickAssumption DEF Receive, Typed, TypeOK, CallerType
<1>9. CASE Serve
  <2>1. hand \in Callers
    BY <1>9 DEF Serve, Typed, HandInv
  <2> QED
    BY <1>9, <2>1 DEF Serve, Typed, TypeOK, CallerType
<1>10. CASE TcpTmr
  BY <1>10 DEF TcpTmr, Typed, TypeOK, CallerType
<1> QED
  BY <1>2, <1>3, <1>4, <1>5, <1>6, <1>7, <1>8, <1>9, <1>10 DEF Next, Thread

(* The types of the thread and the tick count are kept.                    *)
LEMMA ThreadTypeStep == ASSUME Typed, [Next]_vars PROVE ThreadType'
<1> USE TickAssumption
<1>1. ASSUME UNCHANGED <<tick, threadVars>> PROVE ThreadType'
  BY <1>1 DEF threadVars, Typed, TypeOK, ThreadType
<1>2. CASE UNCHANGED vars
  BY <1>1, <1>2 DEF vars
<1>3. ASSUME NEW c \in Callers,
             Call(c) \/ SysMboxPost(c) \/ SysArchSemWait(c) \/ EthComplete(c)
      PROVE  ThreadType'
  BY <1>1, <1>3 DEF Call, SysMboxPost, SysArchSemWait, EthComplete
<1>4. CASE StartWait
  <2>1. next \in Seq(Entry)
    BY DEF Typed, TypeOK, ListType, Entry
  <2>2. next # <<>> => next[1] \in Entry
    BY <2>1
  <2>3. timeout' \in Nat
    BY <1>4, <2>2 DEF StartWait, Follow, Entry
  <2> QED
    BY <1>4, <2>3 DEF StartWait, Typed, TypeOK, ThreadType
<1>5. CASE Overdue \/ TimedOut
  <2>1. next \in Seq(Entry) /\ next # <<>>
    BY <1>5 DEF Typed, TypeOK, ListType, Entry, Overdue, TimedOut, PopTimeout
  <2>2. next[1] \in Entry
    BY <2>1
  <2>3. hand' \in Timers
    BY <1>5, <2>2 DEF Overdue, TimedOut, PopTimeout, Entry
  <2> QED
    BY <1>5, <2>3 DEF Overdue, TimedOut, PopTimeout, Typed, TypeOK, ThreadType
<1>6. CASE Receive
  <2>1. hand' \in Callers
    BY <1>6 DEF Receive, Typed, TypeOK, CallerType
  <2> QED
    BY <1>6, <2>1 DEF Receive, Typed, TypeOK, ThreadType
<1>7. CASE Serve \/ PeriodicTimer
  BY <1>7 DEF Serve, PeriodicTimer, Typed, TypeOK, ThreadType
<1>8. CASE TcpTmr \/ TcpTimerAgain \/ TcpTimerNotNeeded \/ TcpTimerOff
  <2>1. /\ UNCHANGED <<tick, timeout, tickStart, waited>>
        /\ \/ tpc' \in {"needed", "off"} /\ hand' = hand
           \/ tpc' = "fetch" /\ hand' = NoOne
    BY <1>8 DEF TcpTmr, TcpTimerAgain, TcpTimerNotNeeded, TcpTimerOff
  <2> QED
    BY <2>1 DEF Typed, TypeOK, ThreadType
<1>9. CASE EthReg \/ EthArm \/ EthRemove
  BY <1>1, <1>9 DEF EthReg, EthArm, EthRemove
<1>10. CASE Tick
  <2>1. tick' \in 0 .. MAX_DELAY /\ waited' \in 0 .. MAX_DELAY
    BY <1>10 DEF Tick, Typed, TypeOK, ThreadType
  <2> QED
    BY <1>10, <2>1 DEF Tick, Typed, TypeOK, ThreadType
<1>11. CASE Astray
  BY <1>11 DEF Astray, Typed, TypeOK, ThreadType
<1> QED
  BY <1>2, <1>3, <1>4, <1>5, <1>6, <1>7, <1>8, <1>9, <1>10, <1>11 DEF Next, Thread

(* It holds when the thread starts.                                        *)
LEMMA InitTimerInv == Init => TimerInv
<1> SUFFICES ASSUME Init PROVE TimerInv
  OBVIOUS
<1>1. /\ next = InitialList /\ next \in Seq(Entry) /\ Len(next) <= POOL_SIZE
      /\ Once(next) /\ \A t \in Timers : Has(next, t) <=> t \in Periodic
  BY InitialListIs DEF Init
<1>2. TypeOK
  <2>1. \A t \in Timers : Interval[t] \in Nat
    BY TimerAssumption
  <2>2. TimerType
    <3>1. left \in [Timers -> Int] /\ lag \in [Timers -> Nat]
      BY <2>1 DEF Init
    <3> QED
      BY <3>1 DEF Init, TimerType
  <2>3. ListType
    BY <1>1 DEF ListType, Entry
  <2>4. CallerType /\ ThreadType
    BY TickAssumption DEF Init, CallerType, ThreadType
  <2> QED
    BY <2>2, <2>3, <2>4 DEF TypeOK
<1>3. HandInv /\ PlaceInv
  BY <1>1 DEF Init, HandInv, PlaceInv, Busy, Coming, Working
<1> QED
  BY <1>1, <1>2, <1>3 DEF TimerInv, ListInv, TypeOK

(* The inductive invariant: the types always, the list until a clash.      *)
CalmInv == Typed /\ (~clash => TimerInv)

(* It holds in every behaviour.                                            *)
LEMMA CalmInvIsInvariant == Spec => []CalmInv
<1>1. CalmInv /\ [Next]_vars => CalmInv'
  <2> SUFFICES ASSUME CalmInv, [Next]_vars PROVE CalmInv'
    OBVIOUS
  <2>1. Typed
    BY DEF CalmInv
  <2>2. HandInv' /\ CallerType' /\ ThreadType'
    BY <2>1, HandStep, CallerTypeStep, ThreadTypeStep
  <2>3. ~clash' => ListInv'
    BY ListStep, ClashStays DEF CalmInv
  <2>4. ListType'
    BY <2>1, <2>3, ClashTypes DEF ListInv
  <2>5. TimerType'
    BY <2>1, ClashTypes, CalmTypes, MarksStep DEF TimerType
  <2> QED
    BY <2>2, <2>3, <2>4, <2>5 DEF CalmInv, Typed, TimerInv, TypeOK
<1>2. Init => CalmInv
  BY InitTimerInv DEF CalmInv, Typed, TimerInv, ListInv
<1> QED
  BY <1>1, <1>2, PTL DEF Spec

(* Until the thread and ETHINT meet in the list, which nothing locks, no   *)
(* timer of lwIP is lost or started twice and the pool of                  *)
(* MEMP_NUM_SYS_TIMEOUT elements does not run dry, wherever else ETHINT    *)
(* starts the TCP timer: for any number of timers, any intervals, and any  *)
(* pool that has an element for each.                                      *)
THEOREM TimersAreKept == Spec => []TimersKept
<1>1. CalmInv => TimersKept
  <2> SUFFICES ASSUME TimerInv, NEW t \in Timers
               PROVE  Cardinality({i \in 1 .. Len(next) : next[i].timer = t})
                        + (IF tpc \in Working /\ hand = t THEN 1 ELSE 0)
                        + (IF epc = "arm" /\ t = Tcp THEN 1 ELSE 0)
                      = (IF t \in Periodic \/ active THEN 1 ELSE 0)
    BY DEF TimersKept, CalmInv, Typed, Working
  <2> DEFINE places == {i \in 1 .. Len(next) : next[i].timer = t}
  <2>1. Cardinality(places) = IF Has(next, t) THEN 1 ELSE 0
    <3>1. CASE Has(next, t)
      <4>1. PICK i \in 1 .. Len(next) : next[i].timer = t
        BY <3>1 DEF Has
      <4>2. places = {i}
        BY <4>1 DEF TimerInv, ListInv, Once
      <4>3. Cardinality({i}) = 1
        BY FS_Singleton
      <4> QED
        BY <3>1, <4>2, <4>3
    <3>2. CASE ~Has(next, t)
      <4>1. places = {}
        BY <3>2 DEF Has
      <4>2. Cardinality({}) = 0
        BY FS_EmptySet
      <4> QED
        BY <3>2, <4>1, <4>2
    <3> QED
      BY <3>1, <3>2
  <2>2. /\ Has(next, t) <=> (t \in Periodic \/ active) /\ ~Busy(t) /\ ~Coming(t)
        /\ Busy(t) => (t \in Periodic \/ active) /\ ~Coming(t)
        /\ Coming(t) => active
    BY DEF TimerInv, ListInv, PlaceInv
  <2> HIDE DEF places
  <2>3. Cardinality(places) + (IF Busy(t) THEN 1 ELSE 0) + (IF Coming(t) THEN 1 ELSE 0)
          = IF t \in Periodic \/ active THEN 1 ELSE 0
    BY <2>1, <2>2
  <2> QED
    BY <2>3 DEF places, Busy, Coming
<1> QED
  BY <1>1, CalmInvIsInvariant, PTL

-----------------------------------------------------------------------------
(* The steps that may change the pcbs or the mark of the timer.            *)
LEMMA TimerSteps ==
  ASSUME Next, ~ UNCHANGED <<pcbs, active>>
  PROVE  Serve \/ TcpTmr \/ TcpTimerOff \/ EthReg \/ EthRemove
<1>1. ASSUME NEW c \in Callers,
             Call(c) \/ SysMboxPost(c) \/ SysArchSemWait(c) \/ EthComplete(c)
      PROVE  FALSE
  BY <1>1 DEF Call, SysMboxPost, SysArchSemWait, EthComplete, timerVars
<1>2. ASSUME StartWait \/ Overdue \/ TimedOut \/ Astray \/ Receive PROVE FALSE
  BY <1>2 DEF StartWait, Overdue, TimedOut, PopTimeout, Astray, Receive, timerVars
<1>3. ASSUME PeriodicTimer \/ TcpTimerAgain \/ TcpTimerNotNeeded PROVE FALSE
  BY <1>3 DEF PeriodicTimer, TcpTimerAgain, TcpTimerNotNeeded, timerVars
<1>4. ASSUME EthArm \/ Tick PROVE FALSE
  BY <1>4 DEF EthArm, Tick
<1> QED
  BY <1>1, <1>2, <1>3, <1>4 DEF Next, Thread

(* The one step that leaves pcbs without a running timer is the last one   *)
(* of tcpip_tcp_timer, when ETHINT has registered a pcb between its test   *)
(* and its assignment: whatever the callers, the timers and the sizes, no  *)
(* other step of the thread, of a caller or of ETHINT does.                *)
THEOREM TimerStopsInOnePlace == Spec => TcpTimerRuns
<1> DEFINE Kept == pcbs' /\ ~active' => (pcbs /\ ~active) \/ (tpc = "off" /\ pcbs)
<1>1. ASSUME Next PROVE Kept
  <2>1. CASE UNCHANGED <<pcbs, active>>
    BY <2>1
  <2>2. CASE Serve
    BY <2>2 DEF Serve, TcpTimerNeeded
  <2>3. CASE TcpTmr
    BY <2>3 DEF TcpTmr
  <2>4. CASE TcpTimerOff
    BY <2>4 DEF TcpTimerOff
  <2>5. CASE EthReg
    BY <2>5 DEF EthReg
  <2>6. CASE EthRemove
    BY <2>6 DEF EthRemove
  <2> QED
    BY <1>1, <2>1, <2>2, <2>3, <2>4, <2>5, <2>6, TimerSteps
<1>2. [Next]_vars => [Kept]_vars
  BY <1>1
<1> QED
  BY <1>2, PTL DEF Spec, TcpTimerRuns

-----------------------------------------------------------------------------
(* The times in the list.                                                  *)

(* Two lists that agree behind their first entries differ there by a       *)
(* constant.                                                               *)
LEMMA DueShift ==
  ASSUME NEW l \in Seq(Entry), NEW m \in Seq(Entry), NEW s \in {0, 1},
         NEW x \in Int, Len(m) + s = Len(l), Len(m) > 0,
         Due(m, 1) = Due(l, 1 + s) - x,
         \A i \in 2 .. Len(m) : m[i] = l[i + s]
  PROVE  \A i \in 1 .. Len(m) : Due(m, i) = Due(l, i + s) - x
<1> DEFINE bad == {i \in 1 .. Len(m) : ~ (Due(m, i) = Due(l, i + s) - x)}
<1> SUFFICES ASSUME bad # {} PROVE FALSE
  OBVIOUS
<1>1. PICK i \in bad : \A y \in bad : i <= y
  <2>1. bad \subseteq Nat
    OBVIOUS
  <2> HIDE DEF bad
  <2> QED
    BY <2>1, Least
<1>2. i # 1
  OBVIOUS
<1>3. i \in 2 .. Len(m) /\ i - 1 \in 1 .. Len(m) /\ ~ (i <= i - 1)
  BY <1>2
<1>4. Due(m, i - 1) = Due(l, (i - 1) + s) - x
  <2>1. i - 1 \notin bad
    BY <1>1, <1>3
  <2> QED
    BY <1>3, <2>1
<1>5. Due(m, i) = Due(m, i - 1) + m[i].time
  BY <1>3, DueIs
<1>6. i + s \in 1 .. Len(l) /\ (i + s) - 1 = (i - 1) + s /\ (i + s) - 1 \in 0 .. Len(l)
  BY <1>3
<1>7. Due(l, i + s) = Due(l, (i - 1) + s) + l[i + s].time
  <2>1. Due(l, i + s) = Due(l, (i + s) - 1) + l[i + s].time
    BY <1>6, DueIs
  <2> QED
    BY <1>6, <2>1
<1>8. m[i].time = l[i + s].time /\ l[i + s].time \in Nat /\ Due(l, (i - 1) + s) \in Nat
  <2>1. l[i + s] \in Entry
    BY <1>6
  <2> QED
    BY <1>3, <1>6, <2>1, DueIs DEF Entry
<1>9. Due(m, i) = Due(l, i + s) - x
  BY SMTT(30), <1>4, <1>5, <1>7, <1>8
<1> QED
  BY <1>9

(* Without its first entry, a list counts from where that one was due.     *)
LEMMA DueTail ==
  ASSUME NEW l \in Seq(Entry), l # <<>>
  PROVE  \A i \in 1 .. Len(Tail(l)) :
           /\ i + 1 \in 1 .. Len(l) /\ Tail(l)[i].timer = l[i + 1].timer
           /\ Due(Tail(l), i) = Due(l, i + 1) - l[1].time
<1> DEFINE m == Tail(l)
<1>1. m \in Seq(Entry) /\ Len(m) = Len(l) - 1 /\ Len(l) \in Nat
      /\ \A i \in 1 .. Len(m) : m[i] = l[i + 1]
  OBVIOUS
<1> HIDE DEF m
<1>2. ASSUME Len(m) > 0 PROVE Due(m, 1) = Due(l, 1 + 1) - l[1].time
  <2>1. m # <<>> /\ 2 \in 1 .. Len(l) /\ m[1] = l[2]
    BY <1>1, <1>2
  <2>2. Due(m, 1) = m[1].time /\ m[1].time \in Nat
    BY <1>1, <2>1, DueFirst
  <2>3. Due(l, 1) = l[1].time /\ l[1].time \in Nat
    BY DueFirst
  <2>4. Due(l, 2) = Due(l, 2 - 1) + l[2].time
    BY <2>1, DueIs
  <2> QED
    BY <2>1, <2>2, <2>3, <2>4
<1>3. l[1].time \in Int
  BY DueFirst
<1>4. \A i \in 2 .. Len(m) : m[i] = l[i + 1]
  BY <1>1
<1>5. ASSUME Len(m) > 0
      PROVE  \A i \in 1 .. Len(m) : Due(m, i) = Due(l, i + 1) - l[1].time
  <2>1. 1 \in {0, 1} /\ Len(m) + 1 = Len(l)
    BY <1>1
  <2> QED
    BY <1>1, <1>2, <1>3, <1>4, <1>5, <2>1, DueShift
<1>6. \A i \in 1 .. Len(m) : i + 1 \in 1 .. Len(l) /\ m[i].timer = l[i + 1].timer
                             /\ Len(m) > 0
  BY <1>1
<1> QED
  BY <1>5, <1>6 DEF m

(* A shorter first time takes all entries nearer by the same amount.       *)
LEMMA DueNearer ==
  ASSUME NEW l \in Seq(Entry), l # <<>>, NEW e \in Entry
  PROVE  LET m == [l EXCEPT ![1] = e]
         IN  \A i \in 1 .. Len(l) : Due(m, i) = Due(l, i) - (l[1].time - e.time)
<1> DEFINE m == [l EXCEPT ![1] = e]
<1>1. 1 \in 1 .. Len(l) /\ Len(l) \in Nat
  OBVIOUS
<1>2. m \in Seq(Entry) /\ Len(m) = Len(l)
      /\ \A j \in 1 .. Len(l) : m[j] = IF j = 1 THEN e ELSE l[j]
  BY <1>1, ExceptSeq
<1> HIDE DEF m
<1>3. m # <<>>
  BY <1>1, <1>2
<1>4. Due(m, 1) = e.time /\ e.time \in Nat /\ Due(l, 1) = l[1].time /\ l[1].time \in Nat
  BY <1>1, <1>2, <1>3, DueFirst DEF Entry
<1>5. Due(m, 1) = Due(l, 1 + 0) - (l[1].time - e.time)
  BY <1>4
<1>6. l[1].time - e.time \in Int /\ Len(m) + 0 = Len(l) /\ Len(m) > 0
      /\ \A i \in 2 .. Len(m) : m[i] = l[i + 0]
  BY <1>1, <1>2, <1>4
<1>7. \A i \in 1 .. Len(m) : Due(m, i) = Due(l, i + 0) - (l[1].time - e.time)
  BY <1>2, <1>5, <1>6, DueShift
<1>8. \A i \in 1 .. Len(l) : i + 0 = i
  OBVIOUS
<1> QED
  BY <1>2, <1>7, <1>8 DEF m

(* The ticks of the current wait.                                          *)
Gone == IF tpc = "waiting" THEN waited ELSE 0

(* The ticks that the list will have counted when the wait ends.           *)
Counted ==
  IF tpc = "waiting"
  THEN IF TickElapsed < timeout THEN TickElapsed ELSE timeout
  ELSE 0

(* Timer t, d ticks from the front of the list, cannot be served before it *)
(* is due.  Of the TCP timer this is false when ETHINT has started it in a *)
(* wait: the list then counts from the begin of that wait.                 *)
NotEarly(t, d) ==
  ~(t = Tcp /\ t \in rough) => left[t] <= LateBound \/ left[t] <= d - Gone

(* What the list has not counted of the life of timer t is in its lag, and *)
(* the lag grows beyond MaxLag only by a wrap-around of the tick count, of *)
(* which an interval meets no more than two.                               *)
Accounted(t, d) ==
  /\ d - Counted <= left[t] + lag[t]
  /\ left[t] <= Interval[t]
  /\ lag[t] <= MaxLag + 2
  /\ lag[t] > MaxLag => Interval[t] - left[t] >= tick
  /\ lag[t] > MaxLag + 1 => Interval[t] - left[t] >= MAX_DELAY + 1 + tick

(* The tick count n ticks after 0.                                         *)
Around(n) == IF n <= MAX_DELAY THEN n ELSE n - MAX_DELAY - 1

(* The wait is for the first entry of the list, ends at the latest MaxLag  *)
(* ticks after its time, and the tick count has wrapped at most once since *)
(* it began.                                                               *)
Awaited(t) ==
  /\ timeout > 0 /\ next[1].time = timeout
  /\ waited <= timeout + MaxLag /\ waited - timeout <= lag[t]
  /\ tick = Around(tickStart + waited)

(* Timer t, d ticks from the front of the list, will be served in time.    *)
InTime(t, d) ==
  /\ d <= Interval[t] /\ NotEarly(t, d)
  /\ t \notin rough => Accounted(t, d) /\ (tpc = "waiting" => Awaited(t))

(* A wait with a limit of time is long enough for the first entry.  It may *)
(* be longer: ETHINT may have put a new entry in front.                    *)
WaitInv ==
  tpc = "waiting" =>
    /\ timeout > 0 => next # <<>> /\ next[1].time <= timeout
    /\ waited < MAX_DELAY => tick = Around(tickStart + waited)

(* The inductive invariant of the times.                                   *)
TimeInv == WaitInv /\ \A k \in 1 .. Len(next) : InTime(next[k].timer, Due(next, k))

(* What the types say of entry k.                                          *)
LEMMA EntryFacts ==
  ASSUME TimerInv, NEW k \in 1 .. Len(next)
  PROVE  /\ next[k].timer \in Timers /\ InList(next[k].timer)
         /\ left[next[k].timer] \in Int /\ lag[next[k].timer] \in Nat
         /\ Interval[next[k].timer] \in Nat /\ Due(next, k) \in Nat
         /\ Interval[next[k].timer] + MaxLag <= MAX_DELAY
         /\ MaxLag \in Nat /\ MAX_DELAY \in Nat /\ MAX_DELAY > 1
         /\ Due(next, 1) = next[1].time /\ next[1].time \in Nat
         /\ next[1].time <= Due(next, k) /\ 1 \in 1 .. Len(next)
<1>1. next \in Seq(Entry) /\ Len(next) \in Nat /\ next # <<>>
  BY DEF TimerInv, TypeOK, ListType, Entry
<1>2. next[k] \in Entry
  BY <1>1
<1>3. next[k].timer \in Timers /\ InList(next[k].timer)
  BY <1>2 DEF Entry, InList
<1>4. left[next[k].timer] \in Int /\ lag[next[k].timer] \in Nat
  BY <1>3 DEF TimerInv, TypeOK, TimerType
<1>5. /\ Interval[next[k].timer] \in Nat /\ Interval[next[k].timer] + MaxLag <= MAX_DELAY
      /\ MaxLag \in Nat /\ MAX_DELAY \in Nat /\ MAX_DELAY > 1
  BY <1>3, TimerAssumption, TickAssumption
<1>6. Due(next, k) \in Nat
  BY <1>1, DueIs
<1>7. Due(next, 1) = next[1].time /\ next[1].time \in Nat /\ 1 \in 1 .. Len(next)
  BY <1>1, DueFirst
<1>8. Due(next, 1) <= Due(next, k)
  <2>1. 1 \in 0 .. Len(next) /\ k \in 1 .. Len(next)
    BY <1>1
  <2> QED
    BY <1>1, <2>1, DueGrows
<1> QED
  BY <1>3, <1>4, <1>5, <1>6, <1>7, <1>8

(* Nothing changes as long as the list, the clocks and the wait do not.    *)
LEMMA TimeKept ==
  ASSUME TimeInv, UNCHANGED <<tick, next, left, lag, rough>>,
         tpc = "waiting" <=> tpc' = "waiting",
         tpc = "waiting" => UNCHANGED <<timeout, tickStart, waited>>
  PROVE  TimeInv'
<1>1. WaitInv'
  BY DEF TimeInv, WaitInv, Around
<1>2. Gone' = Gone /\ Counted' = Counted
  BY DEF Gone, Counted, TickElapsed
<1>3. ASSUME NEW k \in 1 .. Len(next) PROVE InTime(next[k].timer, Due(next, k))'
  BY <1>2 DEF TimeInv, InTime, NotEarly, Accounted, Awaited, Around
<1> QED
  BY <1>1, <1>3 DEF TimeInv

(* A new wait has counted nothing yet.                                     *)
LEMMA StartWaitTime ==
  ASSUME TimerInv, TimeInv, StartWait, ~clash' PROVE TimeInv'
<1>1. /\ tpc = "fetch" /\ tpc' = "waiting" /\ waited' = 0 /\ tickStart' = tick
      /\ UNCHANGED <<tick, next, left, lag, rough>>
      /\ next # <<>> => next[1].time > 0 /\ timeout' = next[1].time
  BY DEF StartWait, Follow
<1>2. tick \in 0 .. MAX_DELAY
  BY DEF TimerInv, TypeOK, ThreadType
<1>3. ASSUME NEW k \in 1 .. Len(next) PROVE InTime(next[k].timer, Due(next, k))'
  <2>1. next # <<>> /\ timeout' = next[1].time /\ timeout' > 0 /\ timeout' \in Nat
    BY <1>1, EntryFacts
  <2>2. Gone = 0 /\ Gone' = 0 /\ Counted = 0
    BY <1>1 DEF Gone, Counted
  <2>3. TickElapsed' = 0
    BY <1>1, <1>2 DEF TickElapsed
  <2>4. Counted' = 0
    BY <1>1, <2>1, <2>3 DEF Counted
  <2>5. Awaited(next[k].timer)'
    BY SMTT(30), <1>1, <1>2, <2>1, EntryFacts DEF Awaited, Around
  <2>6. InTime(next[k].timer, Due(next, k))
    BY DEF TimeInv
  <2> QED
    BY <1>1, <2>2, <2>4, <2>5, <2>6 DEF InTime, NotEarly, Accounted
<1>4. WaitInv'
  <2>1. next = <<>> => timeout' = 0
    BY DEF StartWait, Follow
  <2>2. next # <<>> => next[1].time \in Nat
    BY DueFirst DEF TimerInv, TypeOK, ListType, Entry
  <2> QED
    BY <1>1, <1>2, <2>1, <2>2 DEF WaitInv, Around
<1> QED
  BY <1>1, <1>3, <1>4 DEF TimeInv

(* The timer that leaves the list is in time, and the others count from    *)
(* there.                                                                  *)
LEMMA PopTimeoutTime ==
  ASSUME TimerInv, TimeInv, PopTimeout, ~clash',
         \/ tpc # "waiting" /\ next[1].time = 0
         \/ tpc = "waiting" /\ timeout > 0 /\ waited >= timeout
  PROVE  /\ TimeInv'
         /\ ~(next[1].timer = Tcp /\ next[1].timer \in rough)
              => left[next[1].timer] <= 0
         /\ next[1].timer \notin rough
              => -left[next[1].timer] <= lag[next[1].timer]
<1> DEFINE t0 == next[1].timer
<1>1. next \in Seq(Entry) /\ next # <<>> /\ Len(next) \in Nat /\ 1 \in 1 .. Len(next)
  BY DEF TimerInv, TypeOK, ListType, Entry, PopTimeout
<1>2. /\ next' = Tail(next) /\ rough' = rough \ {t0} /\ tpc' = "handler"
      /\ left' = [left EXCEPT ![t0] = 0] /\ lag' = [lag EXCEPT ![t0] = 0]
      /\ tick' = tick
  BY DEF PopTimeout, Follow
<1>3. next[1].time \in Nat /\ Due(next, 1) = next[1].time
  BY <1>1, DueFirst
<1>4. timeout \in Nat /\ waited \in Nat /\ tick \in Nat /\ tickStart \in 0 .. MAX_DELAY
      /\ tick <= MAX_DELAY /\ MAX_DELAY \in Nat /\ MaxLag \in Nat
  BY TickAssumption DEF TimerInv, TypeOK, ThreadType
<1>5. Gone \in Nat /\ next[1].time <= Gone
  BY <1>3, <1>4, <1>1 DEF Gone, TimeInv, WaitInv
<1>6. ASSUME NEW k \in 1 .. Len(next), next[k].timer \notin rough
      PROVE  Counted \in Nat /\ Counted <= next[1].time
  <2>1. CASE tpc # "waiting"
    BY <1>3, <2>1 DEF Counted
  <2>2. CASE tpc = "waiting"
    <3>1. next[1].time = timeout
      BY <1>6, <2>2 DEF TimeInv, InTime, Awaited
    <3>2. TickElapsed \in Nat
      BY <1>4 DEF TickElapsed
    <3> QED
      BY <1>4, <2>2, <3>1, <3>2 DEF Counted
  <2> QED
    BY <2>1, <2>2
<1>7. ASSUME ~(t0 = Tcp /\ t0 \in rough) PROVE left[t0] <= 0
  <2>1. left[t0] \in Int /\ LateBound \in Int /\ LateBound <= 0
    BY <1>1, <1>4, EntryFacts DEF LateBound
  <2>2. NotEarly(t0, Due(next, 1))
    BY <1>1 DEF TimeInv, InTime
  <2> QED
    BY <1>3, <1>5, <1>7, <2>1, <2>2 DEF NotEarly
<1>8. ASSUME t0 \notin rough PROVE -left[t0] <= lag[t0]
  <2>1. left[t0] \in Int /\ lag[t0] \in Nat
    BY <1>1, EntryFacts
  <2>2. Accounted(t0, Due(next, 1))
    BY <1>1, <1>8 DEF TimeInv, InTime
  <2>3. Counted \in Nat /\ Counted <= next[1].time
    BY <1>1, <1>6, <1>8
  <2> QED
    BY <1>3, <2>1, <2>2, <2>3 DEF Accounted
<1>9. ASSUME NEW k \in 1 .. Len(next')
      PROVE  InTime(next[k].timer, Due(next, k))'
  <2> DEFINE t == next[k + 1].timer
             d == Due(next, k + 1)
  <2>1. k + 1 \in 1 .. Len(next) /\ next'[k].timer = t /\ Due(next', k) = d - next[1].time
    BY <1>1, <1>2, DueTail
  <2>2. t # t0
    <3>1. k + 1 # 1
      BY <2>1
    <3> QED
      BY <1>1, <2>1, <3>1 DEF TimerInv, ListInv, Once
  <2>3. t \in Timers /\ left[t] \in Int /\ lag[t] \in Nat /\ Interval[t] \in Nat /\ d \in Nat
    BY <2>1, EntryFacts
  <2>4. left'[t] = left[t] /\ lag'[t] = lag[t] /\ (t \in rough' <=> t \in rough)
    BY <1>2, <2>2, <2>3 DEF TimerInv, TypeOK, TimerType
  <2>5. InTime(t, d)
    BY <2>1 DEF TimeInv
  <2>6. Gone' = 0 /\ Counted' = 0 /\ tpc' # "waiting"
    BY <1>2 DEF Gone, Counted
  <2> HIDE DEF t, d
  <2>7. d - next[1].time <= Interval[t]
    BY <1>3, <2>3, <2>5 DEF InTime
  <2>8. ~(t = Tcp /\ t \in rough) =>
          left[t] <= LateBound \/ left[t] <= (d - next[1].time) - 0
    BY <1>3, <1>5, <2>3, <2>5 DEF InTime, NotEarly
  <2>9. ASSUME t \notin rough
        PROVE  /\ Accounted(t, d)
               /\ (d - next[1].time) - 0 <= left[t] + lag[t]
    <3>1. Accounted(t, d)
      BY <2>5, <2>9 DEF InTime
    <3>2. Counted \in Nat /\ Counted <= next[1].time
      BY <1>6, <2>1, <2>9 DEF t
    <3> QED
      BY SMTT(30), <1>3, <2>3, <3>1, <3>2 DEF Accounted
  <2> QED
    BY <1>2, <2>1, <2>4, <2>6, <2>7, <2>8, <2>9
       DEF InTime, NotEarly, Accounted, LateBound
<1> QED
  BY <1>2, <1>7, <1>8, <1>9 DEF TimeInv, WaitInv

(* A message ends the wait: the ticks that it has counted go off the first *)
(* time.  If ETHINT has put a shorter one in front, the rest is lost, but  *)
(* those timers are marked.                                                *)
LEMMA ReceiveTime ==
  ASSUME TimerInv, TimeInv, Receive, ~clash' PROVE TimeInv'
<1>1. /\ tpc = "waiting" /\ tpc' = "serve" /\ UNCHANGED <<tick, left, lag, rough>>
      /\ next' = IF timeout = 0 THEN next ELSE Nearer(next, TickElapsed)
  BY DEF Receive, Follow, listVars
<1>2. /\ timeout \in Nat /\ waited \in 0 .. MAX_DELAY /\ tick \in 0 .. MAX_DELAY
      /\ tickStart \in 0 .. MAX_DELAY /\ MAX_DELAY \in Nat
      /\ next \in Seq(Entry) /\ MaxLag \in Nat
  BY TickAssumption DEF TimerInv, TypeOK, ThreadType, ListType, Entry
<1>3. Gone = waited /\ Gone' = 0 /\ Counted' = 0 /\ WaitInv'
  BY <1>1 DEF Gone, Counted, WaitInv
<1>4. TickElapsed \in Nat
  BY <1>2 DEF TickElapsed
<1>5. CASE timeout = 0 \/ next = <<>>
  <2>1. next' = next
    BY <1>1, <1>5 DEF Nearer
  <2>2. ASSUME NEW k \in 1 .. Len(next) PROVE InTime(next[k].timer, Due(next, k))'
    <3>1. InTime(next[k].timer, Due(next, k))
      BY DEF TimeInv
    <3>2. next[k].timer \in rough
      BY <1>1, <1>2, <1>5, <3>1 DEF InTime, Awaited
    <3>3. left[next[k].timer] \in Int /\ Due(next, k) \in Nat
      BY EntryFacts
    <3> QED
      BY <1>1, <1>2, <1>3, <2>1, <3>1, <3>2, <3>3 DEF InTime, NotEarly, LateBound
  <2> QED
    BY <1>3, <2>1, <2>2 DEF TimeInv
<1>6. CASE timeout > 0 /\ next # <<>>
  <2> DEFINE e == [next[1] EXCEPT !.time =
                     IF TickElapsed < @ THEN @ - TickElapsed ELSE 0]
             x == IF TickElapsed < next[1].time THEN TickElapsed ELSE next[1].time
  <2>1. next[1] \in Entry /\ next[1].time \in Nat /\ 1 \in 1 .. Len(next)
    <3>1. 1 \in 1 .. Len(next)
      BY <1>2, <1>6
    <3>2. next[1] \in Entry
      BY <1>2, <3>1
    <3> QED
      BY <3>1, <3>2 DEF Entry
  <2>2. e \in Entry /\ e.timer = next[1].timer /\ next[1].time - e.time = x
    BY <1>4, <2>1 DEF Entry
  <2>3. next' = [next EXCEPT ![1] = e]
    BY <1>1, <1>2, <1>6, <2>1 DEF Nearer
  <2>4. x \in Nat /\ x <= waited
    <3>1. TickElapsed <= waited
      BY <1>1, <1>2 DEF TimeInv, WaitInv, Around, TickElapsed
    <3> QED
      BY <1>2, <1>4, <2>1, <3>1
  <2> HIDE DEF e, x
  <2>5. Len(next') = Len(next) /\ \A i \in 1 .. Len(next) : next'[i].timer = next[i].timer
    BY <1>2, <2>1, <2>2, <2>3, ExceptSeq
  <2>6. \A i \in 1 .. Len(next) : Due(next', i) = Due(next, i) - x
    BY <1>2, <1>6, <2>2, <2>3, DueNearer
  <2>7. ASSUME NEW k \in 1 .. Len(next) PROVE InTime(next[k].timer, Due(next, k))'
    <3> DEFINE t == next[k].timer
               d == Due(next, k)
    <3>1. t \in Timers /\ left[t] \in Int /\ lag[t] \in Nat /\ Interval[t] \in Nat /\ d \in Nat
      BY EntryFacts
    <3>2. InTime(t, d) /\ next'[k].timer = t /\ Due(next', k) = d - x
      BY <2>5, <2>6 DEF TimeInv
    <3> HIDE DEF t, d
    <3>3. d - x <= Interval[t]
      BY <2>4, <3>1, <3>2 DEF InTime
    <3>4. ~(t = Tcp /\ t \in rough) => left[t] <= LateBound \/ left[t] <= (d - x) - 0
      BY <1>2, <1>3, <2>4, <3>1, <3>2 DEF InTime, NotEarly
    <3>5. ASSUME t \notin rough
          PROVE  Accounted(t, d) /\ (d - x) - 0 <= left[t] + lag[t]
      <4>1. Accounted(t, d) /\ next[1].time = timeout
        BY <1>1, <3>2, <3>5 DEF InTime, Awaited
      <4>2. Counted = x
        BY <1>1, <4>1 DEF Counted, x
      <4> QED
        BY <2>4, <3>1, <4>1, <4>2 DEF Accounted
    <3> QED
      BY <1>1, <1>3, <3>2, <3>3, <3>4, <3>5 DEF InTime, NotEarly, Accounted, LateBound
  <2> QED
    BY <1>3, <2>5, <2>7 DEF TimeInv
<1> QED
  BY <1>2, <1>5, <1>6

(* A timer that starts outside of a wait has its whole interval before it. *)
LEMMA ArmTime ==
  ASSUME TimerInv, TimeInv, NEW t0 \in Timers, ~Has(next, t0), Arm(t0, rough),
         ~clash', tpc # "waiting", tpc' # "waiting", tick' = tick
  PROVE  TimeInv'
<1>1. /\ next' = SysTimeout(next, t0) /\ left' = [left EXCEPT ![t0] = Interval[t0]]
      /\ lag' = [lag EXCEPT ![t0] = 0] /\ rough' = rough
  BY DEF Arm, Follow
<1>2. next \in Seq(Entry) /\ Len(next) < POOL_SIZE
  <2>1. next \in Seq(Entry) /\ Once(next)
    BY DEF TimerInv, ListInv, ListType, Entry
  <2> QED
    BY <2>1, RoomForTimer
<1>3. Gone = 0 /\ Counted = 0 /\ Gone' = 0 /\ Counted' = 0 /\ WaitInv'
  BY DEF Gone, Counted, WaitInv
<1>4. /\ Interval[t0] \in Nat /\ left'[t0] = Interval[t0] /\ lag'[t0] = 0
      /\ MaxLag \in Nat
  BY <1>1, TimerAssumption, TickAssumption DEF TimerInv, TypeOK, TimerType
<1>5. ASSUME NEW k \in 1 .. Len(next') PROVE InTime(next[k].timer, Due(next, k))'
  <2>1. CASE next'[k].timer = t0 /\ Due(next', k) = Interval[t0]
    BY <1>3, <1>4, <2>1 DEF InTime, NotEarly, Accounted, LateBound
  <2>2. ASSUME NEW j \in 1 .. Len(next),
               next'[k].timer = next[j].timer /\ Due(next', k) = Due(next, j)
        PROVE  InTime(next[k].timer, Due(next, k))'
    <3> DEFINE t == next[j].timer
    <3>1. t \in Timers /\ t # t0
      BY EntryFacts DEF Has
    <3>2. left'[t] = left[t] /\ lag'[t] = lag[t]
      BY <1>1, <3>1 DEF TimerInv, TypeOK, TimerType
    <3>3. InTime(t, Due(next, j))
      BY DEF TimeInv
    <3> HIDE DEF t
    <3>4. next'[k].timer = t
      BY <2>2 DEF t
    <3> QED
      BY <1>1, <1>3, <2>2, <3>2, <3>3, <3>4 DEF InTime, NotEarly, Accounted, LateBound
  <2> QED
    BY <1>1, <1>2, <2>1, <2>2, DueInsert
<1> QED
  BY <1>3, <1>5 DEF TimeInv

(* ETHINT may start the TCP timer in the middle of a wait; then every      *)
(* timer in the list is marked.                                            *)
LEMMA EthArmTime == ASSUME TimerInv, TimeInv, EthArm, ~clash' PROVE TimeInv'
<1>0. UNCHANGED <<tick, tpc, timeout, tickStart, waited>>
  BY DEF EthArm, threadVars
<1>1. Tcp \in Timers /\ ~Has(next, Tcp)
  BY DEF EthArm, Timers, Coming, TimerInv, ListInv, PlaceInv
<1>2. CASE tpc # "waiting"
  <2>1. Arm(Tcp, rough)
    BY <1>2 DEF EthArm
  <2> QED
    BY <1>0, <1>1, <1>2, <2>1, ArmTime
<1>3. CASE tpc = "waiting"
  <2>1. rough' = {t \in Timers : InList(t)} \cup {Tcp}
    BY <1>3 DEF EthArm, Arm, Follow
  <2>2. /\ next' = SysTimeout(next, Tcp) /\ left' = [left EXCEPT ![Tcp] = Interval[Tcp]]
    BY DEF EthArm, Arm, Follow
  <2>3. next \in Seq(Entry) /\ Len(next) < POOL_SIZE
    <3>1. next \in Seq(Entry) /\ Once(next)
      BY DEF TimerInv, ListInv, ListType, Entry
    <3> QED
      BY <1>1, <3>1, RoomForTimer
  <2>4. Gone' = Gone
    BY <1>0 DEF Gone
  <2>5. WaitInv'
    <3>1. next' # <<>> /\ (next # <<>> => next'[1].time <= next[1].time)
      BY <1>1, <2>2, <2>3, DueInsert
    <3>2. next' \in Seq(Entry) /\ next'[1].time \in Nat
      <4>1. next' \in Seq(Entry)
        BY <1>1, <2>2, <2>3, SysTimeoutIs
      <4> QED
        BY <3>1, <4>1, DueFirst
    <3>3. next # <<>> => next[1].time \in Nat
      BY <2>3, DueFirst
    <3>4. timeout \in Nat
      BY DEF TimerInv, TypeOK, ThreadType
    <3> QED
      BY <1>0, <1>3, <3>1, <3>2, <3>3, <3>4 DEF TimeInv, WaitInv, Around
  <2>6. ASSUME NEW k \in 1 .. Len(next') PROVE InTime(next[k].timer, Due(next, k))'
    <3>1. Interval[Tcp] \in Nat
      BY <1>1, TimerAssumption
    <3>2. CASE next'[k].timer = Tcp /\ Due(next', k) = Interval[Tcp]
      BY <2>1, <3>1, <3>2 DEF InTime, NotEarly
    <3>3. ASSUME NEW j \in 1 .. Len(next),
                 next'[k].timer = next[j].timer /\ Due(next', k) = Due(next, j)
          PROVE  InTime(next[k].timer, Due(next, k))'
      <4> DEFINE t == next[j].timer
      <4>1. t \in Timers /\ t # Tcp /\ InList(t)
        BY <1>1, EntryFacts DEF Has
      <4>2. left'[t] = left[t] /\ t \in rough'
        BY <2>1, <2>2, <4>1 DEF TimerInv, TypeOK, TimerType
      <4>3. InTime(t, Due(next, j))
        BY DEF TimeInv
      <4> HIDE DEF t
      <4>4. next'[k].timer = t
        BY <3>3 DEF t
      <4> QED
        BY <2>4, <3>3, <4>1, <4>2, <4>3, <4>4 DEF InTime, NotEarly, LateBound
    <3> QED
      BY <1>1, <2>2, <2>3, <3>2, <3>3, DueInsert
  <2> QED
    BY <2>5, <2>6 DEF TimeInv
<1> QED
  BY <1>2, <1>3

(* The tick count wraps around to 0.                                       *)
LEMMA TickWraps ==
  ASSUME NEW M \in Nat, NEW n \in 0 .. M
  PROVE  (n + 1) % (M + 1) = IF n = M THEN 0 ELSE n + 1
<1>1. \A m \in Nat \ {0} : m % m = 0 /\ \A x \in 0 .. m - 1 : x % m = x
  <2> TAKE m \in Nat \ {0}
  <2>1. m % m = 0
    OBVIOUS
  <2>2. ASSUME NEW x \in 0 .. m - 1 PROVE x % m = x
    OBVIOUS
  <2> QED
    BY <2>1, <2>2
<1>2. M + 1 \in Nat \ {0} /\ (n # M => n + 1 \in 0 .. (M + 1) - 1)
  OBVIOUS
<1> QED
  BY <1>1, <1>2

(* The result of sys_arch_mbox_fetch after w ticks is w, or one less when  *)
(* the count has wrapped.                                                  *)
LEMMA TickCount ==
  ASSUME NEW s \in 0 .. MAX_DELAY, NEW w \in 0 .. MAX_DELAY
  PROVE  LET tk == Around(s + w)
         IN  /\ tk \in 0 .. MAX_DELAY
             /\ (IF tk >= s THEN tk - s ELSE MAX_DELAY - s + tk)
                  = (IF s + w <= MAX_DELAY THEN w ELSE w - 1)
             /\ w < MAX_DELAY =>
                  (tk + 1) % (MAX_DELAY + 1) = Around(s + (w + 1))
             /\ tk = MAX_DELAY <=> s + w = MAX_DELAY
<1> DEFINE tk == Around(s + w)
<1>1. MAX_DELAY \in Nat /\ MAX_DELAY > 1
  BY TickAssumption
<1>2. tk \in 0 .. MAX_DELAY /\ (tk = MAX_DELAY <=> s + w = MAX_DELAY)
  BY <1>1 DEF Around
<1>3. (IF tk >= s THEN tk - s ELSE MAX_DELAY - s + tk)
        = (IF s + w <= MAX_DELAY THEN w ELSE w - 1)
  BY <1>1 DEF Around
<1>4. (tk + 1) % (MAX_DELAY + 1) = IF tk = MAX_DELAY THEN 0 ELSE tk + 1
  BY <1>1, <1>2, TickWraps
<1>5. w < MAX_DELAY => (tk + 1) % (MAX_DELAY + 1) = Around(s + (w + 1))
  BY <1>1, <1>2, <1>4 DEF Around
<1> QED
  BY <1>2, <1>3, <1>5

(* A tick of a wait: both clocks go on together.                           *)
LEMMA TickRunsOn ==
  ASSUME TimerInv, Tick, tpc = "waiting", waited < MAX_DELAY,
         tick = Around(tickStart + waited)
  PROVE  /\ waited' = waited + 1 /\ tick' = Around(tickStart + waited')
         /\ TickElapsed =
              IF tickStart + waited <= MAX_DELAY THEN waited ELSE waited - 1
         /\ TickElapsed' =
              IF tickStart + waited' <= MAX_DELAY THEN waited' ELSE waited' - 1
         /\ tick = MAX_DELAY <=> tickStart + waited = MAX_DELAY
<1>1. /\ waited' = waited + 1 /\ tickStart' = tickStart
      /\ tick' = (tick + 1) % (MAX_DELAY + 1)
  BY DEF Tick
<1>2. /\ MAX_DELAY \in Nat /\ tickStart \in 0 .. MAX_DELAY
      /\ waited \in 0 .. MAX_DELAY
  BY TickAssumption DEF TimerInv, TypeOK, ThreadType
<1>3. (Around(tickStart + waited) + 1) % (MAX_DELAY + 1) =
        Around(tickStart + (waited + 1))
  BY <1>2, TickCount
<1>4. tick' = Around(tickStart + waited')
  BY <1>1, <1>3
<1>5. TickElapsed = IF tickStart + waited <= MAX_DELAY THEN waited ELSE waited - 1
  BY <1>2, TickCount DEF TickElapsed
<1>6. waited' \in 0 .. MAX_DELAY
  BY <1>1, <1>2
<1>7. LET tk == Around(tickStart + waited')
      IN  (IF tk >= tickStart THEN tk - tickStart ELSE MAX_DELAY - tickStart + tk)
            = (IF tickStart + waited' <= MAX_DELAY THEN waited' ELSE waited' - 1)
  BY <1>2, <1>6, TickCount
<1>8. TickElapsed' = IF tick' >= tickStart THEN tick' - tickStart
                     ELSE MAX_DELAY - tickStart + tick'
  BY <1>1 DEF TickElapsed
<1>9. tick = MAX_DELAY <=> tickStart + waited = MAX_DELAY
  BY <1>2, TickCount
<1> QED
  BY <1>1, <1>4, <1>5, <1>7, <1>8, <1>9

(* A tick takes every timer nearer; it is counted by the list or by the    *)
(* lag.                                                                    *)
LEMMA TickTime == ASSUME TimerInv, TimeInv, Tick PROVE TimeInv'
<1> DEFINE M    == MAX_DELAY
           over == timeout > 0 /\ waited >= timeout
<1>1. /\ waited' = IF tpc = "waiting" /\ waited < M THEN waited + 1 ELSE waited
      /\ tpc' = tpc /\ timeout' = timeout /\ tickStart' = tickStart
      /\ next' = next /\ rough' = rough
  BY DEF Tick
<1>2. /\ M \in Nat /\ MaxLag \in Nat /\ tick \in 0 .. M /\ tickStart \in 0 .. M
      /\ waited \in 0 .. M /\ timeout \in Nat
  BY TickAssumption DEF TimerInv, TypeOK, ThreadType
<1>3. /\ tick' \in 0 .. M /\ waited' \in 0 .. M
      /\ tick' = IF tick = M THEN 0 ELSE tick + 1
  <2>1. tick' = (tick + 1) % (M + 1)
    BY DEF Tick
  <2>2. tick' = IF tick = M THEN 0 ELSE tick + 1
    BY <1>2, <2>1, TickWraps
  <2> QED
    BY <1>1, <1>2, <2>2
<1>4. WaitInv'
  <2> SUFFICES ASSUME tpc = "waiting", waited' < M
               PROVE  tick' = Around(tickStart + waited')
    <3>1. WaitInv
      BY DEF TimeInv
    <3> QED
      BY <1>1, <3>1 DEF WaitInv, Around
  <2>1. waited < M /\ waited' = waited + 1 /\ tick = Around(tickStart + waited)
    BY <1>1, <1>2 DEF TimeInv, WaitInv
  <2> QED
    BY <2>1, TickRunsOn
<1>5. ASSUME NEW k \in 1 .. Len(next) PROVE InTime(next[k].timer, Due(next, k))'
  <2>1. PICK t \in Timers, d \in Nat : t = next[k].timer /\ d = Due(next, k)
    BY EntryFacts
  <2>2. /\ t \in Timers /\ InList(t) /\ left[t] \in Int /\ lag[t] \in Nat
        /\ Interval[t] \in Nat /\ d \in Nat /\ Interval[t] + MaxLag <= M
        /\ M > 1 /\ next[1].time \in Nat /\ next[1].time <= d
    BY <2>1, EntryFacts
  <2>3. /\ left'[t] = IF left[t] > LateBound THEN left[t] - 1 ELSE left[t]
        /\ lag'[t] = IF Uncounted /\ lag[t] < -LateBound THEN lag[t] + 1 ELSE lag[t]
    BY <2>2 DEF Tick
  <2>4. ~(tpc = "waiting" /\ ~over) => lag[t] < MaxLag
    BY <2>2 DEF Tick
  <2>5. InTime(t, d)
    BY <2>1 DEF TimeInv
  <2>6. /\ Gone \in Nat /\ Gone' \in Nat /\ Gone' <= Gone + 1
    BY <1>1, <1>2, <1>3 DEF Gone
  <2>7. NotEarly(t, d)'
    BY SMTT(30), <1>1, <1>2, <2>2, <2>3, <2>5, <2>6 DEF InTime, NotEarly, LateBound
  <2>8. ASSUME t \notin rough
        PROVE  Accounted(t, d)' /\ (tpc = "waiting" => Awaited(t)')
    <3>1. Accounted(t, d) /\ (tpc = "waiting" => Awaited(t))
      BY <2>5, <2>8 DEF InTime
    <3>2. Counted \in Nat /\ Counted <= d
      <4>1. TickElapsed \in Nat
        BY <1>2 DEF TickElapsed
      <4> QED
        BY <1>2, <2>2, <3>1, <4>1 DEF Counted, Awaited
    <3>3. left[t] > LateBound /\ left'[t] = left[t] - 1 /\ lag[t] < -LateBound
      <4>1. d - Counted <= left[t] + lag[t] /\ lag[t] <= MaxLag + 2
        BY <3>1 DEF Accounted
      <4>2. lag[t] < MaxLag + 4 /\ left[t] > -(MaxLag + 4)
        BY SMTT(30), <1>2, <2>2, <3>2, <4>1
      <4>3. -(-(MaxLag + 4)) = MaxLag + 4
        BY <1>2
      <4> QED
        BY <2>3, <4>2, <4>3 DEF LateBound
    <3>4. lag'[t] = IF Uncounted THEN lag[t] + 1 ELSE lag[t]
      BY <2>3, <3>3
    <3>5. CASE tpc # "waiting"
      <4>1. Counted = 0 /\ Counted' = 0 /\ lag'[t] = lag[t] + 1
        BY <1>1, <3>4, <3>5 DEF Counted, Uncounted
      <4>2. lag[t] < MaxLag
        BY <2>4, <3>5
      <4>3. lag'[t] <= MaxLag
        BY <1>2, <2>2, <4>1, <4>2
      <4>4. d - Counted' <= left'[t] + lag'[t]
        BY <2>2, <3>1, <3>3, <4>1 DEF Accounted
      <4>5. left'[t] <= Interval[t]
        BY <2>2, <3>1, <3>3 DEF Accounted
      <4>6. Accounted(t, d)'
        BY <1>2, <2>2, <4>1, <4>3, <4>4, <4>5 DEF Accounted
      <4> QED
        BY <3>5, <4>6
    <3>6. CASE tpc = "waiting" /\ over
      <4>1. lag[t] < MaxLag /\ lag'[t] = lag[t] + 1 /\ Awaited(t)
        BY <2>4, <3>1, <3>4, <3>6 DEF Uncounted
      <4>2. waited < M /\ waited' = waited + 1 /\ waited < timeout + MaxLag
        <5>1. timeout <= Interval[t]
          BY <1>2, <2>2, <2>5, <4>1 DEF Awaited, InTime
        <5>2. waited - timeout < MaxLag
          BY SMTT(30), <1>2, <2>2, <4>1 DEF Awaited
        <5> QED
          BY <1>1, <1>2, <2>2, <3>6, <5>1, <5>2
      <4>3. tick = Around(tickStart + waited)
        BY <4>1 DEF Awaited
      <4>4. /\ tick' = Around(tickStart + waited')
            /\ TickElapsed = IF tickStart + waited <= M THEN waited ELSE waited - 1
            /\ TickElapsed' = IF tickStart + waited' <= M THEN waited' ELSE waited' - 1
        BY <3>6, <4>2, <4>3, TickRunsOn
      <4>5. Counted' >= Counted /\ Counted' \in Nat
        BY <1>1, <1>2, <3>6, <4>2, <4>4 DEF Counted
      <4>6. Accounted(t, d)'
        <5>1. lag'[t] <= MaxLag
          BY <1>2, <2>2, <4>1
        <5>2. d - Counted' <= left'[t] + lag'[t]
          BY SMTT(30), <2>2, <3>1, <3>2, <3>3, <4>1, <4>5 DEF Accounted
        <5>3. left'[t] <= Interval[t]
          BY <2>2, <3>1, <3>3 DEF Accounted
        <5> QED
          BY <1>2, <2>2, <4>1, <5>1, <5>2, <5>3 DEF Accounted
      <4>7. waited' - timeout <= lag'[t] /\ waited' <= timeout + MaxLag
        <5>1. waited - timeout <= lag[t]
          BY <4>1 DEF Awaited
        <5>2. waited' = waited + 1 /\ lag'[t] = lag[t] + 1 /\ waited < timeout + MaxLag
          BY <4>1, <4>2
        <5>3. lag[t] \in Nat
          BY <2>2
        <5>4. waited' - timeout <= lag'[t]
          BY <1>2, <5>1, <5>2, <5>3
        <5> QED
          BY <1>2, <5>2, <5>4
      <4>8. Awaited(t)'
        BY <1>1, <4>1, <4>4, <4>7 DEF Awaited
      <4> QED
        BY <4>6, <4>8
    <3>7. CASE tpc = "waiting" /\ ~over
      <4>1. Awaited(t) /\ waited < timeout /\ timeout <= Interval[t] /\ timeout <= M
        <5>1. Awaited(t)
          BY <3>1, <3>7
        <5>2. timeout <= Interval[t]
          BY <1>2, <2>2, <2>5, <5>1 DEF Awaited, InTime
        <5> QED
          BY SMTT(30), <1>2, <2>2, <3>7, <5>1, <5>2 DEF Awaited
      <4>2. waited < M /\ waited' = waited + 1 /\ waited' <= timeout
        BY <1>1, <1>2, <3>7, <4>1
      <4>3. tick = Around(tickStart + waited)
        BY <4>1 DEF Awaited
      <4>4. /\ tick' = Around(tickStart + waited')
            /\ TickElapsed = IF tickStart + waited <= M THEN waited ELSE waited - 1
            /\ TickElapsed' = IF tickStart + waited' <= M THEN waited' ELSE waited' - 1
        BY <3>7, <4>2, <4>3, TickRunsOn
      <4>5. tick = M => tickStart + waited = M
        BY <3>7, <4>2, <4>3, TickRunsOn
      <4>6. Counted = TickElapsed /\ Counted' = TickElapsed'
        BY <1>1, <1>2, <3>7, <4>1, <4>2, <4>4 DEF Counted
      <4>7. Awaited(t)'
        <5>1. lag'[t] \in Nat
          BY <2>2, <3>4
        <5>2. waited' <= timeout + MaxLag /\ waited' - timeout <= lag'[t]
          BY <1>2, <4>2, <5>1
        <5> QED
          BY <1>1, <4>1, <4>4, <5>2 DEF Awaited
      <4>8. CASE tick = M
        <5>1. lag'[t] = lag[t] + 1 /\ tick' = 0
          BY <1>3, <3>4, <4>8 DEF Uncounted
        <5>2. TickElapsed' = TickElapsed
          BY <1>2, <4>2, <4>4, <4>5, <4>8
        <5>3. left[t] >= d - Counted - lag[t]
          BY SMTT(30), <1>2, <2>2, <3>1, <3>2 DEF Accounted
        <5>4. lag[t] <= MaxLag + 1
          BY SMTT(30), <1>2, <2>2, <3>1, <3>2, <4>8, <5>3 DEF Accounted
        <5>5. d - Counted' <= left'[t] + lag'[t]
          BY SMTT(30), <2>2, <3>1, <3>2, <3>3, <4>6, <5>1, <5>2 DEF Accounted
        <5>6. left'[t] <= Interval[t] /\ lag'[t] <= MaxLag + 2
          <6>1. left[t] <= Interval[t]
            BY <3>1 DEF Accounted
          <6> QED
            BY SMTT(30), <1>2, <2>2, <3>3, <5>1, <5>4, <6>1
        <5>7. Interval[t] - left'[t] >= 0
          BY <2>2, <3>1, <3>3 DEF Accounted
        <5>8. lag'[t] > MaxLag + 1 => Interval[t] - left'[t] >= M + 1
          <6>1. lag[t] > MaxLag => Interval[t] - left[t] >= M
            BY <3>1, <4>8 DEF Accounted
          <6>2. Interval[t] - left'[t] = (Interval[t] - left[t]) + 1
            BY SMTT(30), <2>2, <3>3
          <6>3. Interval[t] - left[t] \in Int
            BY <2>2
          <6> QED
            BY SMTT(30), <1>2, <2>2, <5>1, <6>1, <6>2, <6>3
        <5>9. Accounted(t, d)'
          BY <1>2, <2>2, <5>1, <5>5, <5>6, <5>7, <5>8 DEF Accounted
        <5> QED
          BY <4>7, <5>9
      <4>9. CASE tick # M
        <5>1. lag'[t] = lag[t] /\ tick' = tick + 1
          BY <1>3, <3>4, <3>7, <4>9 DEF Uncounted
        <5>2. TickElapsed' = TickElapsed + 1
          BY <1>2, <4>2, <4>3, <4>4, <4>9 DEF Around
        <5>3. d - Counted' <= left'[t] + lag'[t]
          BY <2>2, <3>1, <3>2, <3>3, <4>6, <5>1, <5>2 DEF Accounted
        <5>4. left'[t] <= Interval[t] /\ lag'[t] <= MaxLag + 2
          <6>1. left[t] <= Interval[t] /\ lag[t] <= MaxLag + 2
            BY <3>1 DEF Accounted
          <6> QED
            BY <2>2, <3>3, <5>1, <6>1
        <5>5. /\ lag'[t] > MaxLag => Interval[t] - left'[t] >= tick'
              /\ lag'[t] > MaxLag + 1 => Interval[t] - left'[t] >= M + 1 + tick'
          <6>1. /\ lag[t] > MaxLag => Interval[t] - left[t] >= tick
                /\ lag[t] > MaxLag + 1 => Interval[t] - left[t] >= M + 1 + tick
            BY <3>1 DEF Accounted
          <6>2. Interval[t] - left'[t] = (Interval[t] - left[t]) + 1
            BY <2>2, <3>3
          <6>3. Interval[t] - left[t] \in Int /\ tick \in Int /\ M \in Int
            BY SMTT(30), <1>2, <2>2
          <6> HIDE DEF M
          <6> QED
            BY <5>1, <6>1, <6>2, <6>3
        <5>6. Accounted(t, d)'
          BY <5>3, <5>4, <5>5 DEF Accounted
        <5> QED
          BY <4>7, <5>6
      <4> QED
        BY <4>8, <4>9
    <3> QED
      BY <3>5, <3>6, <3>7
  <2> QED
    BY <1>1, <2>1, <2>5, <2>7, <2>8 DEF InTime
<1> QED
  BY <1>1, <1>4, <1>5 DEF TimeInv

(* sys_timeouts_init gives each timer its interval.                        *)
LEMMA InitTimeInv == Init => TimeInv
<1> SUFFICES ASSUME Init PROVE TimeInv
  OBVIOUS
<1>1. TimerInv /\ next = InitialList /\ tpc = "fetch"
  BY InitTimerInv DEF Init
<1>2. ASSUME NEW k \in 1 .. Len(next) PROVE InTime(next[k].timer, Due(next, k))
  <2>1. PICK t \in Timers : t = next[k].timer
    BY <1>1, EntryFacts
  <2>2. Due(next, k) = Interval[t] /\ Interval[t] \in Nat /\ MaxLag \in Nat
    BY <1>1, <2>1, InitialListIs, EntryFacts
  <2>3. t \in Periodic
    BY <1>1, <2>1, InitialListIs DEF Has
  <2>4. left[t] = Interval[t] /\ lag[t] = 0
    BY <2>3, TimerAssumption DEF Init
  <2>5. Gone = 0 /\ Counted = 0
    BY <1>1 DEF Gone, Counted
  <2> QED
    BY <1>1, <2>1, <2>2, <2>4, <2>5 DEF InTime, NotEarly, Accounted
<1>3. WaitInv
  BY <1>1 DEF WaitInv
<1> QED
  BY <1>2, <1>3 DEF TimeInv

(* Every step that is no clash keeps the times.                            *)
LEMMA TimeInvStep ==
  ASSUME TimerInv, TimeInv, [Next]_vars, ~clash' PROVE TimeInv'
<1>0. ~clash
  BY ClashStays
<1>1. CASE UNCHANGED vars
  BY <1>1, TimeKept DEF vars, timerVars, listVars, threadVars
<1>2. ASSUME NEW c \in Callers,
             Call(c) \/ SysMboxPost(c) \/ SysArchSemWait(c) \/ EthComplete(c)
      PROVE  TimeInv'
  BY <1>2, TimeKept DEF Call, SysMboxPost, SysArchSemWait, EthComplete, timerVars,
     listVars, threadVars
<1>3. CASE StartWait
  BY <1>3, StartWaitTime
<1>4. CASE Overdue \/ TimedOut
  <2>1. PopTimeout /\ (\/ tpc # "waiting" /\ next[1].time = 0
                       \/ tpc = "waiting" /\ timeout > 0 /\ waited >= timeout)
    BY <1>4 DEF Overdue, TimedOut
  <2> QED
    BY <2>1, PopTimeoutTime
<1>5. CASE Receive
  BY <1>5, ReceiveTime
<1>6. CASE Serve
  <2>1. tpc # "waiting" /\ tpc' # "waiting" /\ tick' = tick
    BY <1>6 DEF Serve
  <2>2. CASE UNCHANGED listVars
    BY <2>1, <2>2, TimeKept DEF listVars
  <2>3. CASE TcpTimerNeeded /\ ~active
    <3>1. Tcp \in Timers /\ Tcp \notin Periodic /\ Arm(Tcp, rough)
      BY <2>3, TimerAssumption DEF TcpTimerNeeded, Timers
    <3>2. ~Has(next, Tcp)
      BY <2>3, <3>1 DEF TimerInv, ListInv, PlaceInv
    <3> QED
      BY <2>1, <3>1, <3>2, ArmTime
  <2>4. CASE TcpTimerNeeded /\ active
    BY <2>1, <2>4, TimeKept DEF TcpTimerNeeded, Follow
  <2> QED
    BY <1>6, <2>2, <2>3, <2>4 DEF Serve
<1>7. CASE PeriodicTimer
  <2>1. hand \in Timers /\ Arm(hand, rough) /\ tpc # "waiting" /\ tpc' # "waiting"
        /\ tick' = tick /\ Busy(hand)
    BY <1>7 DEF PeriodicTimer, Timers, Busy, Working
  <2>2. ~Has(next, hand)
    BY <2>1 DEF TimerInv, ListInv, PlaceInv
  <2> QED
    BY <2>1, <2>2, ArmTime
<1>8. CASE TcpTimerAgain
  <2>1. hand = Tcp /\ Tcp \in Timers
    BY <1>8 DEF TcpTimerAgain, TimerInv, ListInv, HandInv, Timers
  <2>2. Arm(Tcp, rough) /\ tpc # "waiting" /\ tpc' # "waiting"
        /\ tick' = tick /\ Busy(Tcp)
    BY <1>8, <2>1 DEF TcpTimerAgain, Busy, Working
  <2>3. ~Has(next, Tcp)
    BY <2>1, <2>2 DEF TimerInv, ListInv, PlaceInv
  <2> QED
    BY <2>1, <2>2, <2>3, ArmTime
<1>9. CASE TcpTmr \/ TcpTimerNotNeeded \/ TcpTimerOff
  BY <1>9, TimeKept DEF TcpTmr, TcpTimerNotNeeded, TcpTimerOff, timerVars,
     listVars
<1>10. CASE EthReg
  BY <1>10, TimeKept DEF EthReg, threadVars, listVars
<1>11. CASE EthRemove
  BY <1>11, TimeKept DEF EthRemove, threadVars, listVars
<1>12. CASE Tick
  BY <1>12, TickTime
<1>13. CASE EthArm
  BY <1>13, EthArmTime
<1>14. CASE Astray
  BY <1>0, <1>14 DEF Astray
<1> QED
  BY <1>1, <1>2, <1>3, <1>4, <1>5, <1>6, <1>7, <1>8, <1>9, <1>10, <1>11, <1>12,
     <1>13, <1>14 DEF Next, Thread

(* The invariant holds in every behaviour until a clash.                   *)
LEMMA TimeInvIsInvariant == Spec => [](CalmInv /\ (~clash => TimeInv))
<1>1. Init => TimeInv
  BY InitTimeInv
<1>2. CalmInv /\ (~clash => TimeInv) /\ [Next]_vars => (~clash => TimeInv)'
  BY TimeInvStep, ClashStays DEF CalmInv
<1> QED
  BY <1>1, <1>2, CalmInvIsInvariant, PTL DEF Spec

(* Only the two ends of a wait take a timer off the list.                  *)
LEMMA ServedInTime ==
  ASSUME TimerInv, TimeInv, [Next]_vars, ~clash', NEW t \in Timers, Served(t)
  PROVE  /\ ~(t = Tcp /\ t \in rough) => left[t] <= 0
         /\ t \notin rough => -left[t] <= lag[t]
<1>1. Overdue \/ TimedOut
  <2>0. ~Astray
    BY ClashStays DEF Astray
  <2>1. tpc # "handler" /\ tpc' = "handler"
    BY DEF Served
  <2> QED
    BY <2>0, <2>1 DEF Next, Thread, vars, threadVars, Call, SysMboxPost, SysArchSemWait,
       EthComplete, StartWait, Receive, Serve, PeriodicTimer, TcpTmr, TcpTimerAgain,
       TcpTimerNotNeeded, TcpTimerOff, EthReg, EthArm, EthRemove, Tick
<1>2. PopTimeout /\ (\/ tpc # "waiting" /\ next[1].time = 0
                     \/ tpc = "waiting" /\ timeout > 0 /\ waited >= timeout)
  BY <1>1 DEF Overdue, TimedOut
<1>3. t = next[1].timer
  BY <1>2 DEF Served, PopTimeout
<1> QED
  BY <1>2, <1>3, PopTimeoutTime

(* TimersOnTime: for any timers and intervals, and however messages and    *)
(* the wrap-around of the tick count cut the waits, until the thread and   *)
(* ETHINT meet in the list no timer is served early but a TCP timer that   *)
(* ETHINT has started in a wait, and none is served later than by the      *)
(* ticks the thread did not wait for and those lost to the wrap-around,    *)
(* unless ETHINT has changed the list under a wait.                        *)
THEOREM TimersInTime == Spec => TimersOnTime
<1>1. CalmInv /\ (~clash => TimeInv) /\ [Next]_vars =>
        [\A t \in Timers : Served(t) /\ ~clash' =>
           /\ ~(t = Tcp /\ t \in rough) => left[t] <= 0
           /\ t \notin rough => -left[t] <= lag[t]]_vars
  BY ServedInTime, ClashStays DEF CalmInv
<1> QED
  BY <1>1, TimeInvIsInvariant, PTL DEF Spec, TimersOnTime

=============================================================================
