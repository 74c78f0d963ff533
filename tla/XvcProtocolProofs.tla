------------------------- MODULE XvcProtocolProofs -------------------------
(***************************************************************************)
(* What XvcProtocol promises, for every list of commands, every size of    *)
(* the vectors and every cut of the stream into receive buffers and pbufs. *)
(*                                                                         *)
(* The bytes in the buffer and in the chain are exactly those of the       *)
(* client's stream that were received and not used up yet (Position).      *)
(* With what the connection state says of the command in work (Reading)    *)
(* this is inductive, and it leaves the server no other command to execute *)
(* than the next one of the client.                                        *)
(***************************************************************************)
EXTENDS XvcProtocol, TLAPS, SequenceTheorems, NaturalsInduction,
        WellFoundedInduction

-----------------------------------------------------------------------------
(* FlattenSeq.                                                             *)

(* A set of natural numbers that is not empty has a least member.  Every   *)
(* induction below looks for the least number at which it fails.           *)
LEMMA Least ==
  ASSUME NEW T, T \subseteq Nat, T # {}
  PROVE  \E x \in T : \A y \in T : x <= y
<1> DEFINE R == OpToRel(<, Nat)
<1>1. IsWellFoundedOn(R, Nat)
  BY NatLessThanWellFounded
<1> HIDE DEF R
<1>2. PICK x \in T : \A y \in T : ~ (<<y, x>> \in R)
  BY <1>1, WFMin
<1>3. \A y \in T : ~ (y < x)
  BY <1>2 DEF R, OpToRel
<1> QED
  BY <1>3

(* The recursive function in the definition of FlattenSeq exists.          *)
LEMMA FlattenIs ==
  ASSUME NEW S, NEW q \in Seq(Seq(S)), Len(q) > 0
  PROVE  \E f : /\ f = [i \in 1 .. Len(q) |->
                         IF i = 1 THEN q[i] ELSE f[i - 1] \o q[i]]
                /\ FlattenSeq(q) = f[Len(q)]
                /\ \A i \in 1 .. Len(q) : f[i] \in Seq(S)
<1> DEFINE n == Len(q)
           Is(g, m) == g = [i \in 1 .. m |-> IF i = 1 THEN q[i] ELSE g[i - 1] \o q[i]]
           f == CHOOSE g : Is(g, n)
<1>1. n \in Nat /\ n > 0 /\ \A i \in 1 .. n : q[i] \in Seq(S)
  OBVIOUS
<1>2. \E g : Is(g, n)
  <2> HIDE DEF Is
  <2> DEFINE bad == {m \in 1 .. n : ~ \E g : Is(g, m)}
  <2> SUFFICES ASSUME ~ \E g : Is(g, n) PROVE FALSE
    OBVIOUS
  <2>0. n \in bad
    BY <1>1
  <2>1. PICK m \in bad : \A y \in bad : m <= y
    <3>1. bad \subseteq Nat
      OBVIOUS
    <3> HIDE DEF bad
    <3> QED
      BY <2>0, <3>1, Least
  <2>2. m # 1
    <3>1. Is([i \in 1 .. 1 |-> q[1]], 1)
      BY DEF Is
    <3> QED
      BY <3>1
  <2>3. PICK g : Is(g, m - 1)
    <3>1. m - 1 \in 1 .. n /\ ~ (m <= m - 1)
      BY <1>1, <2>2
    <3>2. m - 1 \notin bad
      BY <2>1, <3>1
    <3> QED
      BY <3>1, <3>2
  <2> DEFINE h == [i \in 1 .. m |-> IF i = m THEN g[m - 1] \o q[m] ELSE g[i]]
  <2>4. \A i \in 1 .. m - 1 : g[i] = IF i = 1 THEN q[i] ELSE g[i - 1] \o q[i]
    BY <2>3 DEF Is
  <2>5. ASSUME NEW i \in 1 .. m
        PROVE  h[i] = IF i = 1 THEN q[i] ELSE h[i - 1] \o q[i]
    BY <2>2, <2>4
  <2>6. Is(h, m)
    BY <2>5 DEF Is
  <2> QED
    BY <2>6
<1>3. Is(f, n)
  BY <1>2
<1>4. FlattenSeq(q) = f[n]
  BY <1>1 DEF FlattenSeq
<1> HIDE DEF f
<1>5. \A i \in 1 .. n : f[i] = IF i = 1 THEN q[i] ELSE f[i - 1] \o q[i]
  BY <1>3
<1>6. \A i \in 1 .. n : f[i] \in Seq(S)
  <2> DEFINE bad == {i \in 1 .. n : f[i] \notin Seq(S)}
  <2> SUFFICES ASSUME bad # {} PROVE FALSE
    OBVIOUS
  <2>1. PICK k \in bad : \A y \in bad : k <= y
    <3>1. bad \subseteq Nat
      OBVIOUS
    <3> HIDE DEF bad
    <3> QED
      BY <3>1, Least
  <2>2. k # 1
    BY <1>1, <1>5
  <2>3. k - 1 \in 1 .. n /\ k - 1 \notin bad
    BY <2>1, <2>2
  <2>4. f[k - 1] \in Seq(S) /\ q[k] \in Seq(S)
    BY <1>1, <2>3
  <2>5. f[k - 1] \o q[k] \in Seq(S)
    BY <2>4
  <2> QED
    BY <1>5, <2>2, <2>5
<1> QED
  BY <1>3, <1>4, <1>6

(* Nothing is the flat form of nothing.                                    *)
LEMMA FlattenEmpty == FlattenSeq(<<>>) = <<>>
BY DEF FlattenSeq

(* One more piece is appended to the flat form.                            *)
LEMMA FlattenAppend ==
  ASSUME NEW S, NEW q \in Seq(Seq(S)), NEW x \in Seq(S)
  PROVE  /\ FlattenSeq(q) \in Seq(S)
         /\ FlattenSeq(Append(q, x)) = FlattenSeq(q) \o x
<1> DEFINE n == Len(q)
           p == Append(q, x)
<1>1. p \in Seq(Seq(S)) /\ Len(p) = n + 1 /\ n \in Nat
  OBVIOUS
<1>a. p[n + 1] = x /\ \A i \in 1 .. n : p[i] = q[i]
  OBVIOUS
<1> HIDE DEF n, p
<1>2. PICK g : /\ g = [i \in 1 .. n + 1 |-> IF i = 1 THEN p[i] ELSE g[i - 1] \o p[i]]
               /\ FlattenSeq(p) = g[n + 1]
               /\ \A i \in 1 .. n + 1 : g[i] \in Seq(S)
  <2>1. Len(p) > 0
    BY <1>1
  <2> QED
    BY <1>1, <2>1, FlattenIs
<1>3. CASE n = 0
  <2>1. q = <<>> /\ p[1] = x
    BY <1>3, <1>a DEF n
  <2>2. FlattenSeq(p) = x
    BY <1>2, <1>3, <2>1
  <2>3. <<>> \o x = x
    OBVIOUS
  <2> QED
    BY <2>1, <2>2, <2>3, FlattenEmpty, EmptySeq DEF p
<1>4. CASE n > 0
  <2>1. PICK f : /\ f = [i \in 1 .. n |-> IF i = 1 THEN q[i] ELSE f[i - 1] \o q[i]]
                 /\ FlattenSeq(q) = f[n]
                 /\ \A i \in 1 .. n : f[i] \in Seq(S)
    BY <1>4, FlattenIs DEF n
  <2>2. \A i \in 1 .. n + 1 : g[i] = IF i = 1 THEN p[i] ELSE g[i - 1] \o p[i]
    BY <1>2
  <2>3. \A i \in 1 .. n : g[i] = IF i = 1 THEN q[i] ELSE g[i - 1] \o q[i]
    BY <1>1, <1>a, <2>2
  <2>4. \A i \in 1 .. n : f[i] = IF i = 1 THEN q[i] ELSE f[i - 1] \o q[i]
    BY <2>1
  <2>5. \A i \in 1 .. n : f[i] = g[i]
    <3> DEFINE bad == {i \in 1 .. n : f[i] # g[i]}
    <3> SUFFICES ASSUME bad # {} PROVE FALSE
      OBVIOUS
    <3>1. PICK k \in bad : \A y \in bad : k <= y
      <4>1. bad \subseteq Nat
        OBVIOUS
      <4> HIDE DEF bad
      <4> QED
        BY <4>1, Least
    <3>2. k # 1
      BY <2>3, <2>4
    <3>3. k - 1 \in 1 .. n /\ k - 1 \notin bad
      BY <1>1, <3>1, <3>2
    <3> QED
      BY <2>3, <2>4, <3>2, <3>3
  <2>6. g[n + 1] = g[n] \o p[n + 1]
    <3>1. n + 1 \in 1 .. n + 1 /\ n + 1 # 1 /\ (n + 1) - 1 = n
      BY <1>1, <1>4
    <3> QED
      BY <2>2, <3>1
  <2>7. n \in 1 .. n
    BY <1>1, <1>4
  <2>8. f[n] = g[n] /\ f[n] \in Seq(S)
    BY <2>1, <2>5, <2>7
  <2> QED
    BY <1>2, <1>a, <2>1, <2>6, <2>8 DEF p
<1> QED
  BY <1>1, <1>3, <1>4

(* One more piece in front comes in front of the flat form.                *)
LEMMA FlattenCons ==
  ASSUME NEW S, NEW x \in Seq(S), NEW q \in Seq(Seq(S))
  PROVE  FlattenSeq(<<x>> \o q) = x \o FlattenSeq(q)
<1> DEFINE Good(p) == FlattenSeq(<<x>> \o p) = x \o FlattenSeq(p)
           bad == {n \in Nat : \E p \in Seq(Seq(S)) : Len(p) = n /\ ~Good(p)}
<1> HIDE DEF Good
<1> SUFFICES ASSUME bad # {} PROVE FALSE
  <2>1. Len(q) \in Nat
    OBVIOUS
  <2>2. Good(q)
    BY <2>1
  <2> QED
    BY <2>2 DEF Good
<1>1. PICK n \in bad : \A y \in bad : n <= y
  <2>1. bad \subseteq Nat
    OBVIOUS
  <2> HIDE DEF bad
  <2> QED
    BY <2>1, Least
<1>2. PICK p \in Seq(Seq(S)) : Len(p) = n /\ ~Good(p)
  OBVIOUS
<1>3. n # 0
  <2> SUFFICES ASSUME n = 0 PROVE FALSE
    OBVIOUS
  <2>1. p = <<>>
    BY <1>2
  <2>2. Append(<<>>, x) = <<x>> \o p /\ <<>> \in Seq(Seq(S))
    BY <2>1
  <2>3. FlattenSeq(<<x>> \o p) = <<>> \o x
    BY <2>2, FlattenAppend, FlattenEmpty
  <2>4. <<>> \o x = x /\ x \o <<>> = x
    OBVIOUS
  <2> QED
    BY <1>2, <2>1, <2>3, <2>4, FlattenEmpty DEF Good
<1> DEFINE a == SubSeq(p, 1, n - 1)
           z == p[n]
<1>4. a \in Seq(Seq(S)) /\ z \in Seq(S) /\ Len(a) = n - 1 /\ p = Append(a, z)
  BY <1>2, <1>3
<1>5. Good(a)
  <2>1. n - 1 \in Nat /\ ~ (n <= n - 1)
    BY <1>3
  <2>2. n - 1 \notin bad
    BY <1>1, <2>1
  <2> QED
    BY <1>4, <2>1, <2>2
<1>6. <<x>> \o p = Append(<<x>> \o a, z)
  <2>1. <<x>> \in Seq(Seq(S)) /\ <<z>> \in Seq(Seq(S))
    BY <1>4
  <2>2. p = a \o <<z>> /\ Append(<<x>> \o a, z) = (<<x>> \o a) \o <<z>>
    BY <1>4, <2>1, AppendIsConcat, ConcatProperties
  <2>3. (<<x>> \o a) \o <<z>> = <<x>> \o (a \o <<z>>)
    <3> HIDE DEF a, z, bad
    <3> QED
      BY <1>4, <2>1, ConcatAssociative
  <2> QED
    BY <2>2, <2>3
<1>7. <<x>> \o a \in Seq(Seq(S))
  BY <1>4
<1>8. FlattenSeq(<<x>> \o p) = FlattenSeq(<<x>> \o a) \o z
  BY <1>4, <1>6, <1>7, FlattenAppend
<1>9. FlattenSeq(p) = FlattenSeq(a) \o z /\ FlattenSeq(a) \in Seq(S)
  BY <1>4, FlattenAppend
<1> HIDE DEF a, z, bad
<1>10. (x \o FlattenSeq(a)) \o z = x \o (FlattenSeq(a) \o z)
  BY <1>4, <1>9, ConcatAssociative
<1> QED
  BY <1>2, <1>5, <1>8, <1>9, <1>10 DEF Good

-----------------------------------------------------------------------------
(* What a client sends.                                                    *)

(* The bytes of a number are bytes, and the number can be read from them.  *)
LEMMA WordBytes ==
  ASSUME NEW n \in Word
  PROVE  /\ Uint32(n) \in Seq(Byte) /\ 4 <= Len(Uint32(n)) /\ Len(Uint32(n)) <= 4
         /\ n = Uint32(n)[1] + 256 * (Uint32(n)[2] + 256 * (Uint32(n)[3] + 256 * Uint32(n)[4]))
<1> DEFINE a == n \div 256
           b == n \div 65536
           c == n \div 16777216
           w == n % 256
           x == a % 256
           y == b % 256
<1>1. n \in Nat /\ c < 256
  BY SMT DEF Word
<1>2. a \in Nat /\ b \in Nat /\ c \in 0 .. 255
  BY <1>1, SMT
<1>3. \A m \in Nat : m % 256 = m - 256 * (m \div 256) /\ m % 256 \in 0 .. 255
  BY SMT
<1>4. b = a \div 256 /\ c = b \div 256
  BY <1>1, SMT
<1>5. Uint32(n) = <<w, x, y, c>>
  BY SMT DEF Uint32
<1>6. w = n - 256 * a /\ w \in 0 .. 255
  BY <1>1, <1>3
<1> HIDE DEF a, b, c
<1>7. x = a - 256 * b /\ y = b - 256 * c /\ x \in 0 .. 255 /\ y \in 0 .. 255
  BY <1>2, <1>3, <1>4, SMT
<1> HIDE DEF w, x, y
<1>8. w \in Byte /\ x \in Byte /\ y \in Byte /\ c \in Byte
  BY <1>2, <1>6, <1>7, SMT DEF Byte
<1>9. <<w, x, y, c>> \in Seq(Byte) /\ Len(<<w, x, y, c>>) = 4
  BY <1>8
<1>10. n = w + 256 * (x + 256 * (y + 256 * c))
  BY <1>1, <1>2, <1>6, <1>7, SMT
<1> QED
  BY <1>5, <1>9, <1>10, SMT

(* The kinds of commands, and their arguments.                             *)
LEMMA CommandIs ==
  ASSUME NEW c \in Command \cup Garbage
  PROVE  /\ c.kind \in {"getinfo", "settck", "shift", "junk"}
         /\ c \in Command <=> c.kind # "junk"
         /\ c.kind = "getinfo" => c = [kind |-> "getinfo"]
         /\ c.kind = "settck" =>
              c.period \in Word /\ c = [kind |-> "settck", period |-> c.period]
         /\ c.kind = "shift" =>
              /\ c.bits \in Word /\ c.tms \in Seq(Byte) /\ c.tdi \in Seq(Byte)
              /\ Len(c.tms) = BitsToBytes(c.bits) /\ Len(c.tdi) = BitsToBytes(c.bits)
              /\ c = [kind |-> "shift", bits |-> c.bits, tms |-> c.tms, tdi |-> c.tdi]
         /\ c.kind = "junk" =>
              /\ c.text \in Seq(Byte)
              /\ \A name \in {"getinfo", "settck", "shift"} :
                   /\ ~IsPrefix(c.text, CommandStr[name])
                   /\ ~IsPrefix(CommandStr[name], c.text)
<1>1. CASE c \in [kind : {"getinfo"}]
  BY <1>1 DEF Command, Garbage
<1>2. CASE c \in [kind : {"settck"}, period : Word]
  BY <1>2 DEF Command, Garbage
<1>3. CASE c \in [kind : {"shift"}, bits : Word, tms : Seq(Byte), tdi : Seq(Byte)]
  BY <1>3 DEF Command, Garbage
<1>4. CASE c \in Garbage
  BY <1>4 DEF Command, Garbage
<1> QED
  BY <1>1, <1>2, <1>3, <1>4 DEF Command

(* The string that a command begins with.                                  *)
Header(c) == IF c.kind = "junk" THEN c.text ELSE CommandStr[c.kind]

(* The bytes of a command: its string, then its arguments.                 *)
LEMMA EncodeIs ==
  ASSUME NEW c \in Command \cup Garbage
  PROVE  /\ Encode(c) \in Seq(Byte) /\ Header(c) \in Seq(Byte)
         /\ c.kind \in {"getinfo", "junk"} => Encode(c) = Header(c)
         /\ c.kind = "settck" => Encode(c) = Header(c) \o Uint32(c.period)
         /\ c.kind = "shift" =>
              Encode(c) = Header(c) \o Uint32(c.bits) \o c.tms \o c.tdi
<1>1. \A name \in {"getinfo", "settck", "shift"} : CommandStr[name] \in Seq(Byte)
  <2>1. \A n \in 0 .. 255 : n \in Byte
    BY DEF Byte
  <2>2. CommandStr["getinfo"] \in Seq(Byte)
    BY <2>1, SMT DEF CommandStr
  <2>3. CommandStr["settck"] \in Seq(Byte)
    BY <2>1, SMT DEF CommandStr
  <2>4. CommandStr["shift"] \in Seq(Byte)
    BY <2>1, SMT DEF CommandStr
  <2> QED
    BY <2>2, <2>3, <2>4
<1>2. Header(c) \in Seq(Byte)
  BY <1>1, CommandIs DEF Header
<1>3. CASE c.kind = "getinfo"
  BY <1>2, <1>3 DEF Encode, Header
<1>4. CASE c.kind = "settck"
  <2>1. Uint32(c.period) \in Seq(Byte)
    BY <1>4, CommandIs, WordBytes
  <2>2. Encode(c) = Header(c) \o Uint32(c.period)
    BY <1>4 DEF Encode, Header
  <2> QED
    BY <1>2, <1>4, <2>1, <2>2
<1>5. CASE c.kind = "shift"
  <2>1. Uint32(c.bits) \in Seq(Byte) /\ c.tms \in Seq(Byte) /\ c.tdi \in Seq(Byte)
    BY <1>5, CommandIs, WordBytes
  <2>2. Encode(c) = Header(c) \o Uint32(c.bits) \o c.tms \o c.tdi
    BY <1>5 DEF Encode, Header
  <2> QED
    BY <1>2, <1>5, <2>1, <2>2
<1>6. CASE c.kind = "junk"
  BY <1>2, <1>6 DEF Encode, Header
<1> QED
  BY <1>3, <1>4, <1>5, <1>6, CommandIs

(* The bytes of the first k commands, and how many they are.               *)
Codes(list, k) == [i \in 1 .. k |-> Encode(list[i])]
(* Where command k + 1 of the list begins in the stream.                   *)
Start(list, k) == Len(FlattenSeq(Codes(list, k)))

(* One more command.                                                       *)
LEMMA StartStep ==
  ASSUME NEW list \in Sessions
  PROVE  /\ Start(list, 0) = 0
         /\ \A k \in 0 .. Len(list) :
              FlattenSeq(Codes(list, k)) \in Seq(Byte) /\ Start(list, k) \in Nat
         /\ \A k \in 0 .. Len(list) - 1 :
              /\ FlattenSeq(Codes(list, k + 1))
                   = FlattenSeq(Codes(list, k)) \o Encode(list[k + 1])
              /\ Start(list, k + 1) = Start(list, k) + Len(Encode(list[k + 1]))
<1>1. list \in Seq(Command \cup Garbage) /\ Len(list) \in Nat
  BY SessionAssumption
<1>2. \A i \in 1 .. Len(list) : list[i] \in Command \cup Garbage
  BY <1>1
<1>3. \A i \in 1 .. Len(list) : Encode(list[i]) \in Seq(Byte)
  BY <1>2, EncodeIs
<1>4. \A k \in 0 .. Len(list) : Codes(list, k) \in Seq(Seq(Byte))
  BY <1>1, <1>3 DEF Codes
<1>5. Codes(list, 0) = <<>>
  BY DEF Codes
<1>6. ASSUME NEW k \in 0 .. Len(list)
      PROVE  FlattenSeq(Codes(list, k)) \in Seq(Byte)
  <2>1. <<>> \in Seq(Byte)
    OBVIOUS
  <2> QED
    BY <1>4, <2>1, FlattenAppend
<1>7. ASSUME NEW k \in 0 .. Len(list) - 1
      PROVE  /\ k \in 0 .. Len(list) /\ k + 1 \in 1 .. Len(list)
             /\ Codes(list, k + 1) = Append(Codes(list, k), Encode(list[k + 1]))
  <2>1. k \in 0 .. Len(list) /\ k + 1 \in 1 .. Len(list)
    BY <1>1
  <2>2. /\ Len(Codes(list, k)) = k /\ Len(Codes(list, k + 1)) = k + 1
        /\ Codes(list, k + 1) \in Seq(Seq(Byte)) /\ Codes(list, k) \in Seq(Seq(Byte))
    BY <1>1, <1>4, <2>1 DEF Codes
  <2>3. \A i \in 1 .. k + 1 :
          Codes(list, k + 1)[i] = Append(Codes(list, k), Encode(list[k + 1]))[i]
    BY <2>1, <2>2 DEF Codes
  <2>4. Encode(list[k + 1]) \in Seq(Byte)
    BY <1>3, <2>1
  <2>5. /\ Append(Codes(list, k), Encode(list[k + 1])) \in Seq(Seq(Byte))
        /\ Len(Append(Codes(list, k), Encode(list[k + 1]))) = k + 1
    BY <2>1, <2>2, <2>4
  <2> QED
    BY <2>1, <2>2, <2>3, <2>5, SeqEqual
<1>8. ASSUME NEW k \in 0 .. Len(list) - 1
      PROVE  /\ FlattenSeq(Codes(list, k + 1))
                  = FlattenSeq(Codes(list, k)) \o Encode(list[k + 1])
             /\ Start(list, k + 1) = Start(list, k) + Len(Encode(list[k + 1]))
  <2>1. Encode(list[k + 1]) \in Seq(Byte) /\ Codes(list, k) \in Seq(Seq(Byte))
    BY <1>3, <1>4, <1>7
  <2>2. FlattenSeq(Codes(list, k + 1))
          = FlattenSeq(Codes(list, k)) \o Encode(list[k + 1])
    BY <1>7, <2>1, FlattenAppend
  <2>3. FlattenSeq(Codes(list, k)) \in Seq(Byte)
    BY <1>6, <1>7
  <2> QED
    BY <2>1, <2>2, <2>3 DEF Start
<1> QED
  BY <1>5, <1>6, <1>8, FlattenEmpty DEF Start

(* The first k commands are the beginning of the stream.                   *)
LEMMA StreamBegins ==
  ASSUME NEW list \in Sessions, NEW k \in 0 .. Len(list)
  PROVE  /\ Stream[list] \in Seq(Byte)
         /\ Len(Stream[list]) = Start(list, Len(list))
         /\ Start(list, k) <= Len(Stream[list])
         /\ \A j \in 1 .. Start(list, k) :
              Stream[list][j] = FlattenSeq(Codes(list, k))[j]
<1> DEFINE Flat(m) == FlattenSeq(Codes(list, m))
           n == Len(list)
           bad == {m \in k .. n :
                     ~ /\ Len(Flat(k)) <= Len(Flat(m))
                       /\ \A j \in 1 .. Len(Flat(k)) : Flat(m)[j] = Flat(k)[j]}
<1>1. n \in Nat
  BY SessionAssumption
<1>2. Stream[list] = Flat(n)
  BY DEF Stream, Codes
<1>3. \A m \in 0 .. n : Flat(m) \in Seq(Byte)
  BY StartStep
<1>4. \A m \in 0 .. n - 1 : Flat(m + 1) = Flat(m) \o Encode(list[m + 1])
  BY StartStep
<1>5. \A m \in 1 .. n : Encode(list[m]) \in Seq(Byte)
  <2>1. \A m \in 1 .. n : list[m] \in Command \cup Garbage
    BY SessionAssumption
  <2> QED
    BY <2>1, EncodeIs
<1> HIDE DEF Flat
<1>6. bad = {}
  <2> SUFFICES ASSUME bad # {} PROVE FALSE
    OBVIOUS
  <2>1. PICK m \in bad : \A y \in bad : m <= y
    <3>1. bad \subseteq Nat
      OBVIOUS
    <3> HIDE DEF bad
    <3> QED
      BY <3>1, Least
  <2>2. m # k
    BY <1>1, <1>3
  <2>3. m - 1 \in k .. n /\ m - 1 \notin bad /\ m - 1 \in 0 .. n - 1 /\ m \in 1 .. n
    BY <1>1, <2>1, <2>2
  <2>4. /\ Len(Flat(k)) <= Len(Flat(m - 1))
        /\ \A j \in 1 .. Len(Flat(k)) : Flat(m - 1)[j] = Flat(k)[j]
    BY <2>3
  <2>5. Flat(m) = Flat(m - 1) \o Encode(list[m])
    BY <1>4, <2>3
  <2>6. /\ Flat(m - 1) \in Seq(Byte) /\ Flat(k) \in Seq(Byte)
        /\ Encode(list[m]) \in Seq(Byte)
    BY <1>3, <1>5, <2>3
  <2>7. /\ Len(Flat(k)) <= Len(Flat(m))
        /\ \A j \in 1 .. Len(Flat(k)) : Flat(m)[j] = Flat(k)[j]
    BY <2>4, <2>5, <2>6
  <2> QED
    BY <2>7
<1>7. n \in k .. n
  BY <1>1
<1>8. Len(Flat(k)) <= Len(Flat(n)) /\ \A j \in 1 .. Len(Flat(k)) : Flat(n)[j] = Flat(k)[j]
  BY <1>6, <1>7
<1> QED
  BY <1>1, <1>2, <1>3, <1>8 DEF Flat, Start

(* Command k + 1 is in the stream behind the first k.                      *)
LEMMA CommandAt ==
  ASSUME NEW list \in Sessions, NEW k \in 0 .. Len(list) - 1
  PROVE  LET c == list[k + 1]
             s == Stream[list]
         IN  /\ c \in Command \cup Garbage
             /\ Start(list, k) + Len(Encode(c)) = Start(list, k + 1)
             /\ Start(list, k) + Len(Encode(c)) <= Len(s)
             /\ \A j \in 1 .. Len(Encode(c)) : s[Start(list, k) + j] = Encode(c)[j]
             /\ c.kind = "junk" => Start(list, k) + Len(Encode(c)) = Len(s)
<1> DEFINE c == list[k + 1]
<1>1. /\ Len(list) \in Nat /\ c \in Command \cup Garbage
      /\ k + 1 < Len(list) => c \in Command
  BY SessionAssumption
<1>2. Encode(c) \in Seq(Byte)
  BY <1>1, EncodeIs
<1>3. /\ Start(list, k + 1) = Start(list, k) + Len(Encode(c))
      /\ FlattenSeq(Codes(list, k + 1)) = FlattenSeq(Codes(list, k)) \o Encode(c)
  BY StartStep
<1>4. k \in 0 .. Len(list) /\ k + 1 \in 0 .. Len(list)
  BY <1>1
<1>5. FlattenSeq(Codes(list, k)) \in Seq(Byte)
  BY <1>4, StartStep
<1>6. /\ Start(list, k + 1) <= Len(Stream[list])
      /\ \A j \in 1 .. Start(list, k + 1) :
           Stream[list][j] = FlattenSeq(Codes(list, k + 1))[j]
      /\ Len(Stream[list]) = Start(list, Len(list))
  BY <1>4, StreamBegins
<1>7. \A j \in 1 .. Len(Encode(c)) : Stream[list][Start(list, k) + j] = Encode(c)[j]
  BY <1>2, <1>3, <1>5, <1>6 DEF Start
<1>8. c.kind = "junk" => k + 1 = Len(list)
  BY <1>1, CommandIs
<1> QED
  BY <1>1, <1>3, <1>6, <1>7, <1>8

-----------------------------------------------------------------------------
(* The inductive invariant.                                                *)

(* How many commands are answered, and the command that comes next.        *)
Answered == Len(replies)
Current  == session[Answered + 1]

(* How many bytes of the current command are used up.                      *)
Used ==
  IF cmd = "NOT_SET" THEN 0
  ELSE Len(CommandStr[cmd]) + IF cmd = "shift" /\ bits # -1 THEN 4 ELSE 0

(* The connection is alive: the server receives or works on a chain.       *)
Serving == pc \in {"recv", "loop", "exec"}

(* The bytes that are received and not used up.                            *)
Pending == buf \o FlattenSeq(chain)

(* How much of the stream netconn_recv has handed over.                    *)
Received == Len(Stream[session]) - Len(rest)

(* s is what is between positions n and k of the stream.                   *)
Window(stream, k, s, n) ==
  /\ Len(s) = k - n
  /\ \A j \in 1 .. Len(s) : s[j] = stream[n + j]

(* The types, and that what is still to come is the end of the stream.     *)
Types ==
  /\ session \in Sessions
  /\ rest \in Seq(Byte)
  /\ Len(rest) <= Len(Stream[session])
  /\ \A j \in 1 .. Len(rest) :
       rest[j] = Stream[session][Len(Stream[session]) - Len(rest) + j]
  /\ chain \in Seq(Seq(Byte))
  /\ Len(chain) <= MaxChain
  /\ pc \in {"recv", "loop", "exec", "closed", "hung"}
  /\ cmd \in {"NOT_SET", "getinfo", "settck", "shift"}
  /\ bits \in Int
  /\ buf \in Seq(Byte)
  /\ Len(buf) <= 2 * MaxBytes
  /\ cmd = "NOT_SET" => Len(buf) < 8
  /\ failed \in BOOLEAN
  /\ conns \in 1 .. MaxConnections

(* handle_receive has a pbuf in hand, and nothing is left when it returns. *)
InHand ==
  /\ pc \in {"loop", "exec", "hung"} => chain # <<>>
  /\ pc = "recv" => chain = <<>>

(* What was answered is the beginning of the list.                         *)
InOrder ==
  /\ replies \in Seq(Command \cup Garbage)
  /\ Answered <= Len(session)
  /\ \A i \in 1 .. Answered : replies[i] = session[i]

(* What the connection state says about the current command.               *)
Reading ==
  Serving =>
    /\ cmd = "NOT_SET" =>
         /\ pc # "exec" /\ bits = -1
         /\ buf # <<>> => Answered < Len(session) /\ Len(buf) < Len(Header(Current))
    /\ cmd # "NOT_SET" => Answered < Len(session) /\ Current.kind = cmd
    /\ cmd = "getinfo" => pc = "exec" /\ buf = <<>> /\ bits = -1
    /\ cmd = "settck" => Len(buf) < 4 /\ bits = -1
    /\ cmd = "shift" /\ bits = -1 => Len(buf) < 4
    /\ cmd = "shift" /\ bits # -1 =>
         /\ bits = Current.bits /\ bits <= 8 * MaxBytes
         /\ \/ Len(buf) < 2 * BitsToBytes(bits)
            \/ bits = 0 /\ buf = <<>> /\ pc = "exec"

(* What is buffered and what is left of the chain are exactly the bytes of *)
(* the stream between the ones that are used up and those still to come.   *)
(* This ties the connection state to the client's list at every cut.       *)
Position ==
  Serving =>
    Window(Stream[session], Received, Pending, Start(session, Answered) + Used)

(* The inductive invariant.                                                *)
IInv == Types /\ InHand /\ InOrder /\ Reading /\ Position /\ StopsForCause

-----------------------------------------------------------------------------
(* Reading from a chain.                                                   *)

(* Sequences of bytes.                                                     *)
LEMMA Associative ==
  \A a, b, c \in Seq(Byte) : (a \o b) \o c = a \o (b \o c)
BY ConcatAssociative

(* A sequence of bytes cut after its first n.                              *)
LEMMA SplitAt ==
  ASSUME NEW p \in Seq(Byte), NEW n \in 0 .. Len(p)
  PROVE  /\ SubSeq(p, 1, n) \in Seq(Byte) /\ Len(SubSeq(p, 1, n)) = n
         /\ SubSeq(p, n + 1, Len(p)) \in Seq(Byte)
         /\ Len(SubSeq(p, n + 1, Len(p))) = Len(p) - n
         /\ p = SubSeq(p, 1, n) \o SubSeq(p, n + 1, Len(p))
         /\ \A f \in Seq(Byte) : SubSeq(p \o f, 1, n) = SubSeq(p, 1, n)
<1> DEFINE d == SubSeq(p, 1, n)
           e == SubSeq(p, n + 1, Len(p))
<1>1. n \in Nat /\ Len(p) \in Nat /\ n <= Len(p)
  OBVIOUS
<1>2. d \in Seq(Byte) /\ Len(d) = n /\ \A i \in 1 .. n : d[i] = p[i]
  BY <1>1
<1>3. e \in Seq(Byte) /\ Len(e) = Len(p) - n /\ \A i \in 1 .. Len(p) - n : e[i] = p[n + i]
  BY <1>1
<1> HIDE DEF d, e
<1>4. d \o e \in Seq(Byte) /\ Len(d \o e) = Len(p)
  BY <1>1, <1>2, <1>3
<1>5. ASSUME NEW i \in 1 .. Len(p) PROVE (d \o e)[i] = p[i]
  <2>1. CASE i <= n
    BY <1>1, <1>2, <1>3, <2>1
  <2>2. CASE i > n
    <3>1. i - n \in 1 .. Len(p) - n /\ n + (i - n) = i
      BY <1>1, <2>2
    <3>2. (d \o e)[i] = e[i - n]
      BY <1>1, <1>2, <1>3, <2>2
    <3> QED
      BY <1>3, <3>1, <3>2
  <2>3. i <= n \/ i > n
    BY <1>1
  <2> QED
    BY <2>1, <2>2, <2>3
<1>6. p = d \o e
  BY <1>4, <1>5, SeqEqual
<1>7. ASSUME NEW f \in Seq(Byte) PROVE SubSeq(p \o f, 1, n) = d
  <2>1. /\ p \o f \in Seq(Byte) /\ Len(p \o f) = Len(p) + Len(f)
        /\ \A i \in 1 .. n : (p \o f)[i] = p[i]
    BY <1>1
  <2>2. /\ SubSeq(p \o f, 1, n) \in Seq(Byte) /\ Len(SubSeq(p \o f, 1, n)) = n
        /\ \A i \in 1 .. n : SubSeq(p \o f, 1, n)[i] = (p \o f)[i]
    BY <1>1, <2>1
  <2> QED
    BY <1>2, <2>1, <2>2, SeqEqual
<1> QED
  BY <1>2, <1>3, <1>6, <1>7 DEF d, e

(* A chain is its first pbuf and the others.                               *)
LEMMA ChainIs ==
  ASSUME NEW ch \in Seq(Seq(Byte)), ch # <<>>
  PROVE  /\ Head(ch) \in Seq(Byte) /\ Tail(ch) \in Seq(Seq(Byte))
         /\ Len(ch) \in Nat /\ Len(ch) > 0
         /\ FlattenSeq(ch) \in Seq(Byte) /\ FlattenSeq(Tail(ch)) \in Seq(Byte)
         /\ FlattenSeq(ch) = Head(ch) \o FlattenSeq(Tail(ch))
         /\ Len(FlattenSeq(ch)) = Len(Head(ch)) + Len(FlattenSeq(Tail(ch)))
         /\ Len(ch) <= 1 => FlattenSeq(Tail(ch)) = <<>>
         /\ Len(Tail(ch)) = Len(ch) - 1
<1>1. /\ Head(ch) \in Seq(Byte) /\ Tail(ch) \in Seq(Seq(Byte))
      /\ Len(ch) \in Nat /\ Len(ch) > 0 /\ Len(Tail(ch)) = Len(ch) - 1
  OBVIOUS
<1>2. ch = <<Head(ch)>> \o Tail(ch)
  OBVIOUS
<1>3. <<>> \in Seq(Byte)
  OBVIOUS
<1>4. FlattenSeq(ch) \in Seq(Byte) /\ FlattenSeq(Tail(ch)) \in Seq(Byte)
  BY <1>1, <1>3, FlattenAppend
<1>5. FlattenSeq(ch) = Head(ch) \o FlattenSeq(Tail(ch))
  BY <1>1, <1>2, FlattenCons
<1>6. \A q \in Seq(Seq(Byte)) : Len(q) = 0 => q = <<>>
  OBVIOUS
<1>7. ASSUME Len(ch) <= 1 PROVE FlattenSeq(Tail(ch)) = <<>>
  <2>1. Len(Tail(ch)) = 0
    BY <1>1, <1>7
  <2>2. Tail(ch) = <<>>
    BY <1>1, <1>6, <2>1
  <2> QED
    BY <2>2, FlattenEmpty
<1>8. Len(FlattenSeq(ch)) = Len(Head(ch)) + Len(FlattenSeq(Tail(ch)))
  BY <1>1, <1>4, <1>5
<1> QED
  BY <1>1, <1>4, <1>5, <1>7, <1>8

(* A reader moves bytes from the first pbuf of chain ch to the end of      *)
(* buffer b; ch2 and b2 are what they become.                              *)
Moves(ch, b, ch2, b2) ==
  /\ ch2 \in Seq(Seq(Byte)) /\ ch2 # <<>>
  /\ Len(ch2) = Len(ch) /\ Tail(ch2) = Tail(ch)
  /\ b2 \in Seq(Byte)
  /\ b2 \o FlattenSeq(ch2) = b \o FlattenSeq(ch)
  /\ Len(b) <= Len(b2)
  /\ Len(Head(ch2)) = Len(Head(ch)) - (Len(b2) - Len(b))
  /\ Len(FlattenSeq(ch2)) = Len(FlattenSeq(ch)) - (Len(b2) - Len(b))

(* A reader that takes nothing moves nothing.                              *)
LEMMA MovesNothing ==
  ASSUME NEW ch \in Seq(Seq(Byte)), ch # <<>>, NEW b \in Seq(Byte)
  PROVE  Moves(ch, b, ch, b)
<1>1. /\ Len(b) \in Nat /\ Len(Head(ch)) \in Nat /\ Len(FlattenSeq(ch)) \in Nat
      /\ Len(b) - Len(b) = 0
  BY ChainIs
<1> QED
  BY <1>1 DEF Moves

(* What two readers move one after the other.                              *)
LEMMA MovesTwice ==
  ASSUME NEW ch \in Seq(Seq(Byte)), ch # <<>>, NEW b \in Seq(Byte),
         NEW ch2, NEW b2, NEW ch3, NEW b3,
         Moves(ch, b, ch2, b2), Moves(ch2, b2, ch3, b3)
  PROVE  Moves(ch, b, ch3, b3)
<1>1. b2 \in Seq(Byte) /\ b3 \in Seq(Byte)
  BY DEF Moves
<1>2. Head(ch) \in Seq(Byte) /\ FlattenSeq(ch) \in Seq(Byte)
  BY ChainIs
<1>3. /\ Len(b) \in Nat /\ Len(b2) \in Nat /\ Len(b3) \in Nat
      /\ Len(Head(ch)) \in Nat /\ Len(FlattenSeq(ch)) \in Nat
  BY <1>1, <1>2
<1>4. \A x, i, j, k \in Nat : x - (j - i) - (k - j) = x - (k - i)
  OBVIOUS
<1>5. /\ Len(Head(ch3)) = Len(Head(ch)) - (Len(b2) - Len(b)) - (Len(b3) - Len(b2))
      /\ Len(FlattenSeq(ch3)) = Len(FlattenSeq(ch)) - (Len(b2) - Len(b)) - (Len(b3) - Len(b2))
      /\ Len(b) <= Len(b2) /\ Len(b2) <= Len(b3)
  BY DEF Moves
<1>6. /\ Len(Head(ch3)) = Len(Head(ch)) - (Len(b3) - Len(b))
      /\ Len(FlattenSeq(ch3)) = Len(FlattenSeq(ch)) - (Len(b3) - Len(b))
      /\ Len(b) <= Len(b3)
  BY <1>3, <1>4, <1>5
<1> QED
  BY <1>6 DEF Moves

(* pbuf_header(-n) after copying n bytes of the first pbuf.                *)
LEMMA HideIs ==
  ASSUME NEW ch \in Seq(Seq(Byte)), ch # <<>>, NEW n \in 0 .. Len(Head(ch)),
         NEW b \in Seq(Byte)
  PROVE  /\ Moves(ch, b, Hide(ch, n), b \o SubSeq(Head(ch), 1, n))
         /\ Len(b \o SubSeq(Head(ch), 1, n)) = Len(b) + n
         /\ SubSeq(FlattenSeq(ch), 1, n) = SubSeq(Head(ch), 1, n)
<1> DEFINE p == Head(ch)
           t == Tail(ch)
           f == FlattenSeq(t)
           d == SubSeq(p, 1, n)
           e == SubSeq(p, n + 1, Len(p))
           h == Hide(ch, n)
<1>1. /\ p \in Seq(Byte) /\ t \in Seq(Seq(Byte)) /\ f \in Seq(Byte)
      /\ FlattenSeq(ch) = p \o f /\ Len(ch) \in Nat /\ Len(ch) > 0
      /\ Len(t) = Len(ch) - 1
  BY ChainIs
<1>2. n \in 0 .. Len(p)
  OBVIOUS
<1> HIDE DEF p, t, f
<1>3. /\ d \in Seq(Byte) /\ Len(d) = n
      /\ e \in Seq(Byte) /\ Len(e) = Len(p) - n
      /\ p = d \o e
  BY <1>1, <1>2, SplitAt, Zenon
<1>4. h = <<e>> \o t
  BY DEF Hide, p, t
<1>5. SubSeq(p \o f, 1, n) = d
  BY <1>1, <1>2, SplitAt
<1> HIDE DEF d, e, h
<1>6. /\ h \in Seq(Seq(Byte)) /\ h # <<>> /\ Len(h) = Len(ch)
      /\ Tail(h) = t /\ Head(h) = e
  <2>1. <<e>> \in Seq(Seq(Byte)) /\ Len(<<e>>) = 1 /\ <<e>>[1] = e
    BY <1>3
  <2>2. h \in Seq(Seq(Byte)) /\ Len(h) = Len(ch) /\ h # <<>>
    BY <1>1, <1>4, <2>1
  <2>3. Head(h) = e
    BY <1>1, <1>4, <2>1, <2>2
  <2>4. \A i \in 1 .. Len(t) : h[i + 1] = t[i]
    BY <1>1, <1>4, <2>1
  <2>5. /\ Tail(h) \in Seq(Seq(Byte)) /\ Len(Tail(h)) = Len(t)
        /\ \A i \in 1 .. Len(t) : Tail(h)[i] = h[i + 1]
    BY <1>1, <2>2
  <2>6. Tail(h) = t
    BY <1>1, <2>4, <2>5, SeqEqual
  <2> QED
    BY <2>2, <2>3, <2>6
<1>7. FlattenSeq(h) = e \o f
  <2>1. FlattenSeq(<<e>> \o t) = e \o FlattenSeq(t)
    BY <1>1, <1>3, FlattenCons
  <2> QED
    BY <1>4, <2>1 DEF f
<1>8. (b \o d) \o (e \o f) = b \o (p \o f)
  <2>1. d \o (e \o f) = (d \o e) \o f
    BY <1>1, <1>3, Associative
  <2>2. e \o f \in Seq(Byte)
    BY <1>1, <1>3
  <2>3. (b \o d) \o (e \o f) = b \o (d \o (e \o f))
    BY <1>3, <2>2, Associative
  <2> QED
    BY <1>3, <2>1, <2>3
<1>9. n \in Nat /\ Len(b) \in Nat /\ Len(p) \in Nat /\ Len(f) \in Nat
  BY <1>1
<1>10. \A x, y \in Seq(Byte) : x \o y \in Seq(Byte) /\ Len(x \o y) = Len(x) + Len(y)
  OBVIOUS
<1>11. b \o d \in Seq(Byte) /\ Len(b \o d) = Len(b) + n
  BY <1>3, <1>10
<1>12. Len(b \o d) - Len(b) = n /\ Len(b) <= Len(b \o d)
  BY <1>9, <1>11
<1>13. Len(FlattenSeq(h)) = Len(FlattenSeq(ch)) - n
  <2>1. Len(FlattenSeq(h)) = (Len(p) - n) + Len(f) /\ Len(FlattenSeq(ch)) = Len(p) + Len(f)
    <3>1. Len(e \o f) = Len(e) + Len(f) /\ Len(p \o f) = Len(p) + Len(f)
      BY <1>1, <1>3, <1>10
    <3> QED
      BY <1>1, <1>3, <1>7, <3>1
  <2> QED
    BY <1>9, <2>1
<1>14. Len(Head(h)) = Len(Head(ch)) - (Len(b \o d) - Len(b))
  BY <1>3, <1>6, <1>12 DEF p
<1>15. (b \o d) \o FlattenSeq(h) = b \o FlattenSeq(ch)
  BY <1>1, <1>7, <1>8
<1>16. Moves(ch, b, h, b \o d)
  BY <1>6, <1>11, <1>12, <1>13, <1>14, <1>15 DEF Moves, t
<1> QED
  BY <1>1, <1>5, <1>11, <1>16 DEF d, h, p

(* What Pull(_, n) makes of chain ch and buffer b: it takes the bytes that *)
(* it is asked for, as far as there are any, or hangs because they are not *)
(* all in the first pbuf.                                                  *)
Pulled(ch, b, n, p) ==
  LET all == Len(b) + Len(FlattenSeq(ch))
  IN  /\ p = [chain |-> p.chain, buf |-> p.buf, status |-> p.status]
      /\ Moves(ch, b, p.chain, p.buf)
      /\ p.status \in {"OK", "HANG"}
      /\ Len(b) >= n => p.buf = b /\ p.status = "OK"
      /\ p.status = "OK" /\ Len(b) < n => Len(p.buf) = IF n < all THEN n ELSE all
      /\ p.status = "HANG" =>
           /\ p.chain = ch
           /\ Len(b) + Len(Head(ch)) < n /\ Len(b) + Len(Head(ch)) < all

(* The block of read_command that copies and hides bytes either fills the  *)
(* buffer as far as it can or finds the bytes spread over two pbufs.       *)
LEMMA PullIs ==
  ASSUME NEW ch \in Seq(Seq(Byte)), ch # <<>>, NEW n \in Nat, NEW b \in Seq(Byte)
  PROVE  Pulled(ch, b, n, Pull([chain |-> ch, buf |-> b, status |-> "OK"], n))
<1> DEFINE r == [chain |-> ch, buf |-> b, status |-> "OK"]
           f == FlattenSeq(ch)
           m == IF n - Len(b) < Len(f) THEN n - Len(b) ELSE Len(f)
           got == SubSeq(f, 1, m)
           p == Pull(r, n)
           all == Len(b) + Len(f)
           hd == Len(Head(ch))
<1>1. f \in Seq(Byte) /\ Len(f) \in Nat /\ Len(b) \in Nat /\ hd \in Nat
  BY ChainIs
<1>2. r.chain = ch /\ r.buf = b /\ r.status = "OK"
  OBVIOUS
<1>3. CopyPartial(r.chain, n - Len(r.buf)) = got
  BY <1>2 DEF CopyPartial
<1>4. CanHide(r.chain, Len(got)) <=> Len(got) <= hd
  BY <1>2 DEF CanHide
<1>5. p = IF r.status = "HANG" \/ Len(r.buf) >= n THEN r
          ELSE IF CanHide(r.chain, Len(got))
               THEN [chain  |-> Hide(r.chain, Len(got)),
                     buf    |-> r.buf \o got,
                     status |-> "OK"]
               ELSE [r EXCEPT !.status = "HANG"]
  BY <1>3 DEF Pull
<1>7. [r EXCEPT !.status = "HANG"] = [chain |-> ch, buf |-> b, status |-> "HANG"]
  OBVIOUS
<1>8. m \in Int /\ (Len(b) < n => m \in Nat /\ Len(got) = m)
  BY <1>1
<1>9. m <= hd /\ Len(b) < n => Len(b) + m = IF n < all THEN n ELSE all
  BY <1>1
<1>10. m > hd /\ Len(b) < n => Len(b) + hd < n /\ Len(b) + hd < all
  BY <1>1
<1>11. m \in 0 .. hd => got = SubSeq(Head(ch), 1, m)
  BY HideIs
<1> HIDE DEF f, m, got, p, all, hd
<1>12. CASE Len(b) >= n
  <2>1. p = [chain |-> ch, buf |-> b, status |-> "OK"]
    BY <1>2, <1>5, <1>12
  <2>2. Moves(ch, b, ch, b)
    BY MovesNothing
  <2> HIDE DEF r
  <2>3. ~ (Len(b) < n)
    BY <1>1, <1>12
  <2> QED
    BY <2>1, <2>2, <2>3 DEF Pulled, p, r
<1>13. CASE Len(b) < n /\ m <= hd
  <2>1. p = [chain |-> Hide(ch, m), buf |-> b \o got, status |-> "OK"]
    <3>1. CanHide(r.chain, Len(got)) /\ ~ (r.status = "HANG" \/ Len(r.buf) >= n)
      BY <1>1, <1>2, <1>4, <1>8, <1>13
    <3>2. p = [chain |-> Hide(ch, Len(got)), buf |-> b \o got, status |-> "OK"]
      BY <1>2, <1>5, <3>1
    <3> QED
      BY <1>8, <1>13, <3>2
  <2>2. m \in 0 .. hd
    BY <1>1, <1>8, <1>13
  <2>3. Moves(ch, b, Hide(ch, m), b \o got) /\ Len(b \o got) = Len(b) + m
    BY <1>11, <2>2, HideIs DEF hd
  <2>4. ~ (Len(b) >= n)
    BY <1>1, <1>13
  <2>5. p.chain = Hide(ch, m) /\ p.buf = b \o got /\ p.status = "OK"
    BY <2>1
  <2>6. Moves(ch, b, p.chain, p.buf) /\ Len(p.buf) = IF n < all THEN n ELSE all
    BY <1>9, <1>13, <2>3, <2>5
  <2>7. p = [chain |-> p.chain, buf |-> p.buf, status |-> p.status]
    BY <2>1, <2>5
  <2> HIDE DEF r
  <2> QED
    BY <2>4, <2>5, <2>6, <2>7 DEF Pulled, p, r, all, f
<1>14. CASE Len(b) < n /\ m > hd
  <2>1. p = [chain |-> ch, buf |-> b, status |-> "HANG"]
    BY <1>1, <1>2, <1>4, <1>5, <1>7, <1>8, <1>14
  <2>2. Moves(ch, b, ch, b)
    BY MovesNothing
  <2>3. ~ (Len(b) >= n)
    BY <1>1, <1>14
  <2> HIDE DEF r
  <2> QED
    BY <1>10, <1>14, <2>1, <2>2, <2>3 DEF Pulled, p, r, all, f, hd
<1> QED
  BY <1>1, <1>8, <1>12, <1>13, <1>14

-----------------------------------------------------------------------------
(* Reading a command string.                                               *)

(* IsPrefix, byte by byte.                                                 *)
LEMMA PrefixIs ==
  ASSUME NEW a \in Seq(Byte), NEW b \in Seq(Byte)
  PROVE  IsPrefix(a, b) <=> Len(a) <= Len(b) /\ \A i \in 1 .. Len(a) : a[i] = b[i]
<1> SUFFICES ASSUME Len(a) <= Len(b)
             PROVE  SubSeq(a, 1, Len(a)) = SubSeq(b, 1, Len(a))
                      <=> \A i \in 1 .. Len(a) : a[i] = b[i]
  BY DEF IsPrefix
<1> DEFINE n == Len(a)
           d == SubSeq(b, 1, n)
<1>1. n \in Nat /\ Len(b) \in Nat
  OBVIOUS
<1>2. SubSeq(a, 1, n) = a
  BY <1>1
<1>3. d \in Seq(Byte) /\ Len(d) = n /\ \A i \in 1 .. n : d[i] = b[i]
  BY <1>1
<1> HIDE DEF d
<1>4. (\A i \in 1 .. n : a[i] = b[i]) => a = d
  BY <1>3, SeqEqual
<1>5. a = d => \A i \in 1 .. n : a[i] = b[i]
  BY <1>3
<1> QED
  BY <1>2, <1>4, <1>5 DEF d

(* The commands.                                                           *)
Names == {"getinfo", "settck", "shift"}

(* The strings: how long they are, and how they begin.                     *)
LEMMA StringsAre ==
  /\ \A name \in Names :
       /\ CommandStr[name] \in Seq(Byte)
       /\ Len(CommandStr[name]) \in Nat
       /\ 6 <= Len(CommandStr[name]) /\ Len(CommandStr[name]) <= 8
  /\ 8 <= Len(CommandStr["getinfo"]) /\ Len(CommandStr["getinfo"]) <= 8 /\ CommandStr["getinfo"][1] = 103
  /\ 7 <= Len(CommandStr["settck"]) /\ Len(CommandStr["settck"]) <= 7
  /\ CommandStr["settck"][1] = 115 /\ CommandStr["settck"][2] = 101
  /\ 6 <= Len(CommandStr["shift"]) /\ Len(CommandStr["shift"]) <= 6
  /\ CommandStr["shift"][1] = 115 /\ CommandStr["shift"][2] = 104
<1>1. \A n \in 0 .. 255 : n \in Byte
  BY DEF Byte
<1>2. /\ CommandStr["getinfo"] \in Seq(Byte) /\ 8 <= Len(CommandStr["getinfo"]) /\ Len(CommandStr["getinfo"]) <= 8
      /\ CommandStr["getinfo"][1] = 103
  BY <1>1, SMT DEF CommandStr
<1>3. /\ CommandStr["settck"] \in Seq(Byte) /\ 7 <= Len(CommandStr["settck"]) /\ Len(CommandStr["settck"]) <= 7
      /\ CommandStr["settck"][1] = 115 /\ CommandStr["settck"][2] = 101
  BY <1>1, SMT DEF CommandStr
<1>4. /\ CommandStr["shift"] \in Seq(Byte) /\ 6 <= Len(CommandStr["shift"]) /\ Len(CommandStr["shift"]) <= 6
      /\ CommandStr["shift"][1] = 115 /\ CommandStr["shift"][2] = 104
  BY <1>1, SMT DEF CommandStr
<1>5. ASSUME NEW name \in Names
      PROVE  /\ CommandStr[name] \in Seq(Byte) /\ Len(CommandStr[name]) \in Nat
             /\ 6 <= Len(CommandStr[name]) /\ Len(CommandStr[name]) <= 8
  <2>1. CASE name = "getinfo"
    BY <1>2, <2>1
  <2>2. CASE name = "settck"
    BY <1>3, <2>2
  <2>3. CASE name = "shift"
    BY <1>4, <2>3
  <2> QED
    BY <2>1, <2>2, <2>3 DEF Names
<1> QED
  BY <1>2, <1>3, <1>4, <1>5

(* What has been moved is the beginning of what there was.                 *)
LEMMA MovesPrefix ==
  ASSUME NEW ch \in Seq(Seq(Byte)), ch # <<>>, NEW b \in Seq(Byte), NEW ch2, NEW b2,
         Moves(ch, b, ch2, b2)
  PROVE  LET all == b \o FlattenSeq(ch)
         IN  /\ all \in Seq(Byte) /\ Len(all) = Len(b) + Len(FlattenSeq(ch))
             /\ Len(b2) <= Len(all)
             /\ \A j \in 1 .. Len(b2) : b2[j] = all[j]
<1> DEFINE f2 == FlattenSeq(ch2)
<1>1. b2 \in Seq(Byte) /\ f2 \in Seq(Byte) /\ b2 \o f2 = b \o FlattenSeq(ch)
  BY ChainIs DEF Moves
<1>2. FlattenSeq(ch) \in Seq(Byte)
  BY ChainIs
<1> HIDE DEF f2
<1>3. /\ Len(b2 \o f2) = Len(b2) + Len(f2) /\ Len(b2) \in Nat /\ Len(f2) \in Nat
      /\ \A j \in 1 .. Len(b2) : (b2 \o f2)[j] = b2[j]
  BY <1>1
<1>4. /\ b \o FlattenSeq(ch) \in Seq(Byte)
      /\ Len(b \o FlattenSeq(ch)) = Len(b) + Len(FlattenSeq(ch))
  BY <1>2
<1> QED
  BY <1>1, <1>3, <1>4

(* What Finish(_, name) makes of chain ch and buffer b.                    *)
Finished(ch, b, name, q) ==
  LET s == CommandStr[name]
  IN  /\ q = [chain |-> q.chain, buf |-> q.buf, status |-> q.status]
      /\ Moves(ch, b, q.chain, q.buf)
      /\ q.status \in {"HANG", "ERROR", "MORE", name}
      /\ q.status = "HANG" =>
           /\ Len(b) + Len(Head(ch)) < Len(s)
           /\ Len(b) + Len(Head(ch)) < Len(b) + Len(FlattenSeq(ch))
      /\ q.status = "ERROR" =>
           ~IsPrefix(q.buf, s) /\ (Len(b) <= Len(s) => Len(q.buf) <= Len(s))
      /\ q.status = "MORE" =>
           /\ IsPrefix(q.buf, s) /\ Len(q.buf) < Len(s)
           /\ Len(Head(ch)) > 0 => Len(b) < Len(q.buf)
      /\ q.status = name => q.buf = s

(* The end of a command string.                                            *)
LEMMA FinishIs ==
  ASSUME NEW ch \in Seq(Seq(Byte)), ch # <<>>, NEW b \in Seq(Byte), NEW name \in Names
  PROVE  Finished(ch, b, name, Finish([chain |-> ch, buf |-> b, status |-> "OK"], name))
<1> DEFINE r == [chain |-> ch, buf |-> b, status |-> "OK"]
           s == CommandStr[name]
           all == Len(b) + Len(FlattenSeq(ch))
           p == Pull(r, Len(s))
           st == IF p.status = "HANG" THEN "HANG"
                 ELSE IF ~IsPrefix(p.buf, s) THEN "ERROR"
                 ELSE IF p.buf = s THEN name
                 ELSE "MORE"
           q == Finish(r, name)
<1>1. s \in Seq(Byte) /\ Len(s) \in Nat
  BY StringsAre
<1>2. /\ p = [chain |-> p.chain, buf |-> p.buf, status |-> p.status]
      /\ Moves(ch, b, p.chain, p.buf)
      /\ p.status \in {"OK", "HANG"}
      /\ Len(b) >= Len(s) => p.buf = b /\ p.status = "OK"
      /\ p.status = "OK" /\ Len(b) < Len(s) =>
           Len(p.buf) = IF Len(s) < all THEN Len(s) ELSE all
      /\ p.status = "HANG" =>
           Len(b) + Len(Head(ch)) < Len(s) /\ Len(b) + Len(Head(ch)) < all
  <2> HIDE DEF s
  <2> QED
    <3>1. Pulled(ch, b, Len(s), p)
      BY <1>1, PullIs
    <3> HIDE DEF p
    <3> QED
      BY <3>1 DEF Pulled
<1>3. q = [p EXCEPT !.status = st]
  BY DEF Finish
<1>4. /\ Len(b) \in Nat /\ Len(FlattenSeq(ch)) \in Nat /\ Len(Head(ch)) \in Nat
      /\ Len(FlattenSeq(ch)) >= Len(Head(ch))
  BY ChainIs
<1> HIDE DEF s, p, r, all, q
<1>5. q.status = st /\ q.chain = p.chain /\ q.buf = p.buf
      /\ q = [chain |-> q.chain, buf |-> q.buf, status |-> q.status]
  <2> HIDE DEF st
  <2> QED
    BY <1>2, <1>3
<1>6. p.buf \in Seq(Byte) /\ Len(p.buf) \in Nat
  BY <1>2 DEF Moves
<1>7. CASE p.status = "HANG"
  <2>1. st = "HANG"
    BY <1>7
  <2>2. name # "HANG"
    BY DEF Names
  <2> HIDE DEF st
  <2> QED
    BY <1>2, <1>5, <1>7, <2>1, <2>2 DEF Finished, q, r, s, all
<1>8. CASE p.status = "OK" /\ ~IsPrefix(p.buf, s)
  <2>1. st = "ERROR"
    BY <1>8
  <2>2. name # "ERROR"
    BY DEF Names
  <2>3. Len(b) <= Len(s) => Len(p.buf) <= Len(s)
    BY <1>1, <1>2, <1>4, <1>8 DEF all
  <2> HIDE DEF st
  <2> QED
    BY <1>2, <1>5, <1>8, <2>1, <2>2, <2>3 DEF Finished, q, r, s
<1>9. CASE p.status = "OK" /\ p.buf = s
  <2>1. IsPrefix(p.buf, s)
    BY <1>1, <1>9, PrefixIs
  <2>2. st = name
    BY <1>9, <2>1
  <2>3. name \notin {"HANG", "ERROR", "MORE"}
    BY DEF Names
  <2> HIDE DEF st
  <2> QED
    BY <1>2, <1>5, <1>9, <2>2, <2>3 DEF Finished, q, r, s
<1>10. CASE p.status = "OK" /\ IsPrefix(p.buf, s) /\ p.buf # s
  <2>1. st = "MORE"
    BY <1>10
  <2>2. name # "MORE"
    BY DEF Names
  <2>3. Len(p.buf) < Len(s)
    <3>1. Len(p.buf) <= Len(s) /\ \A i \in 1 .. Len(p.buf) : p.buf[i] = s[i]
      BY <1>1, <1>6, <1>10, PrefixIs
    <3>2. Len(p.buf) # Len(s)
      BY <1>1, <1>6, <1>10, <3>1, SeqEqual
    <3> QED
      BY <1>1, <1>6, <3>1, <3>2
  <2>4. Len(Head(ch)) > 0 => Len(b) < Len(p.buf)
    <3>1. ~ (Len(b) >= Len(s))
      BY <1>1, <1>2, <1>4, <2>3
    <3> QED
      BY <1>1, <1>2, <1>4, <1>10, <2>3, <3>1 DEF all
  <2> HIDE DEF st
  <2> QED
    BY <1>2, <1>5, <1>10, <2>1, <2>2, <2>3, <2>4 DEF Finished, q, r, s
<1> HIDE DEF st
<1> QED
  BY <1>2, <1>7, <1>8, <1>9, <1>10

(* s is what the client sends from command c on, as far as it goes.        *)
Matches(c, s) ==
  /\ \A j \in 1 .. Len(s) : j <= Len(Header(c)) => s[j] = Header(c)[j]
  /\ c.kind = "junk" => Len(s) <= Len(Header(c))

(* What reading the string of command c makes of chain ch and buffer b.    *)
Understood(c, ch, b, r) ==
  /\ Moves(ch, b, r.chain, r.buf)
  /\ r.status \in {"HANG", "ERROR", "MORE"} \cup Names
  /\ r.status = "HANG" =>
       /\ Len(b) + Len(Head(ch)) < Len(Header(c))
       /\ Len(b) + Len(Head(ch)) < Len(b) + Len(FlattenSeq(ch))
  /\ r.status = "ERROR" => c.kind = "junk"
  /\ r.status = "MORE" =>
       Len(r.buf) < Len(Header(c)) /\ Len(r.buf) < 8 /\ Len(b) < Len(r.buf)
  /\ r.status \in Names => c.kind = r.status /\ r.buf = Header(c)

(* Header.                                                                 *)
LEMMA HeaderIs ==
  ASSUME NEW c \in Command \cup Garbage
  PROVE  /\ Header(c) \in Seq(Byte) /\ Len(Header(c)) \in Nat
         /\ c.kind # "junk" => /\ c.kind \in Names /\ Header(c) = CommandStr[c.kind]
                               /\ 6 <= Len(Header(c)) /\ Len(Header(c)) <= 8
         /\ c.kind = "junk" =>
              \A name \in Names : /\ ~IsPrefix(Header(c), CommandStr[name])
                                  /\ ~IsPrefix(CommandStr[name], Header(c))
<1>1. Header(c) \in Seq(Byte)
  BY EncodeIs
<1>a. Len(Header(c)) \in Nat
  BY <1>1
<1>2. ASSUME c.kind # "junk"
      PROVE  c.kind \in Names /\ Header(c) = CommandStr[c.kind]
  BY <1>2, CommandIs DEF Header, Names
<1>3. ASSUME c.kind = "junk"
      PROVE  \A name \in Names : /\ ~IsPrefix(Header(c), CommandStr[name])
                                 /\ ~IsPrefix(CommandStr[name], Header(c))
  BY <1>3, CommandIs DEF Header, Names
<1> QED
  BY <1>1, <1>a, <1>2, <1>3, StringsAre

(* The last part of reading a command: name is right if any is.            *)
LEMMA FinishUnderstood ==
  ASSUME NEW c \in Command \cup Garbage, NEW name \in Names,
         c.kind # "junk" => c.kind = name,
         NEW ch \in Seq(Seq(Byte)), ch # <<>>, NEW b \in Seq(Byte),
         Matches(c, b \o FlattenSeq(ch)), Len(Head(ch)) > 0,
         NEW ch2, NEW b2, Moves(ch, b, ch2, b2),
         c.kind # "junk" => Len(b2) <= Len(Header(c))
  PROVE  Understood(c, ch, b, Finish([chain |-> ch2, buf |-> b2, status |-> "OK"], name))
<1> DEFINE q == Finish([chain |-> ch2, buf |-> b2, status |-> "OK"], name)
           s == CommandStr[name]
           h == Header(c)
           all == b \o FlattenSeq(ch)
<1>1. ch2 \in Seq(Seq(Byte)) /\ ch2 # <<>> /\ b2 \in Seq(Byte)
  BY DEF Moves
<1>2. Finished(ch2, b2, name, q)
  BY <1>1, FinishIs
<1> HIDE DEF q
<1>3. Moves(ch2, b2, q.chain, q.buf)
  BY <1>2 DEF Finished
<1>4. Moves(ch, b, q.chain, q.buf)
  BY <1>3, MovesTwice
<1>5. /\ h \in Seq(Byte) /\ s \in Seq(Byte) /\ Len(h) \in Nat
      /\ Len(s) \in Nat /\ 6 <= Len(s) /\ Len(s) <= 8
      /\ c.kind # "junk" => h = s
      /\ c.kind = "junk" => ~IsPrefix(h, s) /\ ~IsPrefix(s, h)
  BY HeaderIs, StringsAre
<1>6. /\ all \in Seq(Byte) /\ Len(all) = Len(b) + Len(FlattenSeq(ch))
      /\ Len(q.buf) <= Len(all) /\ \A j \in 1 .. Len(q.buf) : q.buf[j] = all[j]
  BY <1>4, MovesPrefix
<1>7. /\ \A j \in 1 .. Len(all) : j <= Len(h) => all[j] = h[j]
      /\ c.kind = "junk" => Len(all) <= Len(h)
  BY DEF Matches
<1>8. q.buf \in Seq(Byte) /\ Len(q.buf) \in Nat /\ Len(all) \in Nat
  BY <1>4, <1>6 DEF Moves
<1> HIDE DEF s, h, all
<1>9. \A j \in 1 .. Len(q.buf) : j <= Len(h) => q.buf[j] = h[j]
  BY <1>6, <1>7, <1>8
<1>10. c.kind = "junk" => Len(q.buf) <= Len(h) /\ IsPrefix(q.buf, h)
  <2>1. c.kind = "junk" => Len(q.buf) <= Len(h)
    BY <1>5, <1>6, <1>7, <1>8
  <2>2. ASSUME c.kind = "junk" PROVE \A j \in 1 .. Len(q.buf) : q.buf[j] = h[j]
    BY <1>5, <1>8, <1>9, <2>1, <2>2
  <2> QED
    BY <1>5, <1>8, <2>1, <2>2, PrefixIs
<1>11. /\ Len(b) \in Nat /\ Len(b2) \in Nat /\ Len(Head(ch)) \in Nat /\ Len(Head(ch2)) \in Nat
       /\ Len(FlattenSeq(ch)) \in Nat
       /\ Len(b) <= Len(b2) /\ Len(Head(ch2)) = Len(Head(ch)) - (Len(b2) - Len(b))
       /\ Len(FlattenSeq(ch2)) = Len(FlattenSeq(ch)) - (Len(b2) - Len(b))
  <2>1. Head(ch) \in Seq(Byte) /\ FlattenSeq(ch) \in Seq(Byte) /\ Head(ch2) \in Seq(Byte)
    BY <1>1, ChainIs
  <2> QED
    BY <1>1, <2>1 DEF Moves
<1>12. q.status \in {"HANG", "ERROR", "MORE", name} /\ name \notin {"HANG", "ERROR", "MORE"}
  BY <1>2 DEF Finished, Names
<1>13. ASSUME q.status = "HANG"
       PROVE  /\ Len(b) + Len(Head(ch)) < Len(h)
              /\ Len(b) + Len(Head(ch)) < Len(b) + Len(FlattenSeq(ch))
  <2>1. /\ Len(b2) + Len(Head(ch2)) < Len(s)
        /\ Len(b2) + Len(Head(ch2)) < Len(b2) + Len(FlattenSeq(ch2))
    BY <1>2, <1>13 DEF Finished, s
  <2>2. Len(b2) + Len(Head(ch2)) = Len(b) + Len(Head(ch))
    BY <1>11
  <2>3. Len(b2) + Len(FlattenSeq(ch2)) = Len(b) + Len(FlattenSeq(ch))
    BY <1>11
  <2> QED
    BY <1>5, <1>6, <1>7, <1>8, <1>11, <2>1, <2>2, <2>3
<1>14. ASSUME q.status = "ERROR" PROVE c.kind = "junk"
  <2> SUFFICES ASSUME c.kind # "junk" PROVE FALSE
    OBVIOUS
  <2>1. h = s /\ Len(b2) <= Len(s)
    BY <1>5 DEF h
  <2>2. ~IsPrefix(q.buf, s) /\ Len(q.buf) <= Len(s)
    BY <1>2, <1>14, <2>1 DEF Finished, s
  <2>4. \A j \in 1 .. Len(q.buf) : q.buf[j] = s[j]
    BY <1>5, <1>8, <1>9, <2>1, <2>2
  <2> QED
    BY <1>5, <1>8, <2>2, <2>4, PrefixIs
<1>15. ASSUME q.status = "MORE"
       PROVE  Len(q.buf) < Len(h) /\ Len(q.buf) < 8 /\ Len(b) < Len(q.buf)
  <2>1. /\ IsPrefix(q.buf, s) /\ Len(q.buf) < Len(s)
        /\ Len(Head(ch2)) > 0 => Len(b2) < Len(q.buf)
    BY <1>2, <1>15 DEF Finished, s
  <2>2. Len(q.buf) < 8
    BY <1>5, <1>8, <2>1
  <2>3. Len(b2) <= Len(q.buf)
    BY <1>3 DEF Moves
  <2>4. Len(b) < Len(q.buf)
    BY <1>8, <1>11, <2>1, <2>3
  <2>5. Len(q.buf) < Len(h)
    <3>1. CASE c.kind # "junk"
      BY <1>5, <2>1, <3>1
    <3>2. CASE c.kind = "junk"
      <4>1. Len(q.buf) <= Len(h) /\ ~IsPrefix(h, s)
        BY <1>5, <1>10, <3>2
      <4>2. Len(q.buf) # Len(h)
        <5> SUFFICES ASSUME Len(q.buf) = Len(h) PROVE FALSE
          OBVIOUS
        <5>1. q.buf = h
          BY <1>5, <1>8, <1>9, SeqEqual
        <5> QED
          BY <2>1, <4>1, <5>1
      <4> QED
        BY <1>5, <1>8, <4>1, <4>2
    <3> QED
      BY <3>1, <3>2
  <2> QED
    BY <2>2, <2>4, <2>5
<1>16. ASSUME q.status = name PROVE c.kind = name /\ q.buf = h
  <2>1. q.buf = s
    BY <1>2, <1>16 DEF Finished, s
  <2>2. c.kind # "junk"
    BY <1>5, <1>10, <2>1
  <2> QED
    BY <1>5, <2>1, <2>2
<1>17. Understood(c, ch, b, q)
  BY <1>4, <1>12, <1>13, <1>14, <1>15, <1>16 DEF Understood, Names, h
<1> QED
  BY <1>17 DEF q

(* xvc_server_read_command understands the current command, and refuses    *)
(* only what is none.                                                      *)
LEMMA ReadCommandIs ==
  ASSUME NEW c \in Command \cup Garbage,
         NEW ch \in Seq(Seq(Byte)), ch # <<>>, NEW b \in Seq(Byte),
         Matches(c, b \o FlattenSeq(ch)), Len(Head(ch)) > 0,
         Len(b) < Len(Header(c))
  PROVE  Understood(c, ch, b, ReadCommand(ch, b))
<1> DEFINE p == Pull([chain |-> ch, buf |-> b, status |-> "OK"], MinLen)
           h == Header(c)
           all == b \o FlattenSeq(ch)
           r == ReadCommand(ch, b)
           More == [p EXCEPT !.status = "MORE"]
           Error == [p EXCEPT !.status = "ERROR"]
<1>1. Pulled(ch, b, MinLen, p)
  BY PullIs DEF MinLen
<1>2. r = CASE p.status = "HANG"                      -> p
            [] p.status # "HANG" /\ p.buf[1] = 103    -> Finish(p, "getinfo")
            [] p.status # "HANG" /\ p.buf = <<115>>   -> More
            [] /\ p.status # "HANG" /\ Len(p.buf) >= 2
               /\ p.buf[1] = 115 /\ p.buf[2] = 101    -> Finish(p, "settck")
            [] /\ p.status # "HANG" /\ Len(p.buf) >= 2
               /\ p.buf[1] = 115 /\ p.buf[2] = 104    -> Finish(p, "shift")
            [] OTHER                                  -> Error
  BY DEF ReadCommand
<1> HIDE DEF p, r
<1>3. /\ p = [chain |-> p.chain, buf |-> p.buf, status |-> p.status]
      /\ Moves(ch, b, p.chain, p.buf)
      /\ p.status \in {"OK", "HANG"}
  BY <1>1 DEF Pulled
<1>4. /\ h \in Seq(Byte) /\ Len(h) \in Nat
      /\ c.kind # "junk" => c.kind \in Names /\ h = CommandStr[c.kind] /\ 6 <= Len(h)
      /\ c.kind = "junk" =>
           \A name \in Names : ~IsPrefix(h, CommandStr[name]) /\ ~IsPrefix(CommandStr[name], h)
  BY HeaderIs
<1>5. /\ Len(b) \in Nat /\ Len(Head(ch)) \in Nat /\ Len(FlattenSeq(ch)) \in Nat
      /\ Len(FlattenSeq(ch)) >= Len(Head(ch))
  BY ChainIs
<1>6. /\ all \in Seq(Byte) /\ Len(all) = Len(b) + Len(FlattenSeq(ch))
      /\ Len(p.buf) <= Len(all) /\ \A j \in 1 .. Len(p.buf) : p.buf[j] = all[j]
  BY <1>3, MovesPrefix
<1>7. /\ \A j \in 1 .. Len(all) : j <= Len(h) => all[j] = h[j]
      /\ c.kind = "junk" => Len(all) <= Len(h)
  BY DEF Matches
<1>8. p.buf \in Seq(Byte) /\ Len(p.buf) \in Nat /\ Len(all) \in Nat
  BY <1>3, <1>6 DEF Moves
<1> HIDE DEF h, all
<1>9. /\ Len(b) >= 6 => p.buf = b
      /\ p.status = "OK" /\ Len(b) < 6 => Len(p.buf) = IF 6 < Len(all) THEN 6 ELSE Len(all)
      /\ p.status = "HANG" =>
           Len(b) + Len(Head(ch)) < 6 /\ Len(b) + Len(Head(ch)) < Len(all)
  BY <1>1, <1>6 DEF Pulled, MinLen
<1>10. Len(b) < Len(h)
  BY DEF h
<1>11. c.kind # "junk" /\ p.status = "OK" => Len(p.buf) <= Len(h)
  BY <1>4, <1>5, <1>8, <1>9, <1>10
<1>12. \A j \in 1 .. Len(p.buf) : j <= Len(h) => p.buf[j] = h[j]
  BY <1>4, <1>6, <1>7, <1>8
<1>13. p.status = "OK" => 1 <= Len(p.buf) /\ (Len(p.buf) < 2 => Len(b) < 1)
  <2>1. Len(all) >= 1 /\ Len(all) >= Len(b) + 1
    BY <1>5, <1>6
  <2>2. CASE Len(b) >= 6
    BY <1>5, <1>9, <2>2
  <2>3. CASE Len(b) < 6
    BY <1>5, <1>8, <1>9, <2>1, <2>3
  <2> QED
    BY <1>5, <2>2, <2>3
<1>14. CASE p.status = "HANG"
  <2>1. r = p
    BY <1>2, <1>14
  <2>2. Len(b) + Len(Head(ch)) < Len(h)
    BY <1>4, <1>5, <1>7, <1>8, <1>9, <1>14
  <2>3. "HANG" \notin Names
    BY DEF Names
  <2>4. Understood(c, ch, b, p)
    BY <1>3, <1>6, <1>9, <1>14, <2>2, <2>3 DEF Understood, h
  <2> QED
    BY <2>1, <2>4 DEF r
<1>15. ASSUME p.status = "OK", NEW name \in Names, c.kind # "junk" => c.kind = name
       PROVE  Understood(c, ch, b, Finish(p, name))
  <2>1. p = [chain |-> p.chain, buf |-> p.buf, status |-> "OK"]
    BY <1>3, <1>15
  <2>2. c.kind # "junk" => Len(p.buf) <= Len(Header(c))
    BY <1>11, <1>15 DEF h
  <2>3. Understood(c, ch, b, Finish([chain |-> p.chain, buf |-> p.buf, status |-> "OK"], name))
    BY <1>3, <1>15, <2>2, FinishUnderstood
  <2> QED
    BY <2>1, <2>3
<1>16. ASSUME p.status = "OK", c.kind # "junk"
       PROVE  /\ c.kind = "getinfo" => p.buf[1] = 103
              /\ c.kind = "settck" => p.buf[1] = 115 /\ (Len(p.buf) >= 2 => p.buf[2] = 101)
              /\ c.kind = "shift" => p.buf[1] = 115 /\ (Len(p.buf) >= 2 => p.buf[2] = 104)
  <2>1. p.buf[1] = h[1] /\ (Len(p.buf) >= 2 => p.buf[2] = h[2])
    BY <1>4, <1>8, <1>12, <1>13, <1>16
  <2>2. h = CommandStr[c.kind]
    BY <1>4, <1>16
  <2>3. /\ CommandStr["getinfo"][1] = 103
        /\ CommandStr["settck"][1] = 115 /\ CommandStr["settck"][2] = 101
        /\ CommandStr["shift"][1] = 115 /\ CommandStr["shift"][2] = 104
    BY StringsAre
  <2>4. ASSUME c.kind = "getinfo" PROVE p.buf[1] = 103
    BY <2>1, <2>2, <2>3, <2>4
  <2>5. ASSUME c.kind = "settck"
        PROVE  p.buf[1] = 115 /\ (Len(p.buf) >= 2 => p.buf[2] = 101)
    BY <2>1, <2>2, <2>3, <2>5
  <2>6. ASSUME c.kind = "shift"
        PROVE  p.buf[1] = 115 /\ (Len(p.buf) >= 2 => p.buf[2] = 104)
    BY <2>1, <2>2, <2>3, <2>6
  <2> QED
    BY <2>4, <2>5, <2>6
<1>17. CASE p.status = "OK" /\ p.buf[1] = 103
  <2>1. p.buf # <<115>>
    BY <1>17
  <2>2. r = Finish(p, "getinfo")
    BY <1>2, <1>17, <2>1
  <2>3. c.kind # "junk" => c.kind = "getinfo"
    BY <1>4, <1>16, <1>17 DEF Names
  <2>4. "getinfo" \in Names
    BY DEF Names
  <2> QED
    BY <1>15, <1>17, <2>2, <2>3, <2>4 DEF r
<1>18. CASE p.status = "OK" /\ p.buf = <<115>>
  <2>1. 1 <= Len(p.buf) /\ Len(p.buf) < 2 /\ p.buf[1] = 115
    BY <1>18
  <2>2. r = More
    BY <1>2, <1>18, <2>1
  <2>3. r.chain = p.chain /\ r.buf = p.buf /\ r.status = "MORE"
    BY <1>3, <2>2
  <2>4. Len(b) < 1
    BY <1>13, <1>18, <2>1
  <2>5. Len(h) > 1
    <3>1. CASE c.kind # "junk"
      BY <1>4, <3>1
    <3>2. CASE c.kind = "junk"
      <4>1. 1 <= Len(h)
        BY <1>4, <1>6, <1>7, <1>8, <2>1, <3>2
      <4>2. ~ (Len(h) < 2)
        <5> SUFFICES ASSUME Len(h) < 2 PROVE FALSE
          OBVIOUS
        <5>1. h[1] = 115
          <6>1. 1 \in 1 .. Len(p.buf) /\ 1 <= Len(h)
            BY <1>8, <2>1, <4>1
          <6>2. p.buf[1] = h[1]
            BY <1>12, <6>1
          <6> QED
            BY <2>1, <6>2
        <5>2. "settck" \in Names /\ ~IsPrefix(h, CommandStr["settck"])
          BY <1>4, <3>2 DEF Names
        <5>3. /\ CommandStr["settck"] \in Seq(Byte) /\ 7 <= Len(CommandStr["settck"]) /\ Len(CommandStr["settck"]) <= 7
              /\ CommandStr["settck"][1] = 115
          BY <5>2, StringsAre
        <5>4. \A i \in 1 .. Len(h) : h[i] = CommandStr["settck"][i]
          BY <5>1, <5>3
        <5>5. Len(h) <= Len(CommandStr["settck"])
          BY <5>3
        <5> QED
          BY <1>4, <5>2, <5>3, <5>4, <5>5, PrefixIs
      <4>3. Len(h) \in Nat
        BY <1>4
      <4> QED
        BY <4>1, <4>2, <4>3
    <3> QED
      BY <3>1, <3>2
  <2>6. "MORE" \notin Names
    BY DEF Names
  <2>7. Len(r.buf) < Len(Header(c)) /\ Len(r.buf) < 8 /\ Len(b) < Len(r.buf)
    BY <1>4, <1>5, <2>1, <2>3, <2>4, <2>5 DEF h
  <2>8. Understood(c, ch, b, r)
    BY <1>3, <2>3, <2>6, <2>7 DEF Understood
  <2> QED
    BY <2>8 DEF r
<1>19. CASE p.status = "OK" /\ Len(p.buf) >= 2 /\ p.buf[1] = 115 /\ p.buf[2] = 101
  <2>1. p.buf # <<115>>
    BY <1>19
  <2>2. r = Finish(p, "settck")
    BY <1>2, <1>19, <2>1
  <2>3. c.kind # "junk" => c.kind = "settck"
    BY <1>4, <1>16, <1>19 DEF Names
  <2>4. "settck" \in Names
    BY DEF Names
  <2> QED
    BY <1>15, <1>19, <2>2, <2>3, <2>4 DEF r
<1>20. CASE p.status = "OK" /\ Len(p.buf) >= 2 /\ p.buf[1] = 115 /\ p.buf[2] = 104
  <2>1. p.buf # <<115>>
    BY <1>20
  <2>2. r = Finish(p, "shift")
    BY <1>2, <1>20, <2>1
  <2>3. c.kind # "junk" => c.kind = "shift"
    BY <1>4, <1>16, <1>20 DEF Names
  <2>4. "shift" \in Names
    BY DEF Names
  <2> QED
    BY <1>15, <1>20, <2>2, <2>3, <2>4 DEF r
<1>21. CASE /\ p.status = "OK" /\ p.buf[1] # 103 /\ p.buf # <<115>>
            /\ ~ (Len(p.buf) >= 2 /\ p.buf[1] = 115 /\ p.buf[2] = 101)
            /\ ~ (Len(p.buf) >= 2 /\ p.buf[1] = 115 /\ p.buf[2] = 104)
  <2>1. r = Error
    BY <1>2, <1>21
  <2>2. r.chain = p.chain /\ r.buf = p.buf /\ r.status = "ERROR"
    BY <1>3, <2>1
  <2>3. c.kind = "junk"
    <3> SUFFICES ASSUME c.kind # "junk" PROVE FALSE
      OBVIOUS
    <3>1. p.buf[1] = 115 /\ ~ (Len(p.buf) >= 2)
      BY <1>4, <1>16, <1>21 DEF Names
    <3>2. Len(p.buf) = 1
      BY <1>8, <1>13, <1>21, <3>1
    <3>3. p.buf = <<115>>
      BY <1>8, <3>1, <3>2
    <3> QED
      BY <1>21, <3>3
  <2>4. "ERROR" \notin Names
    BY DEF Names
  <2>5. Understood(c, ch, b, r)
    BY <1>3, <2>2, <2>3, <2>4 DEF Understood
  <2> QED
    BY <2>5 DEF r
<1> QED
  BY <1>3, <1>14, <1>17, <1>18, <1>19, <1>20, <1>21

-----------------------------------------------------------------------------
(* Reading numbers and vectors, and receiving.                             *)

(* What reading up to n bytes makes of chain ch and buffer b.              *)
Filled(ch, b, n, r) ==
  /\ Moves(ch, b, r.chain, r.buf)
  /\ r.status \in {"OK", "MORE"}
  /\ r.status = "OK" => n <= Len(r.buf) /\ Len(r.buf) <= n
  /\ r.status = "MORE" => Len(r.buf) < n
  /\ Len(Head(ch)) > 0 /\ Len(b) < n => Len(b) < Len(r.buf)

(* What read_uint32 and read_data_shift_vector take from the first pbuf.   *)
LEMMA ReadBytesIs ==
  ASSUME NEW ch \in Seq(Seq(Byte)), ch # <<>>, NEW b \in Seq(Byte),
         NEW n \in Nat, Len(b) <= n
  PROVE  Filled(ch, b, n, ReadBytes(ch, b, n))
<1> DEFINE want == n - Len(b)
           hd == Len(Head(ch))
           k == IF hd < want THEN hd ELSE want
           r == ReadBytes(ch, b, n)
<1>1. hd \in Nat /\ Len(b) \in Nat
  BY ChainIs
<1>2. /\ r.chain = Hide(ch, k) /\ r.buf = b \o SubSeq(Head(ch), 1, k)
      /\ r.status = IF k = want THEN "OK" ELSE "MORE"
  BY DEF ReadBytes
<1> HIDE DEF r, hd
<1>3. k \in 0 .. hd /\ k <= want
  BY <1>1
<1> HIDE DEF k
<1>4. Moves(ch, b, r.chain, r.buf) /\ Len(r.buf) = Len(b) + k
  BY <1>2, <1>3, HideIs DEF hd
<1>5. k \in Nat /\ want \in Nat
  BY <1>1, <1>3
<1>6. k = want => n <= Len(r.buf) /\ Len(r.buf) <= n
  BY <1>1, <1>4, <1>5
<1>7. k # want => Len(r.buf) < n
  BY <1>1, <1>3, <1>4, <1>5
<1>8. hd > 0 /\ Len(b) < n => Len(b) < Len(r.buf)
  BY <1>1, <1>4, <1>5 DEF k
<1>9. Filled(ch, b, n, r)
  BY <1>2, <1>4, <1>6, <1>7, <1>8 DEF Filled, hd
<1> QED
  BY <1>9 DEF r

(* A piece of a sequence.                                                  *)
LEMMA SubSeqIs ==
  ASSUME NEW s \in Seq(Byte), NEW i \in Nat, NEW j \in Nat, i <= j, j <= Len(s)
  PROVE  /\ SubSeq(s, i + 1, j) \in Seq(Byte)
         /\ Len(SubSeq(s, i + 1, j)) = j - i
         /\ \A m \in 1 .. j - i : SubSeq(s, i + 1, j)[m] = s[i + m]
OBVIOUS

(* Two pieces of a sequence that meet.                                     *)
LEMMA SubSeqJoin ==
  ASSUME NEW s \in Seq(Byte), NEW i \in Nat, NEW j \in Nat, i <= j, j <= Len(s)
  PROVE  SubSeq(s, 1, i) \o SubSeq(s, i + 1, j) = SubSeq(s, 1, j)
<1> DEFINE a == SubSeq(s, 1, i)
           b == SubSeq(s, i + 1, j)
           c == SubSeq(s, 1, j)
<1>1. Len(s) \in Nat /\ i <= Len(s)
  OBVIOUS
<1>2. a \in Seq(Byte) /\ Len(a) = i /\ \A m \in 1 .. i : a[m] = s[m]
  BY <1>1
<1>3. b \in Seq(Byte) /\ Len(b) = j - i /\ \A m \in 1 .. j - i : b[m] = s[i + m]
  BY SubSeqIs
<1>4. c \in Seq(Byte) /\ Len(c) = j /\ \A m \in 1 .. j : c[m] = s[m]
  BY <1>1
<1> HIDE DEF a, b, c
<1>5. /\ a \o b \in Seq(Byte) /\ Len(a \o b) = j
      /\ \A m \in 1 .. i : (a \o b)[m] = a[m]
      /\ \A m \in i + 1 .. j : (a \o b)[m] = b[m - i]
  <2>1. \A x, y \in Seq(Byte) :
          /\ x \o y \in Seq(Byte) /\ Len(x \o y) = Len(x) + Len(y)
          /\ \A m \in 1 .. Len(x) : (x \o y)[m] = x[m]
          /\ \A m \in Len(x) + 1 .. Len(x) + Len(y) : (x \o y)[m] = y[m - Len(x)]
    OBVIOUS
  <2>2. i + (j - i) = j
    OBVIOUS
  <2>3. /\ a \o b \in Seq(Byte) /\ Len(a \o b) = Len(a) + Len(b)
        /\ \A m \in 1 .. Len(a) : (a \o b)[m] = a[m]
        /\ \A m \in Len(a) + 1 .. Len(a) + Len(b) : (a \o b)[m] = b[m - Len(a)]
    BY <1>2, <1>3, <2>1
  <2>4. Len(a) = i /\ Len(b) = j - i
    BY <1>2, <1>3
  <2> QED
    BY <2>2, <2>3, <2>4
<1>6. ASSUME NEW m \in 1 .. j PROVE (a \o b)[m] = c[m]
  <2>1. CASE m <= i
    BY <1>2, <1>4, <1>5, <2>1
  <2>2. CASE m > i
    <3>1. m - i \in 1 .. j - i /\ i + (m - i) = m /\ m \in i + 1 .. j
      BY <2>2
    <3> QED
      BY <1>3, <1>4, <1>5, <3>1
  <2>3. m <= i \/ m > i
    OBVIOUS
  <2> QED
    BY <2>1, <2>2, <2>3
<1>7. a \o b = c
  BY <1>4, <1>5, <1>6, SeqEqual
<1> QED
  BY <1>7 DEF a, b, c

(* The pbufs of a chain that is cut at c.                                  *)
Piece(s, c, j) == SubSeq(s, IF j = 1 THEN 1 ELSE c[j - 1] + 1, c[j])
(* The whole chain.                                                        *)
Pieces(s, c, m) == [j \in 1 .. m |-> Piece(s, c, j)]

(* A chain of pbufs holds the bytes that were cut, in their order.         *)
LEMMA CutIs ==
  ASSUME NEW s \in Seq(Byte), NEW c \in Cuts(Len(s))
  PROVE  LET q == Pieces(s, c, Len(c))
         IN  /\ q \in Seq(Seq(Byte)) /\ q # <<>> /\ Len(q) <= MaxChain
             /\ c[Len(c)] \in 1 .. Len(s)
             /\ FlattenSeq(q) = SubSeq(s, 1, c[Len(c)])
<1> DEFINE n == Len(c)
<1>1. /\ n \in Nat /\ 1 <= n /\ n <= MaxChain /\ Len(s) \in Nat
      /\ \A j \in 1 .. n : c[j] \in 1 .. Len(s)
      /\ \A j \in 1 .. n - 1 : c[j] < c[j + 1]
  <2>1. PICK m \in 1 .. MaxChain : c \in [1 .. m -> 1 .. Len(s)]
    BY DEF Cuts
  <2>2. m \in Nat /\ 1 <= m /\ m <= MaxChain
    BY SizeAssumption
  <2>3. c \in Seq(1 .. Len(s)) /\ n = m
    BY <2>1, <2>2
  <2>4. \A j \in 1 .. n - 1 : c[j] < c[j + 1]
    BY DEF Cuts
  <2> HIDE DEF n
  <2> QED
    BY <2>1, <2>2, <2>3, <2>4
<1> HIDE DEF n
<1>2. ASSUME NEW j \in 1 .. n
      PROVE  /\ Piece(s, c, j) \in Seq(Byte)
             /\ j > 1 => /\ Piece(s, c, j) = SubSeq(s, c[j - 1] + 1, c[j])
                         /\ c[j - 1] \in Nat /\ c[j - 1] <= c[j] /\ j - 1 \in 1 .. n
             /\ j <= 1 => Piece(s, c, j) = SubSeq(s, 1, c[j])
             /\ c[j] \in Nat /\ c[j] <= Len(s)
  <2>1. c[j] \in Nat /\ c[j] <= Len(s)
    BY <1>1
  <2>2. CASE j > 1
    <3>1. j - 1 \in 1 .. n /\ j - 1 \in 1 .. n - 1 /\ (j - 1) + 1 = j /\ j # 1 /\ ~ (j <= 1)
      BY <1>1, <2>2
    <3>2. c[j - 1] \in Nat /\ c[j - 1] <= c[j]
      BY <1>1, <2>1, <3>1
    <3>3. Piece(s, c, j) = SubSeq(s, c[j - 1] + 1, c[j])
      BY <3>1 DEF Piece
    <3> QED
      BY <2>1, <3>1, <3>2, <3>3, SubSeqIs
  <2>3. CASE j = 1
    <3>1. Piece(s, c, j) = SubSeq(s, 1, c[j])
      BY <2>3 DEF Piece
    <3>2. SubSeq(s, 1, c[j]) \in Seq(Byte)
      BY <2>1
    <3>3. j <= 1 /\ ~ (j > 1)
      BY <2>3
    <3> QED
      BY <2>1, <3>1, <3>2, <3>3
  <2>4. j = 1 \/ j > 1
    BY <1>1
  <2> QED
    BY <2>2, <2>3, <2>4
<1>3. \A m \in 0 .. n : Pieces(s, c, m) \in Seq(Seq(Byte)) /\ Len(Pieces(s, c, m)) = m
  BY <1>1, <1>2 DEF Pieces
<1>4. ASSUME NEW m \in 0 .. n - 1
      PROVE  Pieces(s, c, m + 1) = Append(Pieces(s, c, m), Piece(s, c, m + 1))
  <2>1. m \in 0 .. n /\ m + 1 \in 0 .. n /\ m + 1 \in 1 .. n
    BY <1>1
  <2>2. /\ Pieces(s, c, m) \in Seq(Seq(Byte)) /\ Len(Pieces(s, c, m)) = m
        /\ Pieces(s, c, m + 1) \in Seq(Seq(Byte)) /\ Len(Pieces(s, c, m + 1)) = m + 1
        /\ Piece(s, c, m + 1) \in Seq(Byte)
    BY <1>2, <1>3, <2>1
  <2>3. /\ Append(Pieces(s, c, m), Piece(s, c, m + 1)) \in Seq(Seq(Byte))
        /\ Len(Append(Pieces(s, c, m), Piece(s, c, m + 1))) = m + 1
    <3>1. \A q \in Seq(Seq(Byte)) : \A x \in Seq(Byte) :
            Append(q, x) \in Seq(Seq(Byte)) /\ Len(Append(q, x)) = Len(q) + 1
      OBVIOUS
    <3> QED
      BY <2>2, <3>1
  <2>4. \A i \in 1 .. m + 1 :
          Pieces(s, c, m + 1)[i] = Append(Pieces(s, c, m), Piece(s, c, m + 1))[i]
    BY <2>1, <2>2 DEF Pieces
  <2> QED
    BY <2>2, <2>3, <2>4, SeqEqual
<1> DEFINE bad == {m \in 1 .. n : FlattenSeq(Pieces(s, c, m)) # SubSeq(s, 1, c[m])}
<1>5. bad = {}
  <2> SUFFICES ASSUME bad # {} PROVE FALSE
    OBVIOUS
  <2>1. PICK m \in bad : \A y \in bad : m <= y
    <3>1. bad \subseteq Nat
      OBVIOUS
    <3> HIDE DEF bad
    <3> QED
      BY <3>1, Least
  <2>2. m \in 1 .. n /\ m - 1 \in 0 .. n - 1 /\ m - 1 \in 0 .. n /\ (m - 1) + 1 = m
    BY <1>1
  <2>3. Pieces(s, c, m) = Append(Pieces(s, c, m - 1), Piece(s, c, m))
    BY <1>4, <2>2
  <2>4. FlattenSeq(Pieces(s, c, m)) = FlattenSeq(Pieces(s, c, m - 1)) \o Piece(s, c, m)
    BY <1>2, <1>3, <2>2, <2>3, FlattenAppend
  <2>5. CASE m > 1
    <3>1. m - 1 \in 1 .. n /\ m - 1 \notin bad
      BY <1>1, <2>1, <2>5
    <3>2. FlattenSeq(Pieces(s, c, m - 1)) = SubSeq(s, 1, c[m - 1])
      BY <3>1
    <3>3. /\ Piece(s, c, m) = SubSeq(s, c[m - 1] + 1, c[m])
          /\ c[m - 1] \in Nat /\ c[m] \in Nat /\ c[m - 1] <= c[m] /\ c[m] <= Len(s)
      BY <1>2, <2>2, <2>5
    <3>4. SubSeq(s, 1, c[m - 1]) \o SubSeq(s, c[m - 1] + 1, c[m]) = SubSeq(s, 1, c[m])
      BY <3>3, SubSeqJoin
    <3> QED
      BY <2>4, <3>2, <3>3, <3>4
  <2>6. CASE m <= 1
    <3>1. m - 1 = 0 /\ Pieces(s, c, 0) = <<>>
      BY <1>1, <2>6 DEF Pieces
    <3>2. Piece(s, c, m) = SubSeq(s, 1, c[m]) /\ Piece(s, c, m) \in Seq(Byte)
      BY <1>2, <2>2, <2>6
    <3>3. <<>> \o Piece(s, c, m) = Piece(s, c, m)
      BY <3>2
    <3> QED
      BY <2>4, <3>1, <3>2, <3>3, FlattenEmpty
  <2>7. m > 1 \/ m <= 1
    BY <2>2
  <2> QED
    BY <2>5, <2>6, <2>7
<1>6. n \in 1 .. n /\ n \in 0 .. n
  BY <1>1
<1>7. FlattenSeq(Pieces(s, c, n)) = SubSeq(s, 1, c[n])
  BY <1>5, <1>6
<1>8. Pieces(s, c, n) \in Seq(Seq(Byte)) /\ Len(Pieces(s, c, n)) = n
  BY <1>3, <1>6
<1>9. Pieces(s, c, n) # <<>> /\ Len(Pieces(s, c, n)) <= MaxChain
  BY <1>1, <1>8
<1> QED
  BY <1>1, <1>6, <1>7, <1>8, <1>9 DEF n

-----------------------------------------------------------------------------
(* Where the bytes of a command are.                                       *)

(* Bytes that are used up leave the window.                                *)
LEMMA WindowDrop ==
  ASSUME NEW stream \in Seq(Byte), NEW k \in Nat, NEW n \in Nat,
         NEW a \in Seq(Byte), NEW f \in Seq(Byte), Window(stream, k, a \o f, n)
  PROVE  /\ Window(stream, k, f, n + Len(a))
         /\ \A j \in 1 .. Len(a) : a[j] = stream[n + j]
<1>1. /\ Len(a) \in Nat /\ Len(f) \in Nat /\ Len(a \o f) = Len(a) + Len(f)
      /\ \A j \in 1 .. Len(a) : (a \o f)[j] = a[j]
      /\ \A j \in 1 .. Len(f) : (a \o f)[Len(a) + j] = f[j]
  OBVIOUS
<1>2. Len(a) + Len(f) = k - n /\ \A j \in 1 .. Len(a) + Len(f) : (a \o f)[j] = stream[n + j]
  BY <1>1 DEF Window
<1>3. ASSUME NEW j \in 1 .. Len(a) PROVE a[j] = stream[n + j]
  <2>1. j \in 1 .. Len(a) + Len(f)
    BY <1>1
  <2> QED
    BY <1>1, <1>2, <2>1
<1>4. ASSUME NEW j \in 1 .. Len(f) PROVE f[j] = stream[(n + Len(a)) + j]
  <2>1. Len(a) + j \in 1 .. Len(a) + Len(f) /\ n + (Len(a) + j) = (n + Len(a)) + j
    BY <1>1
  <2> QED
    BY <1>1, <1>2, <2>1
<1>5. Len(f) = k - (n + Len(a))
  BY <1>1, <1>2
<1> QED
  BY <1>3, <1>4, <1>5 DEF Window

(* What command k + 1 of a list puts where.                                *)
Layout(list, k) ==
  LET c == list[k + 1]
      s == Stream[list]
      st == Start(list, k)
      n == BitsToBytes(c.bits)
  IN  /\ s \in Seq(Byte) /\ st \in Nat /\ c \in Command \cup Garbage
      /\ st + Len(Header(c)) <= Len(s) /\ st < Len(s)
      /\ \A j \in 1 .. Len(Header(c)) : s[st + j] = Header(c)[j]
      /\ c.kind = "junk" => st + Len(Header(c)) = Len(s)
      /\ c.kind = "getinfo" => Start(list, k + 1) = st + Len(Header(c))
      /\ c.kind = "settck" =>
           /\ Start(list, k + 1) = (st + Len(Header(c))) + 4
           /\ Start(list, k + 1) <= Len(s)
           /\ \A j \in 1 .. 4 : s[(st + Len(Header(c))) + j] = Uint32(c.period)[j]
      /\ c.kind = "shift" =>
           /\ Start(list, k + 1) = (st + Len(Header(c))) + 4 + 2 * n
           /\ Start(list, k + 1) <= Len(s)
           /\ \A j \in 1 .. 4 : s[(st + Len(Header(c))) + j] = Uint32(c.bits)[j]
           /\ \A j \in 1 .. n : s[((st + Len(Header(c))) + 4) + j] = c.tms[j]
           /\ \A j \in 1 .. n : s[((st + Len(Header(c))) + 4) + (n + j)] = c.tdi[j]

(* A vector has room in the buffer when its length was accepted.           *)
LEMMA BytesIs ==
  ASSUME NEW n \in Nat
  PROVE  /\ BitsToBytes(n) \in Nat
         /\ n <= 8 * MaxBytes => BitsToBytes(n) <= MaxBytes
         /\ n > 0 => BitsToBytes(n) > 0
         /\ n = 0 => BitsToBytes(n) = 0
BY SizeAssumption, SMT DEF BitsToBytes

(* The header, the numbers and the vectors of a command are where the      *)
(* client put them.                                                        *)
LEMMA LayoutIs ==
  ASSUME NEW list \in Sessions, NEW k \in 0 .. Len(list) - 1
  PROVE  Layout(list, k)
<1> DEFINE c == list[k + 1]
           s == Stream[list]
           st == Start(list, k)
           e == Encode(c)
           h == Header(c)
           n == BitsToBytes(c.bits)
<1>1. Len(list) \in Nat /\ k \in 0 .. Len(list) /\ k + 1 \in 0 .. Len(list)
  BY SessionAssumption
<1>2. /\ c \in Command \cup Garbage
      /\ st + Len(e) = Start(list, k + 1) /\ st + Len(e) <= Len(s)
      /\ \A j \in 1 .. Len(e) : s[st + j] = e[j]
      /\ c.kind = "junk" => st + Len(e) = Len(s)
  BY CommandAt
<1>3. s \in Seq(Byte) /\ st \in Nat
  BY <1>1, StreamBegins, StartStep
<1>4. e \in Seq(Byte) /\ h \in Seq(Byte) /\ Len(e) \in Nat /\ Len(h) \in Nat /\ Len(s) \in Nat
  <2>1. e \in Seq(Byte) /\ h \in Seq(Byte)
    BY <1>2, EncodeIs
  <2> QED
    BY <1>3, <2>1
<1>5. /\ c.kind \in {"getinfo", "junk"} => e = h
      /\ c.kind = "settck" => e = h \o Uint32(c.period)
      /\ c.kind = "shift" => e = h \o Uint32(c.bits) \o c.tms \o c.tdi
  BY <1>2, EncodeIs
<1>6. 1 <= Len(h)
  <2>1. CASE c.kind # "junk"
    BY <1>2, <1>4, <2>1, HeaderIs
  <2>2. CASE c.kind = "junk"
    <3>1. ~IsPrefix(h, CommandStr["shift"]) /\ CommandStr["shift"] \in Seq(Byte)
      BY <1>2, <2>2, HeaderIs, StringsAre DEF Names
    <3>2. Len(h) < 1 => IsPrefix(h, CommandStr["shift"])
      <4> SUFFICES ASSUME Len(h) < 1 PROVE IsPrefix(h, CommandStr["shift"])
        OBVIOUS
      <4>1. Len(h) <= Len(CommandStr["shift"]) /\ \A i \in 1 .. Len(h) : h[i] = CommandStr["shift"][i]
        BY <1>4, <3>1
      <4> QED
        BY <1>4, <3>1, <4>1, PrefixIs
    <3> QED
      BY <1>4, <3>1, <3>2
  <2> QED
    BY <2>1, <2>2
<1>7. \A x, y \in Seq(Byte) :
        /\ x \o y \in Seq(Byte) /\ Len(x \o y) = Len(x) + Len(y)
        /\ \A m \in 1 .. Len(x) : (x \o y)[m] = x[m]
        /\ \A m \in 1 .. Len(y) : (x \o y)[Len(x) + m] = y[m]
  OBVIOUS
<1> HIDE DEF c, s, st, e, h
<1>a. st + Len(e) = Start(list, k + 1) /\ st + Len(e) <= Len(s) /\ st \in Nat
  BY <1>2, <1>3
<1>8. ASSUME NEW x \in Seq(Byte), e = h \o x
      PROVE  /\ Len(e) = Len(h) + Len(x)
             /\ \A j \in 1 .. Len(h) : s[st + j] = h[j]
             /\ \A j \in 1 .. Len(x) : s[(st + Len(h)) + j] = x[j]
  <2>1. /\ Len(e) = Len(h) + Len(x) /\ Len(x) \in Nat
        /\ \A j \in 1 .. Len(h) : e[j] = h[j]
        /\ \A j \in 1 .. Len(x) : e[Len(h) + j] = x[j]
    BY <1>4, <1>7, <1>8
  <2>2. \A j \in 1 .. Len(h) : s[st + j] = h[j]
    BY <1>2, <1>4, <2>1
  <2>3. ASSUME NEW j \in 1 .. Len(x) PROVE s[(st + Len(h)) + j] = x[j]
    <3>1. Len(h) + j \in 1 .. Len(e) /\ st + (Len(h) + j) = (st + Len(h)) + j
      BY <1>3, <1>4, <2>1
    <3> QED
      BY <1>2, <2>1, <3>1
  <2> QED
    BY <2>1, <2>2, <2>3
<1>9. CASE c.kind \in {"getinfo", "junk"}
  <2>1. e = h
    BY <1>5, <1>9
  <2>2. st < Len(s)
    BY <1>2, <1>3, <1>4, <1>6, <2>1
  <2> QED
    BY <1>2, <1>3, <1>9, <2>1, <2>2 DEF Layout, c, s, st, h
<1>10. CASE c.kind = "settck"
  <2> DEFINE x == Uint32(c.period)
  <2>1. x \in Seq(Byte) /\ 4 <= Len(x) /\ Len(x) <= 4
    BY <1>2, <1>10, CommandIs, WordBytes
  <2>2. e = h \o x
    BY <1>5, <1>10
  <2> HIDE DEF x
  <2>3. /\ Len(e) = Len(h) + Len(x)
        /\ \A j \in 1 .. Len(h) : s[st + j] = h[j]
        /\ \A j \in 1 .. Len(x) : s[(st + Len(h)) + j] = x[j]
    BY <1>8, <2>1, <2>2
  <2>4. /\ Start(list, k + 1) = (st + Len(h)) + 4 /\ Start(list, k + 1) <= Len(s)
        /\ st + Len(h) <= Len(s) /\ st < Len(s)
    <3>1. Len(x) \in Nat /\ Len(e) = Len(h) + Len(x)
      BY <2>1, <2>3
    <3>2. Len(e) = Len(h) + 4
      BY <1>4, <2>1, <3>1
    <3> QED
      BY <1>4, <1>6, <1>a, <3>2
  <2>5. \A j \in 1 .. 4 : s[(st + Len(h)) + j] = x[j]
    BY <2>1, <2>3
  <2> QED
    BY <1>2, <1>3, <1>10, <2>3, <2>4, <2>5 DEF Layout, c, s, st, h, x
<1>11. CASE c.kind = "shift"
  <2> DEFINE u == Uint32(c.bits)
             x == u \o (c.tms \o c.tdi)
  <2>1. /\ u \in Seq(Byte) /\ 4 <= Len(u) /\ Len(u) <= 4
        /\ c.bits \in Nat /\ c.tms \in Seq(Byte) /\ c.tdi \in Seq(Byte)
        /\ Len(c.tms) = n /\ Len(c.tdi) = n
    BY <1>2, <1>11, CommandIs, WordBytes DEF Word
  <2>2. n \in Nat
    BY <2>1, BytesIs
  <2> HIDE DEF u, n
  <2>3. e = h \o x
    <3>1. e = ((h \o u) \o c.tms) \o c.tdi
      BY <1>5, <1>11 DEF u
    <3>2. h \o u \in Seq(Byte) /\ c.tms \o c.tdi \in Seq(Byte)
      BY <1>4, <2>1
    <3>3. e = (h \o u) \o (c.tms \o c.tdi)
      BY <2>1, <3>1, <3>2, Associative
    <3>4. (h \o u) \o (c.tms \o c.tdi) = h \o (u \o (c.tms \o c.tdi))
      BY <1>4, <2>1, <3>2, Associative
    <3> QED
      BY <3>3, <3>4
  <2>4. c.tms \o c.tdi \in Seq(Byte) /\ x \in Seq(Byte) /\ Len(x) = Len(u) + (n + n)
    <3>1. c.tms \o c.tdi \in Seq(Byte) /\ Len(c.tms \o c.tdi) = Len(c.tms) + Len(c.tdi)
      BY <1>7, <2>1
    <3>2. x \in Seq(Byte) /\ Len(x) = Len(u) + Len(c.tms \o c.tdi)
      BY <1>7, <2>1, <3>1
    <3> QED
      BY <2>1, <3>1, <3>2
  <2>5. /\ \A j \in 1 .. Len(u) : x[j] = u[j]
        /\ \A j \in 1 .. n : x[Len(u) + j] = c.tms[j]
        /\ \A j \in 1 .. n : x[Len(u) + (n + j)] = c.tdi[j]
    <3> DEFINE v == c.tms \o c.tdi
    <3>1. /\ v \in Seq(Byte) /\ Len(v) = n + n
          /\ \A j \in 1 .. n : v[j] = c.tms[j]
          /\ \A j \in 1 .. n : v[n + j] = c.tdi[j]
      <4>1. /\ v \in Seq(Byte) /\ Len(v) = Len(c.tms) + Len(c.tdi)
            /\ \A j \in 1 .. Len(c.tms) : v[j] = c.tms[j]
            /\ \A j \in 1 .. Len(c.tdi) : v[Len(c.tms) + j] = c.tdi[j]
        BY <1>7, <2>1
      <4>2. Len(c.tms) = n /\ Len(c.tdi) = n
        BY <2>1
      <4> HIDE DEF v
      <4> QED
        BY <4>1, <4>2
    <3> HIDE DEF v
    <3>2. /\ \A j \in 1 .. Len(u) : (u \o v)[j] = u[j]
          /\ \A j \in 1 .. Len(v) : (u \o v)[Len(u) + j] = v[j]
      BY <1>7, <2>1, <3>1
    <3>3. \A j \in 1 .. n : j \in 1 .. Len(v) /\ n + j \in 1 .. Len(v)
      BY <2>2, <3>1
    <3> QED
      BY <3>1, <3>2, <3>3 DEF v
  <2> HIDE DEF x
  <2>6. /\ Len(e) = Len(h) + Len(x)
        /\ \A j \in 1 .. Len(h) : s[st + j] = h[j]
        /\ \A j \in 1 .. Len(x) : s[(st + Len(h)) + j] = x[j]
    BY <1>8, <2>3, <2>4
  <2>7. /\ Start(list, k + 1) = (st + Len(h)) + 4 + 2 * n /\ Start(list, k + 1) <= Len(s)
        /\ st + Len(h) <= Len(s) /\ st < Len(s)
    <3>1. Len(u) \in Nat /\ Len(x) = Len(u) + (n + n) /\ Len(e) = Len(h) + Len(x)
      BY <2>1, <2>4, <2>6
    <3>2. Len(x) = 4 + 2 * n
      BY <2>1, <2>2, <3>1
    <3>3. Len(e) = Len(h) + (4 + 2 * n)
      BY <3>1, <3>2
    <3> QED
      BY <1>4, <1>6, <1>a, <2>2, <3>3
  <2>8. \A j \in 1 .. 4 : s[(st + Len(h)) + j] = u[j]
    BY <2>1, <2>2, <2>4, <2>5, <2>6
  <2>9. ASSUME NEW j \in 1 .. n
        PROVE  /\ s[((st + Len(h)) + 4) + j] = c.tms[j]
               /\ s[((st + Len(h)) + 4) + (n + j)] = c.tdi[j]
    <3>1. /\ Len(u) + j \in 1 .. Len(x) /\ Len(u) + (n + j) \in 1 .. Len(x)
          /\ (st + Len(h)) + (Len(u) + j) = ((st + Len(h)) + 4) + j
          /\ (st + Len(h)) + (Len(u) + (n + j)) = ((st + Len(h)) + 4) + (n + j)
      <4>1. Len(u) \in Nat /\ Len(x) = Len(u) + (n + n)
        BY <2>1, <2>4
      <4>2. Len(u) + j \in 1 .. Len(x) /\ Len(u) + (n + j) \in 1 .. Len(x)
        BY <2>2, <4>1
      <4>3. Len(u) + j = 4 + j /\ Len(u) + (n + j) = 4 + (n + j)
        BY <2>1, <2>2, <4>1
      <4>4. \A x1, x2, x3 \in Nat : x1 + (x2 + x3) = (x1 + x2) + x3
        OBVIOUS
      <4>5. st + Len(h) \in Nat /\ j \in Nat /\ n + j \in Nat
        BY <1>3, <1>4, <2>2
      <4> QED
        BY <4>2, <4>3, <4>4, <4>5
    <3> QED
      BY <2>5, <2>6, <3>1
  <2> QED
    BY <1>2, <1>3, <1>11, <2>6, <2>7, <2>8, <2>9 DEF Layout, c, s, st, h, u, n
<1> QED
  BY <1>2, <1>9, <1>10, <1>11, CommandIs

-----------------------------------------------------------------------------
(* The invariant is inductive.                                             *)

(* What the invariant says of every value that the steps use.              *)
LEMMA StateIs ==
  ASSUME IInv
  PROVE  /\ Stream[session] \in Seq(Byte) /\ rest \in Seq(Byte)
         /\ Len(Stream[session]) \in Nat /\ Len(rest) \in Nat
         /\ Received \in Nat /\ Received <= Len(Stream[session])
         /\ Len(session) \in Nat /\ Answered \in Nat /\ Answered <= Len(session)
         /\ Start(session, Answered) \in Nat
         /\ Answered < Len(session) =>
              /\ Answered \in 0 .. Len(session) - 1
              /\ Layout(session, Answered) /\ Current \in Command \cup Garbage
         /\ chain \in Seq(Seq(Byte)) /\ buf \in Seq(Byte)
         /\ FlattenSeq(chain) \in Seq(Byte) /\ Pending \in Seq(Byte)
         /\ Used \in Nat
<1>1. session \in Sessions /\ rest \in Seq(Byte) /\ Len(rest) <= Len(Stream[session])
  BY DEF IInv, Types
<1>2. session \in Seq(Command \cup Garbage) /\ Len(session) \in Nat
  BY <1>1, SessionAssumption
<1>3. Answered \in Nat /\ Answered <= Len(session)
  BY DEF IInv, InOrder, Answered
<1>4. Answered \in 0 .. Len(session)
  BY <1>2, <1>3
<1>5. Stream[session] \in Seq(Byte) /\ Start(session, Answered) \in Nat
  BY <1>1, <1>4, StreamBegins, StartStep
<1>6. Len(Stream[session]) \in Nat /\ Len(rest) \in Nat
  BY <1>1, <1>5
<1>7. Received \in Nat /\ Received <= Len(Stream[session])
  BY <1>1, <1>6 DEF Received
<1>8. ASSUME Answered < Len(session)
      PROVE  /\ Answered \in 0 .. Len(session) - 1
             /\ Layout(session, Answered) /\ Current \in Command \cup Garbage
  <2>1. Answered \in 0 .. Len(session) - 1 /\ Answered + 1 \in 1 .. Len(session)
    BY <1>2, <1>3, <1>8
  <2>2. Current \in Command \cup Garbage
    BY <1>2, <2>1 DEF Current
  <2> QED
    BY <1>1, <2>1, <2>2, LayoutIs
<1>9. chain \in Seq(Seq(Byte)) /\ buf \in Seq(Byte)
  BY DEF IInv, Types
<1>10. FlattenSeq(chain) \in Seq(Byte)
  <2>1. <<>> \in Seq(Byte)
    OBVIOUS
  <2> QED
    BY <1>9, <2>1, FlattenAppend
<1>11. Pending \in Seq(Byte)
  BY <1>9, <1>10 DEF Pending
<1>12. Used \in Nat
  <2>1. CASE cmd = "NOT_SET"
    BY <2>1 DEF Used
  <2>2. CASE cmd \in Names
    <3>1. Len(CommandStr[cmd]) \in Nat
      BY <2>2, StringsAre
    <3>2. cmd # "NOT_SET"
      BY <2>2 DEF Names
    <3> DEFINE m == IF cmd = "shift" /\ bits # -1 THEN 4 ELSE 0
    <3>3. m \in Nat
      OBVIOUS
    <3>4. Used = Len(CommandStr[cmd]) + m
      BY <3>2 DEF Used
    <3> HIDE DEF m
    <3> QED
      BY <3>1, <3>3, <3>4
  <2> QED
    BY <2>1, <2>2 DEF IInv, Types, Names
<1> QED
  BY <1>1, <1>2, <1>3, <1>5, <1>6, <1>7, <1>8, <1>9, <1>10, <1>11, <1>12

(* A connection as it begins.                                              *)
Opening ==
  /\ session \in Sessions /\ rest = Stream[session] /\ chain = <<>> /\ pc = "recv"
  /\ cmd = "NOT_SET" /\ buf = <<>> /\ bits = -1 /\ replies = <<>> /\ failed = FALSE
  /\ conns \in 1 .. MaxConnections

(* A new connection starts in the invariant.                               *)
LEMMA OpeningInv == Opening => IInv
<1> SUFFICES ASSUME Opening PROVE IInv
  OBVIOUS
<1>1. /\ session \in Sessions /\ rest = Stream[session] /\ chain = <<>> /\ pc = "recv"
      /\ replies = <<>> /\ failed = FALSE /\ conns \in 1 .. MaxConnections
      /\ cmd = "NOT_SET" /\ buf = <<>> /\ bits = -1
  BY DEF Opening
<1>2. session \in Seq(Command \cup Garbage) /\ Len(session) \in Nat
  BY <1>1, SessionAssumption
<1>3. 0 \in 0 .. Len(session)
  BY <1>2
<1>4. Stream[session] \in Seq(Byte) /\ Len(Stream[session]) \in Nat
  BY <1>1, <1>3, StreamBegins
<1>5. Types
  <2>1. Len(rest) <= Len(Stream[session]) /\ Len(Stream[session]) - Len(rest) = 0
    BY <1>1, <1>4
  <2>2. \A j \in 1 .. Len(rest) : (0 + j) = j
    BY <1>4
  <2>3. \A j \in 1 .. Len(rest) :
          rest[j] = Stream[session][Len(Stream[session]) - Len(rest) + j]
    BY <1>1, <2>1, <2>2
  <2>4. <<>> \in Seq(Seq(Byte)) /\ <<>> \in Seq(Byte) /\ Len(<<>>) = 0
    OBVIOUS
  <2>5. 0 <= MaxChain /\ 0 <= 2 * MaxBytes
    BY SizeAssumption
  <2>6. Len(chain) <= MaxChain /\ Len(buf) <= 2 * MaxBytes /\ Len(buf) < 8
    BY <1>1, <2>4, <2>5
  <2>7. chain \in Seq(Seq(Byte)) /\ buf \in Seq(Byte) /\ bits \in Int
    BY <1>1, <2>4
  <2> QED
    BY <1>1, <1>4, <2>1, <2>3, <2>6, <2>7 DEF Types
<1>6. InHand /\ InOrder
  <2>1. <<>> \in Seq(Command \cup Garbage) /\ Len(<<>>) = 0
    OBVIOUS
  <2> QED
    BY <1>1, <1>2, <2>1 DEF InHand, InOrder, Answered
<1>7. Reading
  BY <1>1 DEF Reading
<1>8. Position
  <2>1. Answered = 0 /\ Used = 0 /\ Pending = <<>> /\ Received = 0
    <3>1. <<>> \o <<>> = <<>> /\ Len(<<>>) = 0
      OBVIOUS
    <3> QED
      BY <1>1, <1>4, <3>1, FlattenEmpty DEF Answered, Used, Pending, Received
  <2>2. Start(session, 0) = 0
    BY <1>1, <1>3, StartStep
  <2>3. Window(Stream[session], 0, <<>>, 0)
    BY DEF Window
  <2> QED
    BY <2>1, <2>2, <2>3 DEF Position
<1>9. StopsForCause
  BY <1>1 DEF StopsForCause
<1> QED
  BY <1>5, <1>6, <1>7, <1>8, <1>9 DEF IInv

(* The reply to the current command.                                       *)
LEMMA ReplyStep ==
  ASSUME IInv, pc = "exec", Answered < Len(session), NEW b2,
         Moves(chain, buf, chain', b2), Reply(Current),
         UNCHANGED <<session, rest, conns>>, Current.kind # "junk",
         Start(session, Answered + 1) = (Start(session, Answered) + Used) + Len(b2)
  PROVE  IInv'
<1>1. /\ chain' \in Seq(Seq(Byte)) /\ chain' # <<>> /\ Len(chain') <= MaxChain
      /\ b2 \in Seq(Byte) /\ FlattenSeq(chain') \in Seq(Byte)
      /\ b2 \o FlattenSeq(chain') = Pending
  <2>1. /\ chain' \in Seq(Seq(Byte)) /\ chain' # <<>> /\ Len(chain') = Len(chain)
        /\ b2 \in Seq(Byte) /\ b2 \o FlattenSeq(chain') = Pending
    BY DEF Moves, Pending
  <2> QED
    BY <2>1, ChainIs DEF IInv, Types
<1>2. CASE /\ replies' = Append(replies, Current) /\ Fresh /\ pc' = "loop" /\ failed' = failed
  <2>1. cmd' = "NOT_SET" /\ buf' = <<>> /\ bits' = -1
    BY <1>2 DEF Fresh
  <2>2. Types'
    <3>1. <<>> \in Seq(Byte) /\ Len(<<>>) = 0
      OBVIOUS
    <3>2. 0 <= 2 * MaxBytes
      BY SizeAssumption
    <3> QED
      BY <1>1, <1>2, <2>1, <3>1, <3>2 DEF IInv, Types
  <2>3. InHand'
    BY <1>1, <1>2 DEF InHand
  <2>4. Answered' = Answered + 1 /\ Answered' <= Len(session)
    BY <1>2, StateIs DEF IInv, InOrder, Answered
  <2>5. InOrder'
    <3>1. /\ replies \in Seq(Command \cup Garbage)
          /\ \A i \in 1 .. Len(replies) : replies[i] = session[i]
      BY DEF IInv, InOrder, Answered
    <3>2. Current \in Command \cup Garbage /\ Current = session[Len(replies) + 1]
      BY StateIs DEF Current, Answered
    <3>3. /\ replies' \in Seq(Command \cup Garbage) /\ Len(replies') = Len(replies) + 1
          /\ \A i \in 1 .. Len(replies') : replies'[i] = session[i]
      BY <1>2, <3>1, <3>2
    <3> QED
      BY <2>4, <3>3 DEF InOrder, Answered
  <2>6. Reading'
    BY <1>2, <2>1 DEF Reading
  <2>7. Position'
    <3> DEFINE f == FlattenSeq(chain')
               n == Start(session, Answered) + Used
    <3>1. Window(Stream[session], Received, b2 \o f, n)
      BY <1>1 DEF IInv, Position, Serving
    <3>2. n \in Nat
      BY StateIs
    <3> HIDE DEF n
    <3>3. Window(Stream[session], Received, f, n + Len(b2))
      BY <1>1, <3>1, <3>2, StateIs, WindowDrop
    <3>4. Pending' = f
      <4>1. \A x \in Seq(Byte) : <<>> \o x = x
        OBVIOUS
      <4> QED
        BY <1>1, <2>1, <4>1 DEF Pending
    <3>5. Used' = 0 /\ Received' = Received
      BY <2>1 DEF Used, Received
    <3>6. Start(session, Answered') = n + Len(b2)
      BY <2>4 DEF n
    <3>7. n + Len(b2) \in Nat
      BY <1>1, <3>2
    <3>8. Start(session, Answered') + 0 = n + Len(b2)
      BY <3>6, <3>7
    <3> QED
      BY <3>3, <3>4, <3>5, <3>8 DEF Position
  <2>8. StopsForCause'
    BY <1>2 DEF StopsForCause
  <2> QED
    BY <2>2, <2>3, <2>5, <2>6, <2>7, <2>8 DEF IInv
<1>3. CASE failed' = TRUE /\ pc' = "closed" /\ UNCHANGED <<replies, cmd, buf, bits>>
  <2>1. Types'
    BY <1>1, <1>3 DEF IInv, Types
  <2>2. InHand' /\ InOrder' /\ Reading' /\ Position' /\ StopsForCause'
    BY <1>3 DEF IInv, InHand, InOrder, Reading, Position, Serving, StopsForCause, Answered
  <2> QED
    BY <2>1, <2>2 DEF IInv
<1> QED
  BY <1>2, <1>3 DEF Reply

(* A reader used up the pbuf.                                              *)
LEMMA MoreStep ==
  ASSUME IInv, pc = "exec", NEW r, NEW n \in Nat,
         Moves(chain, buf, chain', r.buf), NeedMore(r), Len(r.buf) < n,
         UNCHANGED <<session, rest, conns>>,
         \/ cmd = "settck" /\ n = 4
         \/ cmd = "shift" /\ bits = -1 /\ n = 4
         \/ cmd = "shift" /\ bits # -1 /\ n = 2 * BitsToBytes(bits) /\ n <= 2 * MaxBytes
  PROVE  IInv'
<1>1. /\ chain' \in Seq(Seq(Byte)) /\ chain' # <<>> /\ Len(chain') <= MaxChain
      /\ buf' \in Seq(Byte) /\ Pending' = Pending
  BY DEF Moves, NeedMore, Pending, IInv, Types
<1>2. pc' = "loop" /\ buf' = r.buf /\ UNCHANGED <<replies, cmd, bits, failed>>
  BY DEF NeedMore
<1>3. Len(buf') < n /\ cmd # "NOT_SET"
  BY <1>2
<1>4. Len(buf') <= 2 * MaxBytes
  <2>1. n <= 2 * MaxBytes
    BY SizeAssumption
  <2>2. Len(buf') \in Nat
    BY <1>1
  <2> QED
    BY <1>3, <2>1, <2>2, SizeAssumption
<1>5. Types'
  BY <1>1, <1>2, <1>3, <1>4 DEF IInv, Types
<1>6. InHand' /\ InOrder' /\ StopsForCause'
  BY <1>1, <1>2 DEF IInv, InHand, InOrder, StopsForCause, Answered
<1>7. Answered' = Answered /\ Current' = Current /\ Received' = Received /\ Used' = Used
  BY <1>2 DEF Answered, Current, Received, Used
<1>8. Position'
  BY <1>1, <1>7 DEF IInv, Position, Serving
<1>9. Reading'
  <2>1. /\ Answered < Len(session) /\ Current.kind = cmd
        /\ cmd = "settck" => bits = -1
        /\ cmd = "shift" /\ bits # -1 => bits = Current.bits /\ bits <= 8 * MaxBytes
    BY <1>3 DEF IInv, Reading, Serving
  <2>2. /\ cmd = "settck" => Len(buf') < 4
        /\ cmd = "shift" /\ bits = -1 => Len(buf') < 4
        /\ cmd = "shift" /\ bits # -1 => Len(buf') < 2 * BitsToBytes(bits)
        /\ cmd # "getinfo"
    BY <1>3
  <2> QED
    BY <1>2, <1>3, <1>7, <2>1, <2>2 DEF Reading
<1> QED
  BY <1>5, <1>6, <1>8, <1>9 DEF IInv

(* getinfo is answered.                                                    *)
LEMMA HandleGetinfoStep ==
  ASSUME IInv, HandleGetinfo
  PROVE  IInv'
<1>1. /\ pc = "exec" /\ cmd = "getinfo" /\ Reply([kind |-> "getinfo"])
      /\ UNCHANGED <<session, rest, chain, conns>>
  BY DEF HandleGetinfo
<1>2. Answered < Len(session) /\ Current.kind = "getinfo" /\ buf = <<>>
  BY <1>1 DEF IInv, Reading, Serving
<1>3. Current \in Command \cup Garbage /\ Layout(session, Answered)
  BY <1>2, StateIs
<1>4. Current = [kind |-> "getinfo"]
  BY <1>2, <1>3, CommandIs
<1>5. chain # <<>> /\ chain \in Seq(Seq(Byte)) /\ buf \in Seq(Byte)
  BY <1>1, StateIs DEF IInv, InHand
<1>6. Moves(chain, buf, chain', buf)
  BY <1>1, <1>5, MovesNothing
<1>7. Header(Current) = CommandStr["getinfo"] /\ Used = Len(CommandStr["getinfo"]) + 0
  BY <1>1, <1>2 DEF Header, Used
<1>8. Start(session, Answered + 1) = Start(session, Answered) + Len(Header(Current))
  BY <1>2, <1>3 DEF Layout, Current
<1>9. Start(session, Answered + 1) = (Start(session, Answered) + Used) + Len(buf)
  <2>1. Len(buf) = 0 /\ Used \in Nat /\ Start(session, Answered) \in Nat
    BY <1>2, StateIs
  <2>2. Len(CommandStr["getinfo"]) \in Nat
    BY StringsAre DEF Names
  <2> QED
    BY <1>7, <1>8, <2>1, <2>2
<1>10. Reply(Current)
  BY <1>1, <1>4
<1> QED
  BY <1>1, <1>2, <1>6, <1>9, <1>10, ReplyStep

(* The four bytes of a number.                                             *)
LEMMA NumberIs ==
  ASSUME NEW stream \in Seq(Byte), NEW p \in Nat, NEW n \in Word, NEW b \in Seq(Byte),
         4 <= Len(b), \A j \in 1 .. Len(b) : b[j] = stream[p + j],
         \A j \in 1 .. 4 : stream[p + j] = Uint32(n)[j]
  PROVE  Uint32Value(b) = n
<1>1. \A j \in 1 .. 4 : j \in 1 .. Len(b)
  BY SMT
<1>2. \A j \in 1 .. 4 : b[j] = Uint32(n)[j]
  BY <1>1
<1>3. /\ b[1] = Uint32(n)[1] /\ b[2] = Uint32(n)[2]
      /\ b[3] = Uint32(n)[3] /\ b[4] = Uint32(n)[4]
  BY <1>2
<1>4. n = Uint32(n)[1] + 256 * (Uint32(n)[2] + 256 * (Uint32(n)[3] + 256 * Uint32(n)[4]))
  BY WordBytes
<1> QED
  BY <1>3, <1>4 DEF Uint32Value

(* settck is answered, or waits for more of its period.                    *)
LEMMA HandleSettckStep ==
  ASSUME IInv, HandleSettck
  PROVE  IInv'
<1> DEFINE r == ReadUint32(chain, buf)
<1>1. /\ pc = "exec" /\ cmd = "settck" /\ chain' = r.chain
      /\ \/ r.status = "OK" /\ Reply([kind |-> "settck", period |-> Uint32Value(r.buf)])
         \/ NeedMore(r)
      /\ UNCHANGED <<session, rest, conns>>
  BY DEF HandleSettck
<1>2. Answered < Len(session) /\ Current.kind = "settck" /\ Len(buf) < 4 /\ bits = -1
  BY <1>1 DEF IInv, Reading, Serving
<1>3. Current \in Command \cup Garbage /\ Layout(session, Answered)
  BY <1>2, StateIs
<1>4. Current.period \in Word /\ Current = [kind |-> "settck", period |-> Current.period]
  BY <1>2, <1>3, CommandIs
<1>5. chain # <<>> /\ chain \in Seq(Seq(Byte)) /\ buf \in Seq(Byte) /\ Len(buf) \in Nat
  BY <1>1, StateIs DEF IInv, InHand
<1>6. Filled(chain, buf, 4, r)
  <2>1. Len(buf) <= 4 /\ 4 \in Nat
    BY <1>2, <1>5
  <2> QED
    BY <1>5, <2>1, ReadBytesIs DEF ReadUint32
<1> HIDE DEF r
<1>7. Moves(chain, buf, chain', r.buf)
  BY <1>1, <1>6 DEF Filled
<1>8. CASE NeedMore(r)
  <2>1. Len(r.buf) < 4 /\ 4 \in Nat
    BY <1>6, <1>8 DEF Filled, NeedMore
  <2> QED
    BY <1>1, <1>7, <1>8, <2>1, MoreStep
<1>9. CASE r.status = "OK" /\ Reply([kind |-> "settck", period |-> Uint32Value(r.buf)])
  <2> DEFINE n == Start(session, Answered) + Used
             f == FlattenSeq(chain')
  <2>1. 4 <= Len(r.buf) /\ Len(r.buf) <= 4 /\ r.buf \in Seq(Byte)
    BY <1>6, <1>7, <1>9 DEF Filled, Moves
  <2>2. Header(Current) = CommandStr["settck"] /\ Used = Len(CommandStr["settck"]) + 0
    BY <1>1, <1>2 DEF Header, Used
  <2>3. Used = Len(Header(Current)) /\ n = Start(session, Answered) + Len(Header(Current))
    BY <2>2, StringsAre DEF Names
  <2>4. n \in Nat
    BY StateIs
  <2>5. /\ Start(session, Answered + 1) = n + 4
        /\ \A j \in 1 .. 4 : Stream[session][n + j] = Uint32(Current.period)[j]
    BY <1>2, <1>3, <2>3 DEF Layout, Current
  <2> HIDE DEF n
  <2>6. r.buf \o f = Pending /\ f \in Seq(Byte)
    BY <1>7, ChainIs DEF Moves, Pending
  <2>a. Stream[session] \in Seq(Byte) /\ Received \in Nat
    BY StateIs
  <2>7. \A j \in 1 .. Len(r.buf) : r.buf[j] = Stream[session][n + j]
    <3> DEFINE g == r.buf
    <3>1. Window(Stream[session], Received, g \o f, n)
      BY <1>1, <2>6 DEF IInv, Position, Serving, n
    <3>2. g \in Seq(Byte)
      BY <2>1
    <3> HIDE DEF f, g
    <3>3. \A j \in 1 .. Len(g) : g[j] = Stream[session][n + j]
      BY <2>4, <2>6, <2>a, <3>1, <3>2, WindowDrop
    <3> QED
      BY <3>3 DEF g
  <2>8. Uint32Value(r.buf) = Current.period
    BY <1>4, <2>1, <2>4, <2>5, <2>7, <2>a, NumberIs
  <2>9. Reply(Current)
    BY <1>4, <1>9, <2>8
  <2>10. Start(session, Answered + 1) = (Start(session, Answered) + Used) + Len(r.buf)
    <3>1. n + 4 = n + Len(r.buf)
      BY <2>1, <2>4
    <3> QED
      BY <2>5, <3>1 DEF n
  <2> QED
    BY <1>1, <1>2, <1>7, <2>9, <2>10, ReplyStep
<1> QED
  BY <1>1, <1>8, <1>9

(* What a reader has got is what the client sent.                          *)
LEMMA GotIs ==
  ASSUME IInv, Serving, NEW b2, Moves(chain, buf, chain', b2)
  PROVE  LET n == Start(session, Answered) + Used
         IN  /\ n \in Nat /\ b2 \in Seq(Byte) /\ Len(b2) \in Nat
             /\ \A j \in 1 .. Len(b2) : b2[j] = Stream[session][n + j]
             /\ Window(Stream[session], Received, FlattenSeq(chain'), n + Len(b2))
             /\ chain' \in Seq(Seq(Byte)) /\ chain' # <<>> /\ Len(chain') <= MaxChain
             /\ FlattenSeq(chain') \in Seq(Byte)
<1> DEFINE n == Start(session, Answered) + Used
           f == FlattenSeq(chain')
<1>1. n \in Nat /\ Stream[session] \in Seq(Byte) /\ Received \in Nat
  BY StateIs
<1>2. /\ chain' \in Seq(Seq(Byte)) /\ chain' # <<>> /\ Len(chain') = Len(chain)
      /\ b2 \in Seq(Byte) /\ b2 \o f = Pending
  BY DEF Moves, Pending
<1>3. f \in Seq(Byte)
  BY <1>2, ChainIs
<1>4. Window(Stream[session], Received, b2 \o f, n)
  BY <1>2 DEF IInv, Position
<1>5. Len(chain') <= MaxChain /\ Len(b2) \in Nat
  BY <1>2 DEF IInv, Types
<1> HIDE DEF n, f
<1>a. b2 \in Seq(Byte)
  BY <1>2
<1>6. /\ Window(Stream[session], Received, f, n + Len(b2))
      /\ \A j \in 1 .. Len(b2) : b2[j] = Stream[session][n + j]
  BY <1>1, <1>3, <1>4, <1>a, WindowDrop
<1> QED
  BY <1>1, <1>2, <1>3, <1>5, <1>6 DEF n, f

(* The length of a vector is read, refused or waited for.                  *)
LEMMA HandleShiftLengthStep ==
  ASSUME IInv, HandleShiftLength
  PROVE  IInv'
<1> DEFINE r == ReadUint32(chain, buf)
<1>1. /\ pc = "exec" /\ cmd = "shift" /\ bits = -1 /\ chain' = r.chain
      /\ \/ /\ r.status = "OK" /\ bits' = Uint32Value(r.buf) /\ buf' = <<>>
            /\ pc' = IF bits' > 8 * MaxBytes THEN "closed" ELSE "exec"
            /\ UNCHANGED <<replies, cmd, failed>>
         \/ NeedMore(r)
      /\ UNCHANGED <<session, rest, conns>>
  BY DEF HandleShiftLength
<1>2. Answered < Len(session) /\ Current.kind = "shift" /\ Len(buf) < 4
  BY <1>1 DEF IInv, Reading, Serving
<1>3. Current \in Command \cup Garbage /\ Layout(session, Answered)
  BY <1>2, StateIs
<1>4. Current.bits \in Word /\ Current.bits \in Nat
  BY <1>2, <1>3, CommandIs DEF Word
<1>5. chain # <<>> /\ chain \in Seq(Seq(Byte)) /\ buf \in Seq(Byte) /\ Len(buf) \in Nat
  BY <1>1, StateIs DEF IInv, InHand
<1>6. Filled(chain, buf, 4, r)
  <2>1. Len(buf) <= 4 /\ 4 \in Nat
    BY <1>2, <1>5
  <2> QED
    BY <1>5, <2>1, ReadBytesIs DEF ReadUint32
<1> HIDE DEF r
<1>7. Moves(chain, buf, chain', r.buf)
  BY <1>1, <1>6 DEF Filled
<1>8. CASE NeedMore(r)
  <2>1. Len(r.buf) < 4 /\ 4 \in Nat
    BY <1>6, <1>8 DEF Filled, NeedMore
  <2> QED
    BY <1>1, <1>7, <1>8, <2>1, MoreStep
<1>9. CASE /\ r.status = "OK" /\ bits' = Uint32Value(r.buf) /\ buf' = <<>>
           /\ pc' = IF bits' > 8 * MaxBytes THEN "closed" ELSE "exec"
           /\ UNCHANGED <<replies, cmd, failed>>
  <2> DEFINE n == Start(session, Answered) + Used
             g == r.buf
             f == FlattenSeq(chain')
  <2>1. 4 <= Len(g) /\ Len(g) <= 4
    BY <1>6, <1>9 DEF Filled
  <2>2. Header(Current) = CommandStr["shift"] /\ Used = Len(CommandStr["shift"]) + 0
    BY <1>1, <1>2 DEF Header, Used
  <2>3. Len(CommandStr["shift"]) \in Nat
    BY StringsAre DEF Names
  <2>4. n = Start(session, Answered) + Len(Header(Current))
    BY <2>2, <2>3
  <2>5. \A j \in 1 .. 4 : Stream[session][n + j] = Uint32(Current.bits)[j]
    BY <1>2, <1>3, <2>4 DEF Layout, Current
  <2>6. /\ n \in Nat /\ g \in Seq(Byte) /\ Len(g) \in Nat
        /\ \A j \in 1 .. Len(g) : g[j] = Stream[session][n + j]
        /\ Window(Stream[session], Received, f, n + Len(g))
        /\ chain' \in Seq(Seq(Byte)) /\ chain' # <<>> /\ Len(chain') <= MaxChain
        /\ f \in Seq(Byte)
    BY <1>1, <1>7, GotIs DEF Serving
  <2>7. Stream[session] \in Seq(Byte)
    BY StateIs
  <2> HIDE DEF n, g, f
  <2>8. Uint32Value(g) = Current.bits
    BY <1>4, <2>1, <2>5, <2>6, <2>7, NumberIs
  <2>9. bits' = Current.bits /\ bits' \in Nat /\ bits' # -1
    BY <1>4, <1>9, <2>8 DEF g
  <2>10. Answered' = Answered /\ Current' = Current /\ Received' = Received
    BY <1>1, <1>9 DEF Answered, Current, Received
  <2>11. pc' \in {"closed", "exec"} /\ (pc' = "exec" => bits' <= 8 * MaxBytes)
         /\ (pc' = "closed" => ~ (bits' <= 8 * MaxBytes))
    BY <1>9, <2>9, SizeAssumption
  <2>12. Types'
    <3>1. <<>> \in Seq(Byte) /\ Len(<<>>) = 0
      OBVIOUS
    <3>2. buf' \in Seq(Byte) /\ Len(buf') <= 2 * MaxBytes
      BY <1>9, <3>1, SizeAssumption
    <3> QED
      BY <1>1, <1>9, <2>6, <2>9, <2>11, <3>2 DEF IInv, Types
  <2>13. InHand' /\ InOrder'
    BY <1>1, <1>9, <2>6, <2>11 DEF IInv, InHand, InOrder, Answered
  <2>14. Reading'
    <3>1. Len(buf') < 2 * BitsToBytes(bits') \/ bits' = 0
      <4>1. Len(buf') = 0
        BY <1>9
      <4>2. CASE bits' > 0
        <5>1. BitsToBytes(bits') \in Nat /\ BitsToBytes(bits') > 0
          BY <2>9, <4>2, BytesIs
        <5> QED
          BY <4>1, <5>1
      <4> QED
        BY <2>9, <4>2
    <3> QED
      BY <1>1, <1>2, <1>9, <2>9, <2>10, <2>11, <3>1 DEF Reading, Serving
  <2>15. Position'
    <3>1. Pending' = f
      <4>1. \A x \in Seq(Byte) : <<>> \o x = x
        OBVIOUS
      <4> QED
        BY <1>9, <2>6, <4>1 DEF Pending, f
    <3>2. Used' = Len(CommandStr["shift"]) + 4
      BY <1>1, <1>9, <2>9 DEF Used
    <3>3. Start(session, Answered) + Used' = n + Len(g)
      <4>1. Len(g) \in Nat /\ Start(session, Answered) \in Nat
        BY <2>6, StateIs
      <4>2. n = Start(session, Answered) + Len(CommandStr["shift"])
        BY <2>2, <2>4
      <4> QED
        BY <2>1, <2>3, <3>2, <4>1, <4>2
    <3> QED
      BY <1>1, <2>6, <2>10, <3>1, <3>3 DEF Position
  <2>16. StopsForCause'
    <3>1. pc' = "closed" => ~Valid(Current)
      BY <1>2, <2>9, <2>11 DEF Valid
    <3>2. Current' = session'[Len(replies') + 1] /\ Len(replies') < Len(session')
      BY <1>1, <1>2, <1>9 DEF Current, Answered
    <3> QED
      BY <2>10, <2>11, <3>1, <3>2 DEF StopsForCause, Valid
  <2> QED
    BY <2>12, <2>13, <2>14, <2>15, <2>16 DEF IInv
<1> QED
  BY <1>1, <1>8, <1>9

(* The vectors are read and shifted, or waited for.                        *)
LEMMA HandleShiftDataStep ==
  ASSUME IInv, HandleShiftData
  PROVE  IInv'
<1> DEFINE r == ReadDataShiftVector(chain, buf)
           n == BitsToBytes(bits)
           c == Current
           reply == [kind |-> "shift", bits |-> bits, tms |-> SubSeq(r.buf, 1, n),
                     tdi |-> SubSeq(r.buf, n + 1, 2 * n)]
<1>1. /\ pc = "exec" /\ cmd = "shift" /\ bits # -1 /\ chain' = r.chain
      /\ (r.status = "OK" /\ Reply(reply)) \/ NeedMore(r)
      /\ UNCHANGED <<session, rest, conns>>
  BY DEF HandleShiftData
<1>2. /\ Answered < Len(session) /\ c.kind = "shift"
      /\ bits = c.bits /\ bits <= 8 * MaxBytes
      /\ Len(buf) < 2 * BitsToBytes(bits) \/ (bits = 0 /\ buf = <<>>)
  BY <1>1 DEF IInv, Reading, Serving
<1>3. c \in Command \cup Garbage /\ Layout(session, Answered)
  BY <1>2, StateIs
<1>4. /\ bits \in Nat /\ c.tms \in Seq(Byte) /\ c.tdi \in Seq(Byte)
      /\ Len(c.tms) = n /\ Len(c.tdi) = n
      /\ c = [kind |-> "shift", bits |-> c.bits, tms |-> c.tms, tdi |-> c.tdi]
  BY <1>2, <1>3, CommandIs DEF Word
<1>5. n \in Nat /\ n <= MaxBytes /\ 2 * n \in Nat /\ 2 * n <= 2 * MaxBytes
  <2>1. n \in Nat /\ n <= MaxBytes
    BY <1>2, <1>4, BytesIs
  <2> QED
    BY <2>1, SizeAssumption
<1>6. chain # <<>> /\ chain \in Seq(Seq(Byte)) /\ buf \in Seq(Byte) /\ Len(buf) \in Nat
  BY <1>1, StateIs DEF IInv, InHand
<1>7. Filled(chain, buf, 2 * n, r)
  <2>1. Len(buf) <= 2 * n
    BY <1>2, <1>5, <1>6
  <2> QED
    BY <1>5, <1>6, <2>1, ReadBytesIs DEF ReadDataShiftVector
<1> HIDE DEF r, n, c
<1>8. Moves(chain, buf, chain', r.buf)
  BY <1>1, <1>7 DEF Filled
<1>9. CASE NeedMore(r)
  <2>1. Len(r.buf) < 2 * n
    BY <1>7, <1>9 DEF Filled, NeedMore
  <2> QED
    BY <1>1, <1>5, <1>8, <1>9, <2>1, MoreStep DEF n
<1>10. CASE r.status = "OK" /\ Reply(reply)
  <2> DEFINE m == Start(session, Answered) + Used
             g == r.buf
  <2>1. Len(g) <= 2 * n /\ 2 * n <= Len(g)
    BY <1>7, <1>10 DEF Filled
  <2>2. Header(c) = CommandStr["shift"] /\ Used = Len(CommandStr["shift"]) + 4
    BY <1>1, <1>2 DEF Header, Used
  <2>3. Len(CommandStr["shift"]) \in Nat /\ Start(session, Answered) \in Nat
    BY StateIs, StringsAre DEF Names
  <2>4. m = (Start(session, Answered) + Len(Header(c))) + 4
    BY <2>2, <2>3
  <2>5. /\ Start(session, Answered + 1) = m + 2 * n
        /\ \A j \in 1 .. n : Stream[session][m + j] = c.tms[j]
        /\ \A j \in 1 .. n : Stream[session][m + (n + j)] = c.tdi[j]
    BY <1>2, <1>3, <2>4 DEF Layout, Current, c, n
  <2>6. /\ m \in Nat /\ g \in Seq(Byte) /\ Len(g) \in Nat
        /\ \A j \in 1 .. Len(g) : g[j] = Stream[session][m + j]
    BY <1>1, <1>8, GotIs DEF Serving
  <2>7. Len(g) = 2 * n
    BY <1>5, <2>1, <2>6
  <2> HIDE DEF m, g
  <2>8. SubSeq(g, 1, n) = c.tms
    <3>1. /\ SubSeq(g, 1, n) \in Seq(Byte) /\ Len(SubSeq(g, 1, n)) = n
          /\ \A j \in 1 .. n : SubSeq(g, 1, n)[j] = g[j]
      BY <1>5, <2>6, <2>7
    <3>2. \A j \in 1 .. n : j \in 1 .. Len(g)
      BY <1>5, <2>7
    <3>3. \A j \in 1 .. n : SubSeq(g, 1, n)[j] = c.tms[j]
      BY <2>5, <2>6, <3>1, <3>2
    <3> QED
      BY <1>4, <3>1, <3>3, SeqEqual
  <2>9. SubSeq(g, n + 1, 2 * n) = c.tdi
    <3>1. n <= 2 * n /\ 2 * n - n = n /\ 2 * n <= Len(g)
      BY <1>5, <2>7
    <3>2. /\ SubSeq(g, n + 1, 2 * n) \in Seq(Byte) /\ Len(SubSeq(g, n + 1, 2 * n)) = n
          /\ \A j \in 1 .. n : SubSeq(g, n + 1, 2 * n)[j] = g[n + j]
      BY <1>5, <2>6, <3>1, SubSeqIs
    <3>3. \A j \in 1 .. n : n + j \in 1 .. Len(g)
      BY <1>5, <2>7
    <3>4. \A j \in 1 .. n : SubSeq(g, n + 1, 2 * n)[j] = c.tdi[j]
      BY <2>5, <2>6, <3>2, <3>3
    <3> QED
      BY <1>4, <3>2, <3>4, SeqEqual
  <2>10. reply = Current
    BY <1>2, <1>4, <2>8, <2>9 DEF g, c
  <2>11. Start(session, Answered + 1) = (Start(session, Answered) + Used) + Len(r.buf)
    BY <2>5, <2>7 DEF m, g
  <2>12. Reply(Current) /\ Current.kind # "junk"
    BY <1>2, <1>10, <2>10 DEF c
  <2> QED
    BY <1>1, <1>2, <1>8, <2>11, <2>12, ReplyStep
<1> QED
  BY <1>1, <1>9, <1>10

(* A command that was begun is taken up again.                             *)
LEMMA ResumeStep ==
  ASSUME IInv, Resume
  PROVE  IInv'
<1>1. /\ pc = "loop" /\ pc' = "exec" /\ cmd # "NOT_SET"
      /\ UNCHANGED <<session, rest, chain, cmd, buf, bits, replies, failed, conns>>
  BY DEF Resume
<1>2. Types' /\ InHand' /\ InOrder' /\ StopsForCause'
  BY <1>1 DEF IInv, Types, InHand, InOrder, StopsForCause, Answered
<1>3. Answered' = Answered /\ Current' = Current /\ Received' = Received /\ Used' = Used
      /\ Pending' = Pending
  BY <1>1 DEF Answered, Current, Received, Used, Pending
<1>4. Reading'
  BY <1>1, <1>3 DEF IInv, Reading, Serving
<1>5. Position'
  BY <1>1, <1>3 DEF IInv, Position, Serving
<1> QED
  BY <1>2, <1>4, <1>5 DEF IInv

(* The loop moves on to the next pbuf.                                     *)
LEMMA NextPbufStep ==
  ASSUME IInv, NextPbuf
  PROVE  IInv'
<1>1. /\ pc = "loop" /\ Head(chain) = <<>>
      /\ \/ Len(chain) > 1 /\ chain' = Tail(chain) /\ pc' = pc
         \/ ~ (Len(chain) > 1) /\ chain' = <<>> /\ pc' = "recv"
      /\ UNCHANGED <<session, rest, cmd, buf, bits, replies, failed, conns>>
  BY DEF NextPbuf
<1>2. chain \in Seq(Seq(Byte)) /\ chain # <<>> /\ Len(chain) <= MaxChain
  BY <1>1 DEF IInv, Types, InHand
<1>3. /\ Tail(chain) \in Seq(Seq(Byte)) /\ Len(chain) \in Nat /\ Len(Tail(chain)) = Len(chain) - 1
      /\ FlattenSeq(Tail(chain)) \in Seq(Byte)
      /\ FlattenSeq(chain) = Head(chain) \o FlattenSeq(Tail(chain))
      /\ Len(chain) <= 1 => FlattenSeq(Tail(chain)) = <<>>
  BY <1>2, ChainIs
<1>4. FlattenSeq(chain) = FlattenSeq(Tail(chain))
  <2>1. \A x \in Seq(Byte) : <<>> \o x = x
    OBVIOUS
  <2> QED
    BY <1>1, <1>3, <2>1
<1>5. FlattenSeq(chain') = FlattenSeq(chain)
  <2>1. ~ (Len(chain) > 1) => Len(chain) <= 1
    BY <1>3
  <2> QED
    BY <1>1, <1>3, <1>4, <2>1, FlattenEmpty
<1>6. /\ chain' \in Seq(Seq(Byte)) /\ Len(chain') <= MaxChain
      /\ pc' = "loop" => chain' # <<>>
      /\ pc' = "recv" => chain' = <<>>
  <2>1. CASE Len(chain) > 1 /\ chain' = Tail(chain) /\ pc' = pc
    <3>1. Len(chain') > 0 /\ Len(chain') <= MaxChain
      BY <1>2, <1>3, <2>1, SizeAssumption
    <3>2. chain' # <<>>
      <4>1. Len(<<>>) = 0
        OBVIOUS
      <4> QED
        BY <3>1, <4>1
    <3> QED
      BY <1>1, <1>3, <2>1, <3>1, <3>2
  <2>2. CASE chain' = <<>> /\ pc' = "recv"
    <3>1. <<>> \in Seq(Seq(Byte)) /\ Len(<<>>) = 0
      OBVIOUS
    <3> QED
      BY <2>2, <3>1, SizeAssumption
  <2> QED
    BY <1>1, <2>1, <2>2
<1>7. pc' \in {"loop", "recv"}
  BY <1>1
<1>8. Types'
  BY <1>1, <1>6, <1>7 DEF IInv, Types
<1>9. InHand' /\ InOrder' /\ StopsForCause'
  BY <1>1, <1>6, <1>7 DEF IInv, InHand, InOrder, StopsForCause, Answered
<1>10. Answered' = Answered /\ Current' = Current /\ Received' = Received /\ Used' = Used
       /\ Pending' = Pending
  BY <1>1, <1>5 DEF Answered, Current, Received, Used, Pending
<1>11. Reading'
  BY <1>1, <1>7, <1>10 DEF IInv, Reading, Serving
<1>12. Position'
  BY <1>1, <1>10 DEF IInv, Position, Serving
<1> QED
  BY <1>8, <1>9, <1>11, <1>12 DEF IInv

(* netconn_recv hands over the next bytes, cut into pbufs anywhere.        *)
LEMMA ReceiveStep ==
  ASSUME IInv, Receive
  PROVE  IInv'
<1>1. /\ pc = "recv" /\ pc' = "loop"
      /\ UNCHANGED <<session, cmd, buf, bits, replies, failed, conns>>
  BY DEF Receive
<1>2. PICK c \in Cuts(Len(rest)) :
        chain' = Pieces(rest, c, Len(c)) /\ rest' = SubSeq(rest, c[Len(c)] + 1, Len(rest))
  BY DEF Receive, Pieces, Piece
<1> DEFINE m == c[Len(c)]
           p == SubSeq(rest, 1, m)
           str == Stream[session]
<1>3. /\ str \in Seq(Byte) /\ rest \in Seq(Byte) /\ Len(str) \in Nat /\ Len(rest) \in Nat
      /\ Len(rest) <= Len(str) /\ Received = Len(str) - Len(rest) /\ buf \in Seq(Byte)
      /\ Start(session, Answered) + Used \in Nat
  BY StateIs DEF IInv, Types, Received
<1>4. /\ chain' \in Seq(Seq(Byte)) /\ chain' # <<>> /\ Len(chain') <= MaxChain
      /\ m \in 1 .. Len(rest) /\ FlattenSeq(chain') = p
  BY <1>2, <1>3, CutIs
<1> HIDE DEF m
<1>5. m \in Nat /\ m >= 1 /\ m <= Len(rest)
  BY <1>3, <1>4
<1>6. p \in Seq(Byte) /\ Len(p) = m /\ \A j \in 1 .. m : p[j] = rest[j]
  BY <1>3, <1>5
<1>7. /\ rest' \in Seq(Byte) /\ Len(rest') = Len(rest) - m
      /\ \A j \in 1 .. Len(rest) - m : rest'[j] = rest[m + j]
  <2>1. rest' = SubSeq(rest, m + 1, Len(rest))
    BY <1>2 DEF m
  <2> QED
    BY <1>3, <1>5, <2>1, SubSeqIs
<1>8. \A j \in 1 .. Len(rest) : rest[j] = str[(Len(str) - Len(rest)) + j]
  BY DEF IInv, Types
<1> HIDE DEF p, str
<1>9. ASSUME NEW j \in 1 .. Len(rest') PROVE rest'[j] = str[(Len(str) - Len(rest')) + j]
  <2>1. /\ j \in 1 .. Len(rest) - m /\ m + j \in 1 .. Len(rest)
        /\ (Len(str) - Len(rest)) + (m + j) = (Len(str) - Len(rest')) + j
    BY <1>3, <1>5, <1>7
  <2> QED
    BY <1>7, <1>8, <2>1
<1>10. Len(rest') <= Len(str) /\ Received' = Received + m
  <2>1. Received' = Len(str) - Len(rest')
    BY <1>1 DEF Received, str
  <2> QED
    BY <1>3, <1>5, <1>7, <2>1
<1>11. Types'
  BY <1>1, <1>4, <1>7, <1>9, <1>10 DEF IInv, Types, str
<1>12. InHand' /\ InOrder' /\ StopsForCause'
  BY <1>1, <1>4 DEF IInv, InHand, InOrder, StopsForCause, Answered
<1>13. Answered' = Answered /\ Current' = Current /\ Used' = Used
  BY <1>1 DEF Answered, Current, Used
<1>14. Reading'
  BY <1>1, <1>13 DEF IInv, Reading, Serving
<1>15. Position'
  <2> DEFINE n == Start(session, Answered) + Used
  <2>1. Window(str, Received, buf, n)
    <3>1. chain = <<>>
      BY <1>1 DEF IInv, InHand
    <3>2. \A x \in Seq(Byte) : x \o <<>> = x
      OBVIOUS
    <3>3. Pending = buf
      BY <1>3, <3>1, <3>2, FlattenEmpty DEF Pending
    <3> QED
      BY <1>1, <3>3 DEF IInv, Position, Serving, str
  <2>2. Pending' = buf \o p
    BY <1>1, <1>4 DEF Pending
  <2> HIDE DEF n
  <2>3. /\ Len(buf) \in Nat /\ Len(buf \o p) = Len(buf) + m
        /\ \A j \in 1 .. Len(buf) : (buf \o p)[j] = buf[j]
        /\ \A j \in 1 .. m : (buf \o p)[Len(buf) + j] = p[j]
    BY <1>3, <1>6
  <2>4. n \in Nat /\ Len(buf) = Received - n
    BY <1>3, <2>1 DEF Window, n
  <2>5. Len(buf \o p) = (Received + m) - n
    BY <1>3, <1>5, <2>3, <2>4
  <2>6. ASSUME NEW j \in 1 .. Len(buf \o p) PROVE (buf \o p)[j] = str[n + j]
    <3>1. CASE j <= Len(buf)
      <4>1. j \in 1 .. Len(buf)
        BY <2>3, <3>1
      <4> QED
        BY <2>1, <2>3, <4>1 DEF Window
    <3>2. CASE j > Len(buf)
      <4>1. /\ j - Len(buf) \in 1 .. m /\ Len(buf) + (j - Len(buf)) = j
            /\ j - Len(buf) \in 1 .. Len(rest)
            /\ (Len(str) - Len(rest)) + (j - Len(buf)) = n + j
        BY <1>3, <1>5, <2>3, <2>4, <3>2
      <4>2. (buf \o p)[j] = p[j - Len(buf)]
        BY <2>3, <4>1
      <4>3. p[j - Len(buf)] = rest[j - Len(buf)]
        BY <1>6, <4>1
      <4>4. rest[j - Len(buf)] = str[n + j]
        BY <1>8, <4>1
      <4> QED
        BY <4>2, <4>3, <4>4
    <3>3. j <= Len(buf) \/ j > Len(buf)
      BY <2>3
    <3> QED
      BY <3>1, <3>2, <3>3
  <2>7. Window(str, Received + m, buf \o p, n)
    BY <2>5, <2>6 DEF Window
  <2> QED
    BY <1>1, <1>10, <1>13, <2>2, <2>7 DEF Position, n, str
<1> QED
  BY <1>11, <1>12, <1>14, <1>15 DEF IInv

(* There is a next command when there are bytes of one, and they are its.  *)
LEMMA NextCommand ==
  ASSUME IInv, pc = "loop", Head(chain) # <<>>, cmd = "NOT_SET"
  PROVE  /\ Answered < Len(session)
         /\ chain \in Seq(Seq(Byte)) /\ chain # <<>> /\ buf \in Seq(Byte)
         /\ Len(Head(chain)) > 0 /\ Used = 0
         /\ Current \in Command \cup Garbage
         /\ Matches(Current, Pending)
         /\ Len(buf) < Len(Header(Current))
         /\ Len(buf) + Len(FlattenSeq(chain)) = Received - Start(session, Answered)
<1> DEFINE st == Start(session, Answered)
           str == Stream[session]
           h == Header(Current)
<1>1. chain \in Seq(Seq(Byte)) /\ chain # <<>> /\ buf \in Seq(Byte) /\ Used = 0
  BY StateIs DEF IInv, InHand, Used
<1>2. /\ Head(chain) \in Seq(Byte) /\ FlattenSeq(chain) \in Seq(Byte)
      /\ FlattenSeq(Tail(chain)) \in Seq(Byte)
      /\ Len(FlattenSeq(chain)) = Len(Head(chain)) + Len(FlattenSeq(Tail(chain)))
  BY <1>1, ChainIs
<1>3. Len(Head(chain)) \in Nat /\ Len(Head(chain)) > 0
  <2>1. \A x \in Seq(Byte) : x # <<>> => Len(x) \in Nat /\ Len(x) > 0
    OBVIOUS
  <2> QED
    BY <1>2, <2>1
<1>4. /\ Pending \in Seq(Byte) /\ Len(Pending) = Len(buf) + Len(FlattenSeq(chain))
      /\ Len(buf) \in Nat /\ Len(FlattenSeq(chain)) \in Nat /\ Len(Pending) > 0
  <2>1. /\ Len(buf) \in Nat /\ Len(FlattenSeq(chain)) \in Nat
        /\ Len(FlattenSeq(Tail(chain))) \in Nat
    BY <1>1, <1>2
  <2>2. \A x, y \in Seq(Byte) : x \o y \in Seq(Byte) /\ Len(x \o y) = Len(x) + Len(y)
    OBVIOUS
  <2>3. buf \in Seq(Byte) /\ FlattenSeq(chain) \in Seq(Byte)
    BY <1>1, <1>2
  <2>4. Pending \in Seq(Byte) /\ Len(Pending) = Len(buf) + Len(FlattenSeq(chain))
    BY <2>2, <2>3 DEF Pending
  <2> QED
    BY <1>2, <1>3, <2>1, <2>4
<1>5. /\ st \in Nat /\ str \in Seq(Byte) /\ Len(str) \in Nat
      /\ Received \in Nat /\ Received <= Len(str)
      /\ Answered \in Nat /\ Len(session) \in Nat /\ Answered <= Len(session)
  BY StateIs
<1> HIDE DEF st, str, h
<1>6. Len(Pending) = Received - st /\ \A j \in 1 .. Len(Pending) : Pending[j] = str[st + j]
  <2>1. Window(str, Received, Pending, st + 0)
    BY <1>1 DEF IInv, Position, Serving, st, str
  <2>2. st + 0 = st
    BY <1>5
  <2> QED
    BY <2>1, <2>2 DEF Window
<1>7. Answered < Len(session)
  <2>1. Answered # Len(session)
    <3> SUFFICES ASSUME Answered = Len(session) PROVE FALSE
      OBVIOUS
    <3>1. 0 \in 0 .. Len(session) /\ session \in Sessions
      BY <1>5 DEF IInv, Types
    <3>2. Len(str) = st
      BY <3>1, StreamBegins DEF st, str
    <3> QED
      BY <1>4, <1>5, <1>6, <3>2
  <2> QED
    BY <1>5, <2>1
<1>8. Layout(session, Answered) /\ Current \in Command \cup Garbage
  BY <1>7, StateIs
<1>9. h \in Seq(Byte) /\ Len(h) \in Nat /\ (Current.kind # "junk" => 6 <= Len(h))
  BY <1>8, HeaderIs DEF h
<1>10. /\ st + Len(h) <= Len(str) /\ st < Len(str)
       /\ \A j \in 1 .. Len(h) : str[st + j] = h[j]
       /\ Current.kind = "junk" => st + Len(h) = Len(str)
  BY <1>8 DEF Layout, Current, h, st, str
<1>11. Matches(Current, Pending)
  <2>1. ASSUME NEW j \in 1 .. Len(Pending), j <= Len(h) PROVE Pending[j] = h[j]
    <3>1. j \in 1 .. Len(h)
      BY <1>9, <2>1
    <3> QED
      BY <1>6, <1>10, <3>1
  <2>2. Current.kind = "junk" => Len(Pending) <= Len(h)
    BY <1>4, <1>5, <1>6, <1>9, <1>10
  <2> QED
    BY <2>1, <2>2 DEF Matches, h
<1>12. Len(buf) < Len(h)
  <2>1. CASE buf # <<>>
    BY <2>1 DEF IInv, Reading, Serving, h
  <2>2. CASE buf = <<>>
    <3>1. Len(h) > 0
      BY <1>5, <1>9, <1>10
    <3>2. Len(buf) = 0
      BY <2>2
    <3> QED
      BY <3>1, <3>2
  <2> QED
    BY <2>1, <2>2
<1> QED
  BY <1>1, <1>3, <1>4, <1>6, <1>7, <1>8, <1>11, <1>12 DEF h, st

(* A command string is read, refused or waited for.                        *)
LEMMA HandleCommandStep ==
  ASSUME IInv, HandleCommand
  PROVE  IInv'
<1> DEFINE r == ReadCommand(chain, buf)
<1>1. /\ pc = "loop" /\ Head(chain) # <<>> /\ cmd = "NOT_SET" /\ chain' = r.chain
      /\ CASE r.status = "MORE"  -> pc' = "loop" /\ buf' = r.buf /\ UNCHANGED cmd
           [] r.status = "ERROR" -> pc' = "closed" /\ UNCHANGED <<buf, cmd>>
           [] r.status = "HANG"  -> pc' = "hung" /\ UNCHANGED <<buf, cmd>>
           [] OTHER              -> pc' = "exec" /\ buf' = <<>> /\ cmd' = r.status
      /\ UNCHANGED <<session, rest, bits, replies, failed, conns>>
  BY DEF HandleCommand
<1>2. /\ Answered < Len(session) /\ chain \in Seq(Seq(Byte)) /\ chain # <<>>
      /\ buf \in Seq(Byte) /\ Len(Head(chain)) > 0 /\ Used = 0
      /\ Current \in Command \cup Garbage
      /\ Matches(Current, buf \o FlattenSeq(chain))
      /\ Len(buf) < Len(Header(Current))
      /\ Len(buf) + Len(FlattenSeq(chain)) = Received - Start(session, Answered)
  BY <1>1, NextCommand DEF Pending
<1>3. Understood(Current, chain, buf, r)
  BY <1>2, ReadCommandIs
<1> HIDE DEF r
<1>4. Moves(chain, buf, chain', r.buf)
  BY <1>1, <1>3 DEF Understood
<1>5. /\ chain' \in Seq(Seq(Byte)) /\ chain' # <<>> /\ Len(chain') <= MaxChain
      /\ r.buf \in Seq(Byte) /\ FlattenSeq(chain') \in Seq(Byte)
      /\ r.buf \o FlattenSeq(chain') = Pending
      /\ Tail(chain') = Tail(chain) /\ Len(chain') = Len(chain)
  <2>1. /\ chain' \in Seq(Seq(Byte)) /\ chain' # <<>> /\ Len(chain') = Len(chain)
        /\ r.buf \in Seq(Byte) /\ r.buf \o FlattenSeq(chain') = Pending
        /\ Tail(chain') = Tail(chain)
    BY <1>4 DEF Moves, Pending
  <2> QED
    BY <2>1, ChainIs DEF IInv, Types
<1>6. Answered' = Answered /\ Current' = Current /\ Received' = Received
  BY <1>1 DEF Answered, Current, Received
<1>7. bits = -1 /\ Len(buf) < 8
  BY <1>1 DEF IInv, Types, Reading, Serving
<1>8. InOrder'
  BY <1>1 DEF IInv, InOrder, Answered
<1>9. CASE r.status = "MORE"
  <2>1. pc' = "loop" /\ buf' = r.buf /\ cmd' = cmd
    BY <1>1, <1>9
  <2>2. Len(buf') < Len(Header(Current)) /\ Len(buf') < 8
    BY <1>3, <1>9, <2>1 DEF Understood
  <2>3. Len(buf') <= 2 * MaxBytes
    <3>1. Len(buf') \in Nat
      BY <1>5, <2>1
    <3> QED
      BY <2>2, <3>1, SizeAssumption
  <2>4. Types' /\ InHand' /\ StopsForCause'
    BY <1>1, <1>5, <2>1, <2>2, <2>3 DEF IInv, Types, InHand, StopsForCause
  <2>5. Reading'
    BY <1>1, <1>2, <1>6, <1>7, <2>1, <2>2 DEF Reading
  <2>6. Used' = Used /\ Pending' = Pending
    BY <1>1, <1>5, <2>1 DEF Used, Pending
  <2>7. Position'
    BY <1>1, <1>6, <2>6 DEF IInv, Position, Serving
  <2> QED
    BY <1>8, <2>4, <2>5, <2>7 DEF IInv
<1>10. CASE r.status = "ERROR"
  <2>1. pc' = "closed" /\ UNCHANGED <<buf, cmd>>
    BY <1>1, <1>10
  <2>2. Types' /\ InHand' /\ Reading' /\ Position'
    BY <1>1, <1>5, <2>1 DEF IInv, Types, InHand, Reading, Position, Serving
  <2>3. Current.kind = "junk"
    BY <1>3, <1>10 DEF Understood
  <2>4. Len(replies') < Len(session') /\ session'[Len(replies') + 1] = Current
    BY <1>1, <1>2 DEF Answered, Current
  <2>5. StopsForCause'
    BY <2>1, <2>3, <2>4 DEF StopsForCause, Valid
  <2> QED
    BY <1>8, <2>2, <2>5 DEF IInv
<1>11. CASE r.status = "HANG"
  <2>1. pc' = "hung" /\ UNCHANGED <<buf, cmd>>
    BY <1>1, <1>11
  <2>2. Types' /\ InHand' /\ Reading' /\ Position'
    BY <1>1, <1>5, <2>1 DEF IInv, Types, InHand, Reading, Position, Serving
  <2> DEFINE st == Start(session, Answered)
             hd == Len(Head(chain))
             fl == Len(FlattenSeq(chain))
             ft == Len(FlattenSeq(Tail(chain)))
             hh == Len(Header(Current))
  <2>3. Len(buf) + hd < hh /\ Len(buf) + hd < Len(buf) + fl
    BY <1>3, <1>11 DEF Understood
  <2>4. /\ hd \in Nat /\ fl \in Nat /\ ft \in Nat /\ fl = hd + ft /\ Len(chain) \in Nat
        /\ Len(chain) <= 1 => FlattenSeq(Tail(chain)) = <<>>
    BY <1>2, ChainIs
  <2>5. Len(buf) \in Nat /\ st \in Nat /\ hh \in Nat /\ Received \in Nat
    BY <1>2, StateIs, HeaderIs
  <2>6. Len(chain') > 1
    <3>1. FlattenSeq(Tail(chain)) = <<>> => ft = 0
      OBVIOUS
    <3> HIDE DEF ft, hd, fl
    <3> QED
      BY <1>5, <2>3, <2>4, <2>5, <3>1
  <2>7. PbufEnd' = Received - ft
    BY <1>1, <1>5 DEF PbufEnd, Received
  <2>8. CommandStart' = st
    BY <1>1 DEF CommandStart, Start, Codes, Answered
  <2>9. CommandEnd' = st + hh
    BY <1>1, <2>8 DEF CommandEnd, Header, Current, Answered
  <2> HIDE DEF st, hd, fl, ft, hh
  <2>10. Received - ft = st + (Len(buf) + hd)
    <3>1. Len(buf) + fl = Received - st
      BY <1>2 DEF fl, st
    <3> QED
      BY <2>4, <2>5, <3>1
  <2>11. PbufEnd' \in CommandStart' + 1 .. CommandEnd' - 1
    <3>1. hd > 0
      BY <1>2 DEF hd
    <3>2. st + (Len(buf) + hd) \in st + 1 .. (st + hh) - 1
      BY <2>3, <2>4, <2>5, <3>1
    <3> QED
      BY <2>7, <2>8, <2>9, <2>10, <3>2
  <2>12. StopsForCause'
    BY <2>1, <2>6, <2>11 DEF StopsForCause
  <2> QED
    BY <1>8, <2>2, <2>12 DEF IInv
<1>12. CASE r.status \in Names
  <2>1. pc' = "exec" /\ buf' = <<>> /\ cmd' = r.status
    BY <1>1, <1>12 DEF Names
  <2>2. Current.kind = cmd' /\ r.buf = Header(Current) /\ cmd' \in Names
    BY <1>3, <1>12, <2>1 DEF Understood
  <2>3. cmd' # "NOT_SET" /\ cmd' # "junk"
    BY <2>2 DEF Names
  <2>4. Len(buf') < 4 /\ Len(buf') <= 2 * MaxBytes /\ buf' \in Seq(Byte)
    BY <2>1, SizeAssumption
  <2>5. Types' /\ InHand' /\ StopsForCause'
    BY <1>1, <1>5, <2>1, <2>2, <2>3, <2>4 DEF IInv, Types, InHand, StopsForCause, Names
  <2>6. Reading'
    BY <1>1, <1>2, <1>6, <1>7, <2>1, <2>2, <2>3, <2>4 DEF Reading
  <2>7. Position'
    <3> DEFINE n == Start(session, Answered) + Used
    <3>1. Window(Stream[session], Received, FlattenSeq(chain'), n + Len(r.buf)) /\ n \in Nat
      BY <1>1, <1>4, GotIs DEF Serving
    <3>2. Pending' = FlattenSeq(chain')
      <4>1. \A x \in Seq(Byte) : <<>> \o x = x
        OBVIOUS
      <4> QED
        BY <1>5, <2>1, <4>1 DEF Pending
    <3>3. r.buf = CommandStr[cmd'] /\ Len(r.buf) \in Nat
      BY <2>2, <2>3, StringsAre DEF Header
    <3>4. Used' = Len(r.buf) + 0
      BY <1>1, <1>7, <2>3, <3>3 DEF Used
    <3>5. Start(session, Answered) + Used' = n + Len(r.buf)
      BY <1>2, <3>3, <3>4, StateIs
    <3> QED
      BY <1>1, <1>6, <3>1, <3>2, <3>5 DEF Position
  <2> QED
    BY <1>8, <2>5, <2>6, <2>7 DEF IInv
<1> QED
  BY <1>3, <1>9, <1>10, <1>11, <1>12 DEF Understood

(* The next client.                                                        *)
LEMMA ReconnectStep ==
  ASSUME IInv, Reconnect
  PROVE  IInv'
<1>1. /\ session' \in Sessions /\ rest' = Stream[session'] /\ chain' = <<>>
      /\ pc' = "recv" /\ Fresh /\ replies' = <<>> /\ failed' = FALSE
      /\ conns < MaxConnections /\ conns' = conns + 1
  BY DEF Reconnect
<1>2. conns' \in 1 .. MaxConnections
  BY <1>1, SizeAssumption DEF IInv, Types
<1>3. Opening'
  BY <1>1, <1>2 DEF Opening, Fresh
<1>4. Opening' => IInv'
  BY OpeningInv, PTL
<1> QED
  BY <1>3, <1>4

(* Steps that change nothing here.                                         *)
LEMMA StutterStep ==
  ASSUME IInv, UNCHANGED vars
  PROVE  IInv'
<1>1. UNCHANGED <<session, rest, chain, pc, cmd, buf, bits, replies, failed, conns>>
  BY DEF vars
<1>2. Types' /\ InHand' /\ InOrder'
  BY <1>1 DEF IInv, Types, InHand, InOrder, Answered
<1>3. StopsForCause'
  BY <1>1 DEF IInv, StopsForCause, PbufEnd, CommandStart, CommandEnd
<1>4. Answered' = Answered /\ Current' = Current /\ Received' = Received /\ Used' = Used
      /\ Pending' = Pending
  BY <1>1 DEF Answered, Current, Received, Used, Pending
<1>5. Reading'
  BY <1>1, <1>4 DEF IInv, Reading, Serving
<1>6. Position'
  BY <1>1, <1>4 DEF IInv, Position, Serving
<1> QED
  BY <1>2, <1>3, <1>5, <1>6 DEF IInv

(* Every step keeps the invariant.                                         *)
LEMMA Inductive ==
  ASSUME IInv, [Next]_vars
  PROVE  IInv'
BY ReceiveStep, NextPbufStep, HandleCommandStep, ResumeStep, HandleGetinfoStep,
   HandleSettckStep, HandleShiftLengthStep, HandleShiftDataStep, ReconnectStep,
   StutterStep DEF Next, Server

(* The invariant holds at the start.                                       *)
LEMMA InitInv == Init => IInv
<1> SUFFICES ASSUME Init PROVE Opening
  BY OpeningInv
<1>1. 1 \in 1 .. MaxConnections
  BY SizeAssumption
<1> QED
  BY <1>1 DEF Init, Opening

(* The inductive invariant holds in every state.                           *)
THEOREM Invariance == Spec => []IInv
<1>1. IInv /\ [Next]_vars => IInv'
  BY Inductive
<1> QED
  BY <1>1, InitInv, PTL DEF Spec

-----------------------------------------------------------------------------
(* What follows from the invariant.                                        *)

(* The consequences of the invariant: the types and the size of the        *)
(* buffer.                                                                 *)
LEMMA TypesHold == IInv => TypeOK
<1> SUFFICES ASSUME IInv PROVE TypeOK
  OBVIOUS
<1> DEFINE s == Stream[session]
           n == Len(s) - Len(rest)
           d == SubSeq(s, n + 1, Len(s))
<1>1. s \in Seq(Byte) /\ rest \in Seq(Byte) /\ Len(s) \in Nat /\ Len(rest) \in Nat
      /\ n \in Nat /\ n <= Len(s)
  BY StateIs DEF Received
<1>2. \A j \in 1 .. Len(rest) : rest[j] = s[n + j]
  BY DEF IInv, Types
<1> HIDE DEF s
<1>3. Len(s) - n = Len(rest)
  BY <1>1
<1> HIDE DEF n
<1>4. d \in Seq(Byte) /\ Len(d) = Len(rest) /\ \A j \in 1 .. Len(rest) : d[j] = s[n + j]
  BY <1>1, <1>3, SubSeqIs
<1> HIDE DEF d
<1>5. rest = d
  BY <1>1, <1>2, <1>4, SeqEqual
<1>6. buf \in Seq(Byte) /\ (cmd = "NOT_SET" => Len(buf) < 8) /\ Len(buf) \in Nat
  BY DEF IInv, Types
<1>7. cmd = "NOT_SET" => Len(buf) <= 8
  BY <1>6
<1> QED
  BY <1>5, <1>7 DEF IInv, Types, TypeOK, d, n, s

(* Commands are answered in their order.                                   *)
LEMMA OrderHolds == IInv => CommandsInOrder
<1> SUFFICES ASSUME IInv PROVE CommandsInOrder
  OBVIOUS
<1> DEFINE n == Len(replies)
           d == SubSeq(session, 1, n)
           C == Command \cup Garbage
<1> HIDE DEF C
<1>1. replies \in Seq(C) /\ n <= Len(session) /\ \A i \in 1 .. n : replies[i] = session[i]
  BY DEF IInv, InOrder, Answered, C
<1>2. session \in Seq(C)
  BY SessionAssumption DEF IInv, Types, C
<1>3. n \in Nat /\ Len(session) \in Nat
  BY <1>1, <1>2
<1>4. d \in Seq(C) /\ Len(d) = n /\ \A i \in 1 .. n : d[i] = session[i]
  BY <1>1, <1>2, <1>3
<1>5. SubSeq(replies, 1, n) = replies
  BY <1>1
<1> HIDE DEF d
<1>6. replies = d
  BY <1>1, <1>3, <1>4, SeqEqual
<1> QED
  BY <1>1, <1>5, <1>6 DEF CommandsInOrder, IsPrefix, d

(* When the whole stream was read every command is answered: the position  *)
(* is at its end, and no command ends beyond it.                           *)
LEMMA AnsweredHolds == IInv => AllAnswered
<1> SUFFICES ASSUME IInv, pc = "recv", rest = <<>>, chain = <<>>
             PROVE  replies = session /\ cmd = "NOT_SET" /\ buf = <<>>
  BY DEF AllAnswered
<1> DEFINE st == Start(session, Answered)
           str == Stream[session]
           h == Len(Header(Current))
<1>1. /\ st \in Nat /\ Len(str) \in Nat /\ Used \in Nat
      /\ Answered \in Nat /\ Len(session) \in Nat /\ Answered <= Len(session)
      /\ Answered < Len(session) =>
           Layout(session, Answered) /\ Current \in Command \cup Garbage
  BY StateIs
<1>2. buf \in Seq(Byte) /\ Len(buf) \in Nat /\ session \in Sessions
  BY DEF IInv, Types
<1>3. Len(buf) = Len(str) - (st + Used)
  <2>1. Pending = buf
    <3>1. \A x \in Seq(Byte) : x \o <<>> = x
      OBVIOUS
    <3> QED
      BY <1>2, <3>1, FlattenEmpty DEF Pending
  <2>2. Received = Len(str)
    <3>1. Len(rest) = 0
      OBVIOUS
    <3> QED
      BY <1>1, <3>1 DEF Received
  <2>3. Window(str, Received, Pending, st + Used)
    BY DEF IInv, Position, Serving
  <2> QED
    BY <2>1, <2>2, <2>3 DEF Window
<1>4. Answered < Len(session) =>
        /\ h \in Nat /\ st + h <= Len(str)
        /\ Current.kind # "junk" => Header(Current) = CommandStr[Current.kind]
        /\ Current.kind = "settck" => st + h + 4 <= Len(str)
        /\ Current.kind = "shift" => st + h + 4 + 2 * BitsToBytes(Current.bits) <= Len(str)
  <2>1. ASSUME Answered < Len(session)
        PROVE  /\ h \in Nat /\ (Current.kind # "junk" => Header(Current) = CommandStr[Current.kind])
    BY <1>1, <2>1, HeaderIs
  <2>2. ASSUME Answered < Len(session)
        PROVE  /\ st + h <= Len(str)
               /\ Current.kind = "settck" => st + h + 4 <= Len(str)
               /\ Current.kind = "shift" => st + h + 4 + 2 * BitsToBytes(Current.bits) <= Len(str)
    BY <1>1, <2>2 DEF Layout, Current
  <2> QED
    BY <2>1, <2>2
<1>5. cmd = "NOT_SET" \/ cmd = "getinfo" \/ cmd = "settck" \/ cmd = "shift"
  BY DEF IInv, Types
<1>6. /\ cmd = "NOT_SET" /\ buf # <<>> => Answered < Len(session) /\ Len(buf) < h
      /\ cmd # "NOT_SET" => Answered < Len(session) /\ Current.kind = cmd
      /\ cmd # "getinfo"
      /\ cmd = "settck" => Len(buf) < 4 /\ bits = -1
      /\ cmd = "shift" /\ bits = -1 => Len(buf) < 4
      /\ cmd = "shift" /\ bits # -1 =>
           bits = Current.bits /\ Len(buf) < 2 * BitsToBytes(bits)
  BY DEF IInv, Reading, Serving
<1> HIDE DEF st, str, h
<1>7. cmd # "settck"
  <2> SUFFICES ASSUME cmd = "settck" PROVE FALSE
    OBVIOUS
  <2>1. Used = h + 0 /\ h \in Nat
    BY <1>4, <1>6 DEF Used, h
  <2> QED
    BY <1>1, <1>2, <1>3, <1>4, <1>6, <2>1
<1>8. cmd # "shift"
  <2> SUFFICES ASSUME cmd = "shift" PROVE FALSE
    OBVIOUS
  <2> DEFINE n == BitsToBytes(Current.bits)
  <2>1. h \in Nat /\ h = Len(CommandStr[cmd])
    BY <1>4, <1>6 DEF h
  <2>2. n \in Nat
    <3>1. Current.bits \in Nat
      BY <1>1, <1>6, CommandIs DEF Word
    <3> QED
      BY <3>1, BytesIs
  <2>3. st + h + 4 + 2 * n <= Len(str)
    BY <1>4, <1>6
  <2>4. CASE bits = -1
    <3>1. Used = h + 0
      BY <2>1, <2>4 DEF Used
    <3>2. Len(buf) < 4 /\ h \in Nat
      BY <1>6, <2>1, <2>4
    <3> HIDE DEF n
    <3> QED
      BY <1>1, <1>2, <1>3, <2>2, <2>3, <3>1, <3>2
  <2>5. CASE bits # -1
    <3>1. Used = h + 4
      BY <2>1, <2>5 DEF Used
    <3>2. Len(buf) < 2 * n /\ h \in Nat
      BY <1>6, <2>1, <2>5
    <3> HIDE DEF n
    <3> QED
      BY <1>1, <1>2, <1>3, <2>2, <2>3, <3>1, <3>2
  <2> QED
    BY <2>4, <2>5
<1>9. cmd = "NOT_SET" /\ Used = 0
  BY <1>5, <1>6, <1>7, <1>8 DEF Used
<1>10. buf = <<>>
  <2> SUFFICES ASSUME buf # <<>> PROVE FALSE
    OBVIOUS
  <2>1. Answered < Len(session) /\ Len(buf) < h /\ h \in Nat /\ st + h <= Len(str)
    BY <1>4, <1>6, <1>9
  <2> QED
    BY <1>1, <1>2, <1>3, <1>9, <2>1
<1>11. Answered = Len(session)
  <2> SUFFICES ASSUME Answered < Len(session) PROVE FALSE
    BY <1>1
  <2>1. st < Len(str)
    BY <1>1 DEF Layout, st, str
  <2>2. Len(buf) = 0
    BY <1>10
  <2> QED
    BY <1>1, <1>3, <1>9, <2>1, <2>2
<1>12. replies = session
  <2> DEFINE C == Command \cup Garbage
  <2> HIDE DEF C
  <2>1. /\ replies \in Seq(C) /\ session \in Seq(C) /\ Len(replies) = Len(session)
        /\ \A i \in 1 .. Len(replies) : replies[i] = session[i]
    BY <1>2, <1>11, SessionAssumption DEF IInv, InOrder, Answered, C
  <2> QED
    BY <2>1, SeqEqual
<1> QED
  BY <1>9, <1>10, <1>12

-----------------------------------------------------------------------------
(* The loop of handle_receive consumes.                                    *)

(* The rest of a pass, and a chain's weight.                               *)
PassLeft ==
  LET needsData == cmd = "settck" \/ (cmd = "shift" /\ bits # 0)
  IN  CASE pc = "loop"                                    -> 1
        [] pc = "exec" /\ needsData /\ Head(chain) # <<>> -> 0
        [] OTHER                                          -> 2
(* The pbufs and bytes that are left.                                      *)
Weight(ch) == Len(ch) + Len(FlattenSeq(ch))

(* The variant as three times the weight and what is left of the pass.     *)
Weighed ==
  /\ Work = 3 * Weight(chain) + PassLeft
  /\ Weight(chain) \in Nat /\ PassLeft \in {0, 1, 2}

(* The variant is what Weighed says.                                       *)
LEMMA WorkIs == IInv => Weighed
<1> SUFFICES ASSUME IInv PROVE Weighed
  OBVIOUS
<1>1. chain \in Seq(Seq(Byte)) /\ FlattenSeq(chain) \in Seq(Byte)
  BY StateIs
<1>2. Len(chain) \in Nat /\ Len(FlattenSeq(chain)) \in Nat
  BY <1>1
<1>3. Weight(chain) \in Nat
  BY <1>2 DEF Weight
<1>4. Work = 3 * Weight(chain) + PassLeft
  BY DEF Work, PassLeft, Weight
<1>5. PassLeft \in {0, 1, 2}
  BY DEF PassLeft
<1> QED
  BY <1>3, <1>4, <1>5 DEF Weighed

(* A step that takes a pbuf or a byte leaves less to do, and so does one   *)
(* that only goes on with the pass.                                        *)
LEMMA Less ==
  ASSUME IInv, IInv',
         \/ Weight(chain') < Weight(chain)
         \/ Weight(chain') = Weight(chain) /\ PassLeft' < PassLeft
  PROVE  Work' < Work
<1>1. Work = 3 * Weight(chain) + PassLeft /\ Weight(chain) \in Nat /\ PassLeft \in {0, 1, 2}
  BY WorkIs DEF Weighed
<1>2. Weighed'
  BY WorkIs, PTL
<1>3. /\ Work' = 3 * Weight(chain') + PassLeft'
      /\ Weight(chain') \in Nat /\ PassLeft' \in {0, 1, 2}
  BY <1>2 DEF Weighed, Weight
<1> QED
  BY <1>1, <1>3

(* A reader that adds to the buffer takes from the chain.                  *)
LEMMA MovesLess ==
  ASSUME NEW ch \in Seq(Seq(Byte)), NEW b \in Seq(Byte), NEW ch2, NEW b2,
         Moves(ch, b, ch2, b2)
  PROVE  /\ Weight(ch2) <= Weight(ch) /\ Weight(ch) \in Nat /\ Weight(ch2) \in Nat
         /\ Len(b) < Len(b2) => Weight(ch2) < Weight(ch)
<1>1. /\ Len(ch2) = Len(ch) /\ Len(b) <= Len(b2) /\ b2 \in Seq(Byte)
      /\ ch2 \in Seq(Seq(Byte))
      /\ Len(FlattenSeq(ch2)) = Len(FlattenSeq(ch)) - (Len(b2) - Len(b))
  BY DEF Moves
<1>2. FlattenSeq(ch) \in Seq(Byte) /\ FlattenSeq(ch2) \in Seq(Byte)
  <2>1. <<>> \in Seq(Byte)
    OBVIOUS
  <2> QED
    BY <1>1, <2>1, FlattenAppend
<1>3. /\ Len(ch) \in Nat /\ Len(b) \in Nat /\ Len(b2) \in Nat
      /\ Len(FlattenSeq(ch)) \in Nat /\ Len(FlattenSeq(ch2)) \in Nat
  BY <1>1, <1>2
<1> QED
  BY <1>1, <1>3 DEF Weight

(* A pass that reads a command string makes the variant smaller.           *)
LEMMA CommandLess ==
  ASSUME IInv, IInv', HandleCommand, pc' \in {"loop", "exec"}
  PROVE  Work' < Work
<1> DEFINE r == ReadCommand(chain, buf)
<1>1. /\ pc = "loop" /\ Head(chain) # <<>> /\ cmd = "NOT_SET" /\ chain' = r.chain
      /\ CASE r.status = "MORE"  -> pc' = "loop" /\ buf' = r.buf /\ UNCHANGED cmd
           [] r.status = "ERROR" -> pc' = "closed" /\ UNCHANGED <<buf, cmd>>
           [] r.status = "HANG"  -> pc' = "hung" /\ UNCHANGED <<buf, cmd>>
           [] OTHER              -> pc' = "exec" /\ buf' = <<>> /\ cmd' = r.status
  BY DEF HandleCommand
<1>2. /\ chain \in Seq(Seq(Byte)) /\ chain # <<>>
      /\ buf \in Seq(Byte) /\ Len(Head(chain)) > 0
      /\ Current \in Command \cup Garbage
      /\ Matches(Current, buf \o FlattenSeq(chain))
      /\ Len(buf) < Len(Header(Current))
  BY <1>1, NextCommand DEF Pending
<1>3. Understood(Current, chain, buf, r)
  BY <1>2, ReadCommandIs
<1> HIDE DEF r
<1>4. Moves(chain, buf, chain', r.buf)
  BY <1>1, <1>3 DEF Understood
<1>5. r.status # "ERROR" /\ r.status # "HANG"
  BY <1>1
<1>6. Len(buf) < Len(r.buf)
  BY <1>2, <1>3, <1>5 DEF Understood
<1>7. Weight(chain') < Weight(chain)
  <2> DEFINE g == r.buf
             ch == chain'
  <2>1. Moves(chain, buf, ch, g) /\ Len(buf) < Len(g)
    BY <1>4, <1>6
  <2> HIDE DEF g, ch
  <2>2. Weight(ch) < Weight(chain)
    BY <1>2, <2>1, MovesLess
  <2> QED
    BY <2>2 DEF ch
<1> QED
  BY <1>7, Less

(* A reply, or more data, after n bytes have been asked for.               *)
LEMMA DataLess ==
  ASSUME IInv, IInv', pc = "exec", NEW n \in Nat, NEW r, Filled(chain, buf, n, r),
         chain' = r.chain, pc' = "loop",
         PassLeft # 2 => Len(Head(chain)) > 0 /\ Len(buf) < n
  PROVE  Work' < Work
<1>1. chain \in Seq(Seq(Byte)) /\ buf \in Seq(Byte)
  BY StateIs
<1>2. Moves(chain, buf, chain', r.buf)
  BY DEF Filled
<1> DEFINE g == r.buf
           ch == chain'
<1>3. Moves(chain, buf, ch, g) /\ (PassLeft # 2 => Len(buf) < Len(g))
  BY <1>2 DEF Filled
<1> HIDE DEF g, ch
<1>4. /\ Weight(ch) <= Weight(chain) /\ Weight(chain) \in Nat /\ Weight(ch) \in Nat
      /\ PassLeft # 2 => Weight(ch) < Weight(chain)
  BY <1>1, <1>3, MovesLess
<1>5. PassLeft' = 1
  BY DEF PassLeft
<1>6. \/ Weight(ch) < Weight(chain)
      \/ Weight(ch) = Weight(chain) /\ PassLeft' < PassLeft
  BY <1>4, <1>5
<1> QED
  BY <1>6, Less DEF ch

(* Inside the loop there is a pbuf.                                        *)
LEMMA NonEmpty ==
  ASSUME IInv, pc \in {"loop", "exec"}
  PROVE  /\ chain \in Seq(Seq(Byte)) /\ chain # <<>> /\ buf \in Seq(Byte)
         /\ Len(buf) \in Nat
         /\ Head(chain) # <<>> => Len(Head(chain)) > 0
<1>1. chain \in Seq(Seq(Byte)) /\ chain # <<>> /\ buf \in Seq(Byte)
  BY StateIs DEF IInv, InHand
<1>2. Head(chain) \in Seq(Byte)
  BY <1>1, ChainIs
<1>3. \A x \in Seq(Byte) : Len(x) \in Nat /\ (x # <<>> => Len(x) > 0)
  OBVIOUS
<1> QED
  BY <1>1, <1>2, <1>3

(* So does one that reads the period of settck.                            *)
LEMMA SettckLess ==
  ASSUME IInv, IInv', HandleSettck, pc' \in {"loop", "exec"}
  PROVE  Work' < Work
<1> DEFINE r == ReadUint32(chain, buf)
<1>1. /\ pc = "exec" /\ cmd = "settck" /\ chain' = r.chain /\ pc' = "loop"
  BY DEF HandleSettck, Reply, NeedMore
<1>2. Len(buf) < 4
  BY <1>1 DEF IInv, Reading, Serving
<1>3. chain \in Seq(Seq(Byte)) /\ chain # <<>> /\ buf \in Seq(Byte) /\ Len(buf) \in Nat
  BY <1>1, NonEmpty
<1>4. Filled(chain, buf, 4, r)
  <2>1. Len(buf) <= 4 /\ 4 \in Nat
    BY <1>2, <1>3
  <2> QED
    BY <1>3, <2>1, ReadBytesIs DEF ReadUint32
<1>5. PassLeft # 2 => Len(Head(chain)) > 0
  <2>1. PassLeft # 2 => Head(chain) # <<>>
    BY <1>1 DEF PassLeft
  <2> QED
    BY <1>1, <2>1, NonEmpty
<1> HIDE DEF r
<1>6. 4 \in Nat
  OBVIOUS
<1> QED
  BY <1>1, <1>2, <1>4, <1>5, <1>6, DataLess

(* So does the step to a command that was begun.                           *)
LEMMA ResumeLess ==
  ASSUME IInv, IInv', Resume
  PROVE  Work' < Work
<1>1. /\ pc = "loop" /\ pc' = "exec" /\ cmd # "NOT_SET" /\ Head(chain) # <<>>
      /\ chain' = chain /\ cmd' = cmd /\ bits' = bits
  BY DEF Resume
<1>2. cmd = "settck" \/ cmd = "shift"
  BY <1>1 DEF IInv, Types, Reading, Serving
<1>3. cmd = "shift" => bits # 0
  <2> SUFFICES ASSUME cmd = "shift", bits = 0 PROVE FALSE
    OBVIOUS
  <2>1. bits # -1
    OBVIOUS
  <2>2. Len(buf) < 2 * BitsToBytes(bits)
    BY <1>1, <2>1 DEF IInv, Reading, Serving
  <2>3. BitsToBytes(bits) = 0
    BY BytesIs
  <2> QED
    BY <1>1, <2>2, <2>3, NonEmpty
<1>4. PassLeft = 1 /\ PassLeft' = 0
  BY <1>1, <1>2, <1>3 DEF PassLeft
<1>5. Weight(chain') = Weight(chain) /\ PassLeft' < PassLeft
  BY <1>1, <1>4
<1> QED
  BY <1>5, Less

(* So does the step to the next pbuf.                                      *)
LEMMA PbufLess ==
  ASSUME IInv, IInv', NextPbuf, pc' \in {"loop", "exec"}
  PROVE  Work' < Work
<1>1. pc = "loop" /\ Head(chain) = <<>> /\ chain' = Tail(chain)
  BY DEF NextPbuf
<1>2. chain \in Seq(Seq(Byte)) /\ chain # <<>>
  BY <1>1, NonEmpty
<1>3. /\ Len(chain) \in Nat /\ Len(Tail(chain)) = Len(chain) - 1
      /\ FlattenSeq(Tail(chain)) \in Seq(Byte) /\ Len(Head(chain)) \in Nat
      /\ Len(FlattenSeq(chain)) = Len(Head(chain)) + Len(FlattenSeq(Tail(chain)))
  BY <1>2, ChainIs
<1>4. Len(FlattenSeq(Tail(chain))) \in Nat
  BY <1>3
<1>5. Weight(Tail(chain)) < Weight(chain)
  BY <1>3, <1>4 DEF Weight
<1> QED
  BY <1>1, <1>5, Less

(* So does the answer to getinfo.                                          *)
LEMMA GetinfoLess ==
  ASSUME IInv, IInv', HandleGetinfo, pc' \in {"loop", "exec"}
  PROVE  Work' < Work
<1>1. pc = "exec" /\ cmd = "getinfo" /\ chain' = chain /\ pc' = "loop"
  BY DEF HandleGetinfo, Reply
<1>2. PassLeft = 2 /\ PassLeft' = 1
  BY <1>1 DEF PassLeft
<1>3. Weight(chain') = Weight(chain) /\ PassLeft' < PassLeft
  BY <1>1, <1>2
<1> QED
  BY <1>3, Less

(* So does the length of a vector.                                         *)
LEMMA ShiftLengthLess ==
  ASSUME IInv, IInv', HandleShiftLength, pc' \in {"loop", "exec"}
  PROVE  Work' < Work
<1> DEFINE r == ReadUint32(chain, buf)
<1>1. /\ pc = "exec" /\ cmd = "shift" /\ bits = -1 /\ chain' = r.chain
      /\ r.status = "OK" \/ pc' = "loop"
  BY DEF HandleShiftLength, NeedMore
<1>2. Len(buf) < 4
  BY <1>1 DEF IInv, Reading, Serving
<1>3. chain \in Seq(Seq(Byte)) /\ chain # <<>> /\ buf \in Seq(Byte) /\ Len(buf) \in Nat
  BY <1>1, NonEmpty
<1>4. Filled(chain, buf, 4, r)
  <2>1. Len(buf) <= 4 /\ 4 \in Nat
    BY <1>2, <1>3
  <2> QED
    BY <1>3, <2>1, ReadBytesIs DEF ReadUint32
<1> HIDE DEF r
<1>5. CASE r.status = "OK"
  <2> DEFINE g == r.buf
             ch == chain'
  <2>1. Moves(chain, buf, ch, g) /\ 4 <= Len(g) /\ g \in Seq(Byte)
    BY <1>1, <1>4, <1>5 DEF Filled, Moves
  <2> HIDE DEF g, ch
  <2>2. Len(buf) < Len(g)
    BY <1>2, <1>3, <2>1
  <2>3. Weight(ch) < Weight(chain)
    BY <1>3, <2>1, <2>2, MovesLess
  <2> QED
    BY <2>3, Less DEF ch
<1>6. CASE pc' = "loop"
  <2>1. PassLeft # 2 => Len(Head(chain)) > 0
    <3>1. PassLeft # 2 => Head(chain) # <<>>
      BY <1>1 DEF PassLeft
    <3> QED
      BY <1>1, <3>1, NonEmpty
  <2>2. 4 \in Nat
    OBVIOUS
  <2> QED
    BY <1>1, <1>2, <1>4, <1>6, <2>1, <2>2, DataLess
<1> QED
  BY <1>1, <1>5, <1>6

(* So do the bytes of a vector.                                            *)
LEMMA ShiftDataLess ==
  ASSUME IInv, IInv', HandleShiftData, pc' \in {"loop", "exec"}
  PROVE  Work' < Work
<1> DEFINE n == 2 * BitsToBytes(bits)
           r == ReadDataShiftVector(chain, buf)
<1>1. /\ pc = "exec" /\ cmd = "shift" /\ bits # -1 /\ chain' = r.chain /\ pc' = "loop"
  BY DEF HandleShiftData, Reply, NeedMore
<1>2. /\ bits = Current.bits /\ Answered < Len(session) /\ Current.kind = "shift"
      /\ Len(buf) < n \/ (bits = 0 /\ buf = <<>>)
  BY <1>1 DEF IInv, Reading, Serving
<1>3. chain \in Seq(Seq(Byte)) /\ chain # <<>> /\ buf \in Seq(Byte) /\ Len(buf) \in Nat
  BY <1>1, NonEmpty
<1>4. bits \in Nat
  <2>1. Current \in Command \cup Garbage
    BY <1>2, StateIs
  <2> QED
    BY <1>2, <2>1, CommandIs DEF Word
<1>5. BitsToBytes(bits) \in Nat
  BY <1>4, BytesIs
<1>6. n \in Nat /\ Len(buf) <= n
  <2>1. n \in Nat
    BY <1>5
  <2>2. CASE Len(buf) < n
    BY <1>3, <2>1, <2>2
  <2>3. CASE buf = <<>>
    <3>1. Len(buf) = 0
      BY <2>3
    <3> QED
      BY <2>1, <3>1
  <2> QED
    BY <1>2, <2>1, <2>2, <2>3
<1>7. Filled(chain, buf, n, r)
  BY <1>3, <1>6, ReadBytesIs DEF ReadDataShiftVector
<1>8. PassLeft # 2 => Len(Head(chain)) > 0 /\ Len(buf) < n
  <2>1. PassLeft # 2 => Head(chain) # <<>> /\ bits # 0
    BY <1>1 DEF PassLeft
  <2> HIDE DEF n
  <2> QED
    BY <1>1, <1>2, <2>1, NonEmpty
<1> HIDE DEF n, r
<1> QED
  BY <1>1, <1>6, <1>7, <1>8, DataLess

(* Every step of the loop makes the variant smaller.                       *)
LEMMA LoopLess ==
  ASSUME IInv, [Next]_vars, pc \in {"loop", "exec"}, pc' \in {"loop", "exec"}
  PROVE  UNCHANGED vars \/ Work' < Work
<1>1. IInv'
  BY Inductive
<1>2. ~Receive /\ ~Reconnect
  BY DEF Receive, Reconnect
<1> QED
  BY <1>1, <1>2, PbufLess, CommandLess, ResumeLess, GetinfoLess, SettckLess,
     ShiftLengthLess, ShiftDataLess DEF Next, Server

-----------------------------------------------------------------------------
(* The results.                                                            *)

(* The server's state stays well-formed: what it has not received is the   *)
(* end of the client's stream, and state->buffer is never overrun.         *)
THEOREM TypeCorrect == Spec => []TypeOK
BY Invariance, TypesHold, PTL

(* Wherever the stream is cut, the commands executed are the client's      *)
(* first commands, in order, with their arguments intact.                  *)
THEOREM InOrderAlways == Spec => []CommandsInOrder
BY Invariance, OrderHolds, PTL

(* When all of a client's bytes have been received and handled, all of its *)
(* commands have been answered.                                            *)
THEOREM AnsweredAlways == Spec => []AllAnswered
BY Invariance, AnsweredHolds, PTL

(* A connection is given up only for bad data or a failed call, and the    *)
(* task hangs only when two pbufs of a chain meet in a command string.     *)
THEOREM StopsForCauseAlways == Spec => []StopsForCause
<1>1. IInv => StopsForCause
  BY DEF IInv
<1> QED
  BY <1>1, Invariance, PTL

(* Every step of the loop of xvc_server_handle_receive leaves less to do,  *)
(* so that handle_receive returns.                                         *)
THEOREM LoopConsumesAlways == Spec => LoopConsumes
<1>1. IInv /\ [Next]_vars =>
        [(pc \in {"loop", "exec"} /\ pc' \in {"loop", "exec"}) => Work' < Work]_vars
  BY LoopLess
<1> QED
  BY <1>1, Invariance, PTL DEF Spec, LoopConsumes
=============================================================================
