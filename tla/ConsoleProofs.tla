---------------------------- MODULE ConsoleProofs ----------------------------
(***************************************************************************)
(* Proofs about what stands behind the two consoles of the board.          *)
(*                                                                         *)
(* SetupFlash, which the serial monitor changes: the stored set-up         *)
(* survives, and the firmware and the flash chip stay in step, for fields  *)
(* of every width and all contents.                                        *)
(*                                                                         *)
(* TelnetSession: for line buffers and mailboxes of every size, and all    *)
(* packets, the commands are the lines of the stream and the dumps are     *)
(* where the lines say.  TelnetInv is inductive; it says that the line     *)
(* buffer holds the beginning of the line that has not ended yet.          *)
(***************************************************************************)
EXTENDS SetupFlash, TelnetSession, TLAPS, FiniteSetTheorems, SequenceTheorems,
        NaturalsInduction, WellFoundedInduction

(* A field that the chip works on, or that the firmware has begun to       *)
(* change, is not one that anybody relies on; what is relied on is there.  *)
Relied ==
  /\ \A f \in Field : stored[f] # Unknown => flash[f] = stored[f]
  /\ \A f \in Field : f \in FieldsOf(busy) \/ f \in FieldsOf(job) =>
       stored[f] = Unknown

(* What the plan for field f rests on at each program point of a job: the  *)
(* other fields stay as they are; before the operation the chip is idle    *)
(* and the field erased, and the latch is set; after it the chip has the   *)
(* data or is done with them.                                              *)
PlanOf(f) ==
  IF f \notin FieldsOf(job) THEN plan[f] = stored[f]
  ELSE plan[f] # Unknown =>
    /\ plan[f] = IF job = "erase" THEN Bit ELSE new[f]
    /\ pc \in {"wren", "op"} => busy = "none" /\ (job = "erase" \/ flash[f] = Bit)
    /\ pc = "op" => wel
    /\ (pc \in {"wrdi", "wait"} /\ ok) =>
         \/ busy = job /\ given = new /\ (job = "erase" \/ flash[f] = Bit)
         \/ busy = "none" /\ flash[f] = plan[f]

(* The plan, for all fields, while a job runs.                             *)
Planned == pc # "prompt" => \A f \in Field : PlanOf(f)

(* The latch is closed, or known to be open, once m25p_write_disable was   *)
(* sent to an idle chip; before an operation the chip is idle unless the   *)
(* wait for it was given up.                                               *)
InStep ==
  /\ pc \in {"wait", "prompt"} /\ busy = "none" /\ wel => open
  /\ pc \in {"prompt", "wren", "op"} /\ busy # "none" => gaveUp

(* The inductive invariant of the stored set-up.                           *)
FlashInv == TypeOK /\ Relied /\ Planned /\ InStep

-----------------------------------------------------------------------------
(* The fields that a job writes.                                           *)
LEMMA JobFields ==
  /\ FieldsOf("none") = {}
  /\ FieldsOf("erase") = Field
  /\ FieldsOf("mac") = {"oui", "low"}
  /\ FieldsOf("sn") = {"sn"}
BY DEF FieldsOf

(* No content of a field is the mark for an unknown one.                   *)
LEMMA ContentKnown == \A c \in SUBSET Bit : c # Unknown
BY SetupAssumption DEF Unknown

(* An erased field is a content.                                           *)
LEMMA AllContent == ALL \in Content
BY DEF ALL, Content

(* The invariant holds for the erased chip of a new board.                 *)
LEMMA InitFlashInv == Init => FlashInv
<1> SUFFICES ASSUME Init PROVE FlashInv
  OBVIOUS
<1>1. TypeOK
  BY AllContent DEF Init, TypeOK, Content, History
<1>2. Relied
  BY JobFields DEF Init, Relied, ALL
<1> QED
  BY <1>1, <1>2 DEF Init, FlashInv, Planned, InStep

-----------------------------------------------------------------------------
(* The chip.                                                               *)
LEMMA ChipDoneInv == ASSUME FlashInv, ChipDone PROVE FlashInv'
<1>1. TypeOK'
  BY AllContent DEF FlashInv, TypeOK, ChipDone, After, Content, told
<1>2. \A f \in Field : f \notin FieldsOf(busy) => flash'[f] = flash[f]
  BY DEF ChipDone, After
<1>3. Relied'
  BY <1>2, JobFields DEF FlashInv, Relied, ChipDone, told
<1>4. ASSUME NEW f \in Field, pc # "prompt"
      PROVE  PlanOf(f)'
  <2>1. PlanOf(f)
    BY <1>4 DEF FlashInv, Planned
  <2>2. CASE f \notin FieldsOf(job)
    BY <2>1, <2>2 DEF PlanOf, ChipDone, told
  <2>3. CASE f \in FieldsOf(job) /\ plan[f] # Unknown
    <3>1. pc \notin {"wren", "op"}
      BY <2>1, <2>3 DEF PlanOf, ChipDone
    <3>2. ASSUME pc \in {"wrdi", "wait"}, ok
          PROVE  flash'[f] = plan[f]
      <4>1. busy = job /\ given = new /\ (job = "erase" \/ flash[f] = Bit)
        BY <2>1, <2>3, <3>2 DEF PlanOf, ChipDone
      <4>2. flash'[f] = IF job = "erase" THEN Bit ELSE flash[f] \cap new[f]
        BY <2>3, <4>1 DEF ChipDone, After
      <4>3. new[f] \subseteq Bit
        BY DEF FlashInv, TypeOK, Content
      <4> QED
        BY <2>1, <2>3, <4>1, <4>2, <4>3 DEF PlanOf
    <3> QED
      BY <2>1, <2>3, <3>1, <3>2 DEF PlanOf, ChipDone, told
  <2>4. CASE f \in FieldsOf(job) /\ plan[f] = Unknown
    BY <2>4 DEF PlanOf, ChipDone, told
  <2> QED
    BY <2>2, <2>3, <2>4
<1>5. Planned'
  BY <1>4 DEF Planned, ChipDone
<1>6. InStep'
  BY DEF InStep, ChipDone
<1> QED
  BY <1>1, <1>3, <1>5, <1>6 DEF FlashInv

(* A power loss leaves any part of the job that the chip was at, and       *)
(* nothing else changes.                                                   *)
LEMMA PowerLossInv == ASSUME FlashInv, PowerLoss PROVE FlashInv'
<1>1. /\ flash' \in Content
      /\ \A f \in Field : f \notin FieldsOf(busy) => flash'[f] = flash[f]
  <2>1. PICK o \in TornField("oui"), l \in TornField("low"), n \in TornField("sn") :
          flash' = [oui |-> o, low |-> l, sn |-> n]
    BY DEF PowerLoss
  <2>2. \A f \in Field : TornField(f) \subseteq SUBSET Bit
    BY DEF TornField, FlashInv, TypeOK, Content
  <2>3. \A f \in Field : f \notin FieldsOf(busy) => TornField(f) = {flash[f]}
    BY DEF TornField
  <2>4. o \subseteq Bit /\ l \subseteq Bit /\ n \subseteq Bit
    BY <2>2 DEF Field
  <2>5. flash' \in Content
    BY <2>1, <2>4 DEF Content, Field
  <2>6. \A f \in Field : f \notin FieldsOf(busy) => flash'[f] = flash[f]
    BY <2>1, <2>3 DEF Field
  <2> QED
    BY <2>5, <2>6
<1>2. TypeOK'
  BY <1>1, AllContent DEF FlashInv, TypeOK, PowerLoss, History, Content
<1>3. Relied'
  BY <1>1, JobFields DEF FlashInv, Relied, PowerLoss
<1> QED
  BY <1>2, <1>3 DEF FlashInv, PowerLoss, Planned, InStep

-----------------------------------------------------------------------------
(* A job begins with the chip and the history as they are.                 *)
LEMMA BeginInv ==
  ASSUME FlashInv, NEW j \in {"erase", "mac"}, NEW data \in Content,
         NEW typed \in BOOLEAN, pc = "prompt", Begin(j, data, typed),
         new' = data, j = "erase" => data = ALL,
         UNCHANGED <<chip, open, gaveUp>>
  PROVE  FlashInv'
<1>1. TypeOK'
  BY DEF FlashInv, TypeOK, Begin, History, Content, chip
<1>2. Relied'
  BY DEF FlashInv, Relied, Begin, chip
<1>3. ASSUME NEW f \in Field
      PROVE  PlanOf(f)'
  <2>1. CASE f \notin FieldsOf(j)
    BY <2>1 DEF PlanOf, Begin
  <2>2. CASE f \in FieldsOf(j)
    <3>1. stored[f] = Bit => flash[f] = Bit
      BY ContentKnown DEF FlashInv, Relied
    <3> QED
      BY <2>2, <3>1 DEF PlanOf, Begin, chip
  <2> QED
    BY <2>1, <2>2
<1>4. InStep'
  BY DEF FlashInv, InStep, Begin, chip
<1> QED
  BY <1>1, <1>2, <1>3, <1>4 DEF FlashInv, Planned

(* The serial command E.                                                   *)
LEMMA CommandEraseInv == ASSUME FlashInv, CommandErase PROVE FlashInv'
BY BeginInv, AllContent DEF CommandErase

(* The serial command S.                                                   *)
LEMMA CommandSetInv == ASSUME FlashInv, CommandSet PROVE FlashInv'
<1>1. PICK typed \in BOOLEAN, low \in Low, sn \in Alnum \cup {NoSn} :
        \E oui \in IF typed THEN {Oui} ELSE Stack :
          /\ new' = [oui |-> oui, low |-> low, sn |-> sn]
          /\ Begin("mac", new', typed)
  BY DEF CommandSet
<1>2. PICK oui \in IF typed THEN {Oui} ELSE Stack :
          /\ new' = [oui |-> oui, low |-> low, sn |-> sn]
          /\ Begin("mac", new', typed)
  BY <1>1
<1>3. oui \subseteq Bit /\ low \subseteq Bit /\ sn \subseteq Bit
  BY SetupAssumption DEF NoSn
<1>4. [oui |-> oui, low |-> low, sn |-> sn] \in Content
  BY <1>3 DEF Content, Field
<1> QED
  BY <1>2, <1>4, BeginInv DEF CommandSet

-----------------------------------------------------------------------------
(* The four calls of a job.                                                *)
LEMMA WriteEnableInv == ASSUME FlashInv, WriteEnable PROVE FlashInv'
<1>1. TypeOK'
  BY DEF FlashInv, TypeOK, WriteEnable, told
<1>2. Relied'
  BY DEF FlashInv, Relied, WriteEnable, told
<1>3. ASSUME NEW f \in Field
      PROVE  PlanOf(f)'
  <2>1. PlanOf(f)
    BY DEF FlashInv, Planned, WriteEnable
  <2> QED
    BY <2>1 DEF PlanOf, WriteEnable, told
<1>4. InStep'
  BY DEF FlashInv, InStep, WriteEnable, told
<1> QED
  BY <1>1, <1>2, <1>3, <1>4 DEF FlashInv, Planned

(* The erase or program command; the chip ignores it while it is busy.     *)
LEMMA OperationInv == ASSUME FlashInv, Operation PROVE FlashInv'
<1>1. PICK good \in BOOLEAN, accepted \in BOOLEAN :
        /\ good => accepted
        /\ ok' = good
        /\ IF accepted /\ busy = "none" /\ wel
           THEN busy' = job /\ given' \in (IF good THEN {new} ELSE Sent)
           ELSE UNCHANGED <<busy, given>>
  BY DEF Operation
<1>2. new \in Content /\ \A d \in Sent : d \in Content
  BY DEF FlashInv, TypeOK, Sent, Content
<1>3. TypeOK'
  BY <1>1, <1>2 DEF FlashInv, TypeOK, Operation, told
<1>4. busy' = busy \/ busy' = job
  BY <1>1
<1>5. Relied'
  BY <1>4 DEF FlashInv, Relied, Operation, told
<1>6. ASSUME NEW f \in Field
      PROVE  PlanOf(f)'
  <2>1. PlanOf(f)
    BY DEF FlashInv, Planned, Operation
  <2>2. CASE f \notin FieldsOf(job) \/ plan[f] = Unknown
    BY <2>1, <2>2 DEF PlanOf, Operation, told
  <2>3. CASE f \in FieldsOf(job) /\ plan[f] # Unknown
    <3>1. /\ busy = "none" /\ wel /\ (job = "erase" \/ flash[f] = Bit)
          /\ plan[f] = IF job = "erase" THEN Bit ELSE new[f]
      BY <2>1, <2>3 DEF PlanOf, Operation
    <3>2. good => busy' = job /\ given' = new
      BY <1>1, <3>1
    <3> QED
      BY <1>1, <2>3, <3>1, <3>2 DEF PlanOf, Operation, told
  <2> QED
    BY <2>2, <2>3
<1>7. InStep'
  BY DEF InStep, Operation
<1> QED
  BY <1>3, <1>5, <1>6, <1>7 DEF FlashInv, Planned

(* m25p_write_disable, which closes the latch of an idle chip unless it    *)
(* fails.                                                                  *)
LEMMA WriteDisableInv == ASSUME FlashInv, WriteDisable PROVE FlashInv'
<1>1. TypeOK'
  BY DEF FlashInv, TypeOK, WriteDisable, told
<1>2. Relied'
  BY DEF FlashInv, Relied, WriteDisable, told
<1>3. ASSUME NEW f \in Field
      PROVE  PlanOf(f)'
  <2>1. PlanOf(f)
    BY DEF FlashInv, Planned, WriteDisable
  <2> QED
    BY <2>1 DEF PlanOf, WriteDisable, told
<1>4. InStep'
  BY DEF FlashInv, TypeOK, InStep, WriteDisable
<1> QED
  BY <1>1, <1>2, <1>3, <1>4 DEF FlashInv, Planned

(* After a job the history is "after", of which every known field is in    *)
(* the flash and none is one that the chip still works on.                 *)
LEMMA FollowedByInv ==
  ASSUME FlashInv, NEW after \in History, pc = "wait", FollowedBy(after),
         \A f \in Field : after[f] # Unknown => flash[f] = after[f],
         \A f \in FieldsOf(busy) : after[f] = Unknown,
         busy # "none" => gaveUp', gaveUp' \in BOOLEAN,
         UNCHANGED <<chip, open>>
  PROVE  FlashInv'
<1>1. CASE job = "mac"
  <2>1. /\ pc' = "wren" /\ job' = "sn" /\ ok' = TRUE
        /\ plan' = [after EXCEPT !["sn"] =
                      IF busy = "none" /\ after["sn"] = Bit THEN new["sn"] ELSE Unknown]
        /\ stored' = [after EXCEPT !["sn"] = Unknown]
        /\ new' = [ALL EXCEPT !["sn"] = new["sn"]]
    BY <1>1 DEF FollowedBy
  <2>2. new["sn"] \subseteq Bit /\ "sn" \in Field
    BY DEF FlashInv, TypeOK, Content, Field
  <2>3. new' \in Content /\ new'["sn"] = new["sn"]
    BY <2>1, <2>2, AllContent DEF Content
  <2>4. plan' \in History /\ stored' \in History
    BY <2>1, <2>2 DEF History
  <2>5. TypeOK'
    BY <2>1, <2>3, <2>4 DEF FlashInv, TypeOK, chip
  <2>6. \A f \in Field : stored'[f] = IF f = "sn" THEN Unknown ELSE after[f]
    BY <2>1 DEF History
  <2>7. \A f \in Field : plan'[f] =
          IF f # "sn" THEN after[f]
          ELSE IF busy = "none" /\ after["sn"] = Bit THEN new["sn"] ELSE Unknown
    BY <2>1 DEF History
  <2>8. Relied'
    BY <2>1, <2>6, JobFields DEF Relied, chip
  <2>9. ASSUME NEW f \in Field
        PROVE  PlanOf(f)'
    <3>1. CASE f # "sn"
      BY <3>1, <2>1, <2>6, <2>7, JobFields DEF PlanOf
    <3>2. CASE f = "sn"
      <4>1. after["sn"] = Bit => flash["sn"] = Bit
        BY <2>2, ContentKnown
      <4> QED
        BY <3>2, <4>1, <2>1, <2>3, <2>7, JobFields DEF PlanOf, chip
    <3> QED
      BY <3>1, <3>2
  <2>10. InStep'
    BY <2>1 DEF InStep, chip
  <2> QED
    BY <2>5, <2>8, <2>9, <2>10 DEF FlashInv, Planned
<1>2. CASE job # "mac"
  <2>1. /\ pc' = "prompt" /\ job' = "none" /\ ok' = TRUE /\ new' = ALL
        /\ stored' = after /\ plan' = ALL
    BY <1>2 DEF FollowedBy
  <2>2. TypeOK'
    BY <2>1, AllContent DEF FlashInv, TypeOK, History, Content, chip
  <2>3. Relied'
    BY <2>1, JobFields DEF Relied, chip
  <2>4. InStep'
    BY <2>1 DEF FlashInv, InStep, chip
  <2> QED
    BY <2>1, <2>2, <2>3, <2>4 DEF FlashInv, Planned
<1> QED
  BY <1>1, <1>2

(* The wait that ends with an idle chip.                                   *)
LEMMA ReadyInv == ASSUME FlashInv, Ready PROVE FlashInv'
<1> DEFINE after == IF ok THEN plan ELSE stored
<1>1. after \in History
  BY DEF FlashInv, TypeOK
<1>2. ASSUME NEW f \in Field, after[f] # Unknown
      PROVE  flash[f] = after[f]
  <2>1. PlanOf(f) /\ (stored[f] # Unknown => flash[f] = stored[f])
    BY DEF FlashInv, Planned, Relied, Ready
  <2>2. job # "none"
    BY DEF FlashInv, TypeOK, Ready
  <2> QED
    BY <1>2, <2>1, <2>2 DEF PlanOf, Ready
<1>3. FieldsOf(busy) = {}
  BY JobFields DEF Ready
<1> HIDE DEF after
<1> QED
  BY <1>1, <1>2, <1>3, FollowedByInv DEF Ready, after

(* The wait that ends with an error or a timeout.                          *)
LEMMA GiveUpInv == ASSUME FlashInv, GiveUp PROVE FlashInv'
<1>1. stored \in History
  BY DEF FlashInv, TypeOK
<1>2. \A f \in FieldsOf(busy) : f \in Field
  BY JobFields DEF FlashInv, TypeOK, Field
<1> QED
  BY <1>1, <1>2, FollowedByInv DEF GiveUp, FlashInv, Relied

-----------------------------------------------------------------------------
(* The invariant holds in every behaviour.                                 *)
LEMMA FlashInvIsInvariant == Spec => []FlashInv
<1>1. FlashInv /\ [Next]_vars => FlashInv'
  <2>1. ASSUME FlashInv, Next PROVE FlashInv'
    BY <2>1, ChipDoneInv, PowerLossInv, CommandEraseInv, CommandSetInv,
       WriteEnableInv, OperationInv, WriteDisableInv, ReadyInv, GiveUpInv
       DEF Next, Firmware
  <2>2. ASSUME FlashInv, UNCHANGED vars PROVE FlashInv'
    BY <2>2 DEF FlashInv, TypeOK, Relied, Planned, PlanOf, InStep, vars, chip, told
  <2> QED
    BY <2>1, <2>2
<1> QED
  BY <1>1, InitFlashInv, PTL DEF Spec

(* What was reported and waited for is in the flash, through power losses  *)
(* and errors on the SPI, and the board starts with it: for every width of *)
(* the fields and whatever is typed.                                       *)
THEOREM StoredSetupSurvives == Spec => []SetupSurvives
<1>1. FlashInv => SetupSurvives
  <2> SUFFICES ASSUME FlashInv PROVE SetupSurvives
    OBVIOUS
  <2>1. /\ TypeOK
        /\ \A f \in Field : stored[f] # Unknown => flash[f] = stored[f]
    BY DEF FlashInv, Relied
  <2>2. /\ "oui" \in Field /\ "low" \in Field /\ "sn" \in Field
        /\ Oui # Unknown /\ Bit # Unknown /\ NoSn # Unknown
        /\ \A s \in Alnum : s # Unknown
    BY ContentKnown, SetupAssumption DEF Field, NoSn
  <2> QED
    BY <2>1, <2>2, SetupAssumption DEF SetupSurvives, Boot
<1> QED
  BY <1>1, FlashInvIsInvariant, PTL

(* The firmware and the flash chip stay in step.                           *)
THEOREM FirmwareInStep == Spec => []ChipInStep
<1>1. FlashInv => ChipInStep
  BY DEF FlashInv, InStep, ChipInStep
<1> QED
  BY <1>1, FlashInvIsInvariant, PTL

-----------------------------------------------------------------------------
(* The Telnet session: from characters to commands.                        *)

(* A command with the address of its dump.                                 *)
Entry == [text : Seq(Char), addr : Places]

(* A new character at the end of a text.                                   *)
LEMMA AppendIs ==
  ASSUME NEW S, NEW s \in Seq(S), NEW c \in S
  PROVE  /\ Append(s, c) \in Seq(S) /\ Len(s) \in Nat /\ Len(Append(s, c)) = Len(s) + 1
         /\ \A j \in 1 .. Len(s) : Append(s, c)[j] = s[j]
         /\ Append(s, c)[Len(s) + 1] = c
OBVIOUS

(* A piece of a text.                                                      *)
LEMMA PieceIs ==
  ASSUME NEW s \in Seq(Char), NEW a \in Nat, NEW b \in Nat, a <= b, b <= Len(s)
  PROVE  /\ SubSeq(s, a + 1, b) \in Seq(Char) /\ Len(SubSeq(s, a + 1, b)) = b - a
         /\ \A k \in 1 .. b - a : SubSeq(s, a + 1, b)[k] = s[a + k]
OBVIOUS

(* Newlines are finitely many.                                             *)
LEMMA NewlinesFinite ==
  ASSUME NEW s, NEW p \in Nat
  PROVE  /\ IsFiniteSet(Newlines(s, p)) /\ Cardinality(Newlines(s, p)) \in Nat
         /\ \A q \in 1 .. p : s[q] = "n" => Cardinality(Newlines(s, p)) > 0
<1>1. IsFiniteSet(1 .. p)
  BY FS_Interval
<1>2. Newlines(s, p) \subseteq 1 .. p
  BY DEF Newlines
<1>3. IsFiniteSet(Newlines(s, p)) /\ Cardinality(Newlines(s, p)) \in Nat
  BY <1>1, <1>2, FS_Subset, FS_CardinalityType
<1>4. ASSUME NEW q \in 1 .. p, s[q] = "n" PROVE Cardinality(Newlines(s, p)) > 0
  <2>1. Newlines(s, p) # {}
    BY <1>4 DEF Newlines
  <2>2. Cardinality(Newlines(s, p)) # 0
    BY <1>3, <2>1, FS_EmptySet
  <2> QED
    BY <1>3, <2>2
<1> QED
  BY <1>3, <1>4

(* A new character adds a newline or none.                                 *)
LEMMA NewlinesAppend ==
  ASSUME NEW s \in Seq(Char), NEW c \in Char
  PROVE  LET t == Append(s, c)
             n == Len(s)
         IN  /\ \A p \in 1 .. n : Newlines(t, p) = Newlines(s, p)
             /\ Cardinality(Newlines(t, n + 1)) =
                  Cardinality(Newlines(s, n)) + IF c = "n" THEN 1 ELSE 0
<1> DEFINE t == Append(s, c)
           n == Len(s)
<1>1. n \in Nat /\ (\A j \in 1 .. n : t[j] = s[j]) /\ t[n + 1] = c
  BY AppendIs
<1> HIDE DEF t, n
<1>2. ASSUME NEW p \in 1 .. n PROVE Newlines(t, p) = Newlines(s, p)
  BY <1>1 DEF Newlines
<1>3. Newlines(t, n + 1) = Newlines(s, n) \cup IF c = "n" THEN {n + 1} ELSE {}
  <2>1. \A q : q \in 1 .. n + 1 <=> q \in 1 .. n \/ q = n + 1
    BY <1>1
  <2> QED
    BY <1>1, <2>1 DEF Newlines
<1>4. n + 1 \notin Newlines(s, n)
  BY <1>1 DEF Newlines
<1>5. IsFiniteSet(Newlines(s, n)) /\ Cardinality(Newlines(s, n)) \in Nat
  BY <1>1, NewlinesFinite
<1>6. Cardinality(Newlines(t, n + 1)) = Cardinality(Newlines(s, n)) + IF c = "n" THEN 1 ELSE 0
  <2>1. CASE c = "n"
    BY <1>3, <1>4, <1>5, <2>1, FS_AddElement
  <2>2. CASE c # "n"
    <3>1. Newlines(t, n + 1) = Newlines(s, n)
      BY <1>3, <2>2
    <3> QED
      BY <1>5, <2>2, <3>1
  <2> QED
    BY <2>1, <2>2
<1> QED
  BY <1>2, <1>6 DEF t, n

(* Text s has been cut into the lines of commands d.                       *)
Lines(s, d) ==
  /\ Len(d) = Cardinality(Newlines(s, Len(s)))
  /\ \A p \in 1 .. Len(s), b \in 0 .. Len(s) :
       b < p /\ IsLine(s, b, p) =>
         LET cut == IF p - b - 1 < LINEBUF_LENGTH THEN p - 1 ELSE b + LINEBUF_LENGTH
         IN  d[Cardinality(Newlines(s, p))].text = SubSeq(s, b + 1, cut)

(* Buffer buf has the first pos characters of the line that s ends with.   *)
Opened(s, buf, pos, b) ==
  /\ b = 0 \/ s[b] = "n"
  /\ \A q \in b + 1 .. Len(s) : s[q] # "n"
  /\ pos = IF Len(s) - b < LINEBUF_LENGTH THEN Len(s) - b ELSE LINEBUF_LENGTH
  /\ \A k \in 1 .. pos : buf[k - 1] = s[b + k]
(* The same for some beginning b.                                          *)
Open(s, buf, pos) == \E b \in 0 .. Len(s) : Opened(s, buf, pos, b)

(* A new character changes no line that has ended.                         *)
LEMMA LineKept ==
  ASSUME NEW s \in Seq(Char), NEW c \in Char, NEW p \in 1 .. Len(s), NEW b \in 0 .. Len(s), b < p
  PROVE  /\ IsLine(Append(s, c), b, p) <=> IsLine(s, b, p)
         /\ \A m \in b .. p - 1 : SubSeq(Append(s, c), b + 1, m) = SubSeq(s, b + 1, m)
<1> DEFINE t == Append(s, c)
           n == Len(s)
<1>1. n \in Nat /\ (\A j \in 1 .. n : t[j] = s[j]) /\ t[n + 1] = c /\ t \in Seq(Char) /\ Len(t) = n + 1
  BY AppendIs
<1> HIDE DEF t, n
<1>2. p \in 1 .. n /\ b \in 0 .. n
  BY DEF n
<1>3. IsLine(t, b, p) <=> IsLine(s, b, p)
  <2>1. t[p] = s[p] /\ (b # 0 => t[b] = s[b])
    BY <1>1, <1>2
  <2>2. \A q \in b + 1 .. p - 1 : t[q] = s[q]
    BY <1>1, <1>2
  <2> QED
    BY <2>1, <2>2 DEF IsLine
<1>4. ASSUME NEW m \in b .. p - 1 PROVE SubSeq(t, b + 1, m) = SubSeq(s, b + 1, m)
  <2> DEFINE x == SubSeq(t, b + 1, m)
             y == SubSeq(s, b + 1, m)
  <2>1. x \in Seq(Char) /\ Len(x) = m - b /\ \A j \in 1 .. m - b : x[j] = t[b + j]
    BY <1>1, <1>2
  <2>2. y \in Seq(Char) /\ Len(y) = m - b /\ \A j \in 1 .. m - b : y[j] = s[b + j]
    BY <1>1, <1>2 DEF n
  <2>3. \A j \in 1 .. m - b : t[b + j] = s[b + j]
    BY <1>1, <1>2
  <2> HIDE DEF x, y
  <2>4. x = y
    BY <2>1, <2>2, <2>3, SeqEqual
  <2> QED
    BY <2>4 DEF x, y
<1> QED
  BY <1>3, <1>4 DEF t

(* A character that is no newline.                                         *)
LEMMA PlainCharacter ==
  ASSUME NEW s \in Seq(Char), NEW c \in Char, c # "n", NEW d,
         NEW buf \in [0 .. LINEBUF_LENGTH - 1 -> Char \cup {Junk}], NEW pos,
         Lines(s, d), Open(s, buf, pos)
  PROVE  /\ Lines(Append(s, c), d)
         /\ Open(Append(s, c),
                 IF pos < LINEBUF_LENGTH THEN [buf EXCEPT ![pos] = c] ELSE buf,
                 IF pos < LINEBUF_LENGTH THEN pos + 1 ELSE pos)
<1> DEFINE t == Append(s, c)
           n == Len(s)
           buf2 == IF pos < LINEBUF_LENGTH THEN [buf EXCEPT ![pos] = c] ELSE buf
           pos2 == IF pos < LINEBUF_LENGTH THEN pos + 1 ELSE pos
<1>1. n \in Nat /\ (\A j \in 1 .. n : t[j] = s[j]) /\ t[n + 1] = c /\ t \in Seq(Char) /\ Len(t) = n + 1
  BY AppendIs
<1>2. /\ \A p \in 1 .. n : Newlines(t, p) = Newlines(s, p)
      /\ Cardinality(Newlines(t, n + 1)) = Cardinality(Newlines(s, n))
  <2>1. Cardinality(Newlines(s, n)) \in Nat
    BY <1>1, NewlinesFinite
  <2> HIDE DEF n
  <2> QED
    BY <2>1, NewlinesAppend DEF n
<1>3. LINEBUF_LENGTH \in Nat /\ LINEBUF_LENGTH > 1
  BY TelnetAssumption
<1>4. Lines(t, d)
  <2>1. ASSUME NEW p \in 1 .. Len(t), NEW b \in 0 .. Len(t), b < p, IsLine(t, b, p)
        PROVE  LET cut == IF p - b - 1 < LINEBUF_LENGTH THEN p - 1 ELSE b + LINEBUF_LENGTH
               IN  d[Cardinality(Newlines(t, p))].text = SubSeq(t, b + 1, cut)
    <3> HIDE DEF t, n
    <3>1. p \in 1 .. n /\ b \in 0 .. n
      <4>1. p # n + 1
        BY <1>1, <2>1 DEF IsLine
      <4> QED
        BY <1>1, <2>1, <4>1
    <3> DEFINE cut == IF p - b - 1 < LINEBUF_LENGTH THEN p - 1 ELSE b + LINEBUF_LENGTH
    <3>2. cut \in b .. p - 1
      BY <1>1, <1>3, <2>1, <3>1
    <3> HIDE DEF cut
    <3>3. IsLine(s, b, p) /\ SubSeq(t, b + 1, cut) = SubSeq(s, b + 1, cut)
      BY <2>1, <3>1, <3>2, LineKept DEF n, t
    <3>4. d[Cardinality(Newlines(s, p))].text = SubSeq(s, b + 1, cut)
      BY <2>1, <3>1, <3>3 DEF Lines, cut, n
    <3>5. Newlines(t, p) = Newlines(s, p)
      BY <1>2, <3>1
    <3> QED
      BY <3>3, <3>4, <3>5 DEF cut
  <2>2. Len(d) = Cardinality(Newlines(t, Len(t)))
    BY <1>1, <1>2 DEF Lines
  <2> HIDE DEF t, n
  <2> QED
    BY <2>1, <2>2 DEF Lines
<1>5. PICK b \in 0 .. n : Opened(s, buf, pos, b)
  BY DEF Open
<1> HIDE DEF t, n
<1>6. Opened(t, buf2, pos2, b) /\ b \in 0 .. Len(t)
  <2>1. /\ b = 0 \/ s[b] = "n"
        /\ \A q \in b + 1 .. n : s[q] # "n"
        /\ pos = IF n - b < LINEBUF_LENGTH THEN n - b ELSE LINEBUF_LENGTH
        /\ \A k \in 1 .. pos : buf[k - 1] = s[b + k]
    BY <1>5 DEF Opened, n
  <2>2. b = 0 \/ t[b] = "n"
    BY <1>1, <2>1
  <2>3. \A q \in b + 1 .. n + 1 : t[q] # "n"
    <3>1. \A q \in b + 1 .. n + 1 : q = n + 1 \/ (q \in b + 1 .. n /\ q \in 1 .. n)
      BY <1>1
    <3> QED
      BY <1>1, <2>1, <3>1
  <2>4. /\ pos \in Nat /\ pos <= n - b /\ pos <= LINEBUF_LENGTH
        /\ pos < LINEBUF_LENGTH => pos = n - b
    BY <1>1, <1>3, <2>1
  <2>5. pos2 = IF (n + 1) - b < LINEBUF_LENGTH THEN (n + 1) - b ELSE LINEBUF_LENGTH
    BY <1>1, <1>3, <2>1
  <2>6. ASSUME NEW k \in 1 .. pos2 PROVE buf2[k - 1] = t[b + k]
    <3>1. CASE k \in 1 .. pos
      <4>1. b + k \in 1 .. n
        BY <1>1, <2>4, <3>1
      <4>2. buf2[k - 1] = buf[k - 1]
        <5>1. k - 1 # pos /\ k - 1 \in 0 .. LINEBUF_LENGTH - 1
          BY <1>3, <2>4, <3>1
        <5> QED
          BY <5>1
      <4> QED
        BY <1>1, <2>1, <3>1, <4>1, <4>2
    <3>2. CASE k \notin 1 .. pos
      <4>1. pos < LINEBUF_LENGTH /\ k - 1 = pos /\ b + k = n + 1
        BY <1>1, <1>3, <2>4, <3>2
      <4>2. pos \in 0 .. LINEBUF_LENGTH - 1
        BY <1>3, <2>4, <4>1
      <4>3. buf2[pos] = c
        BY <4>1, <4>2
      <4> QED
        BY <1>1, <4>1, <4>3
    <3> QED
      BY <3>1, <3>2
  <2> HIDE DEF buf2, pos2
  <2>7. b \in 0 .. Len(t)
    BY <1>1
  <2> QED
    BY <1>1, <2>2, <2>3, <2>5, <2>6, <2>7 DEF Opened
<1> QED
  BY <1>4, <1>6 DEF Open, t

(* The text of a line of pos characters in the buffer.                     *)
LEMMA TextIs ==
  ASSUME NEW buf \in [0 .. LINEBUF_LENGTH - 1 -> Char \cup {Junk}],
         NEW pos \in 0 .. LINEBUF_LENGTH,
         \A k \in 1 .. pos : buf[k - 1] \in Char /\ buf[k - 1] # "n",
         pos < LINEBUF_LENGTH => buf[pos] = "n"
  PROVE  /\ Text(buf) \in Seq(Char) /\ Len(Text(buf)) = pos
         /\ \A k \in 1 .. pos : Text(buf)[k] = buf[k - 1]
<1> DEFINE ends == {k \in DOMAIN buf : buf[k] = "n"}
           first == CHOOSE k \in ends : \A j \in ends : k <= j
           len == IF ends = {} THEN LINEBUF_LENGTH ELSE first
<1>1. LINEBUF_LENGTH \in Nat /\ LINEBUF_LENGTH > 1
  BY TelnetAssumption
<1>2. Text(buf) = [k \in 1 .. len |-> buf[k - 1]]
  BY DEF Text
<1>3. \A k \in 0 .. LINEBUF_LENGTH - 1 : k < pos => k \notin ends
  <2> SUFFICES ASSUME NEW k \in 0 .. LINEBUF_LENGTH - 1, k < pos PROVE buf[k] # "n"
    OBVIOUS
  <2>1. k + 1 \in 1 .. pos /\ (k + 1) - 1 = k
    BY <1>1
  <2> QED
    BY <2>1
<1>4. ends \subseteq 0 .. LINEBUF_LENGTH - 1
  OBVIOUS
<1>5. len = pos
  <2>1. CASE pos < LINEBUF_LENGTH
    <3>1. pos \in ends
      BY <1>1, <2>1
    <3> HIDE DEF ends
    <3>2. \A k \in ends : pos <= k
      BY <1>1, <1>3, <1>4
    <3>3. first \in ends /\ \A j \in ends : first <= j
      BY <3>1, <3>2
    <3> HIDE DEF first
    <3>4. first = pos
      BY <1>1, <1>4, <3>1, <3>2, <3>3
    <3> QED
      BY <3>1, <3>4 DEF len
  <2>2. CASE pos = LINEBUF_LENGTH
    <3>1. ends = {}
      BY <1>1, <1>3, <1>4, <2>2
    <3> QED
      BY <2>2, <3>1
  <2> QED
    BY <1>1, <2>1, <2>2
<1> HIDE DEF len
<1>6. Text(buf) = [k \in 1 .. pos |-> buf[k - 1]]
  BY <1>2, <1>5
<1>7. Text(buf) \in Seq(Char)
  BY <1>6
<1> QED
  BY <1>6, <1>7

(* A newline ends a line; in the buffer it is the terminator, if there is  *)
(* room for one.                                                           *)
LEMMA NewlineCharacter ==
  ASSUME NEW s \in Seq(Char), NEW d \in Seq(Entry), NEW e \in Entry,
         NEW buf \in [0 .. LINEBUF_LENGTH - 1 -> Char \cup {Junk}], NEW pos,
         Lines(s, d), Open(s, buf, pos),
         e.text = Text(IF pos < LINEBUF_LENGTH THEN [buf EXCEPT ![pos] = "n"] ELSE buf)
  PROVE  /\ Lines(Append(s, "n"), Append(d, e))
         /\ \A any : Open(Append(s, "n"), any, 0)
<1> DEFINE c == "n"
           t == Append(s, c)
           n == Len(s)
           buf2 == IF pos < LINEBUF_LENGTH THEN [buf EXCEPT ![pos] = c] ELSE buf
           D == Append(d, e)
<1>0. c \in Char /\ c = "n"
  BY DEF Char
<1> HIDE DEF c
<1>1. n \in Nat /\ (\A j \in 1 .. n : t[j] = s[j]) /\ t[n + 1] = c /\ t \in Seq(Char) /\ Len(t) = n + 1
  BY <1>0, AppendIs
<1>2. /\ \A p \in 1 .. n : Newlines(t, p) = Newlines(s, p)
      /\ Cardinality(Newlines(t, n + 1)) = Cardinality(Newlines(s, n)) + 1
  BY <1>0, NewlinesAppend
<1>3. LINEBUF_LENGTH \in Nat /\ LINEBUF_LENGTH > 1
  BY TelnetAssumption
<1>4. /\ Len(D) = Len(d) + 1 /\ (\A j \in 1 .. Len(d) : D[j] = d[j]) /\ Len(d) \in Nat
      /\ D[Len(d) + 1] = e
  BY AppendIs
<1>5. PICK f \in 0 .. n : Opened(s, buf, pos, f)
  BY DEF Open
<1>6. Len(d) = Cardinality(Newlines(s, n))
  BY DEF Lines
<1> HIDE DEF t, n, D, buf2
<1>7. /\ f = 0 \/ s[f] = "n"
      /\ \A q \in f + 1 .. n : s[q] # "n"
      /\ pos = IF n - f < LINEBUF_LENGTH THEN n - f ELSE LINEBUF_LENGTH
      /\ \A k \in 1 .. pos : buf[k - 1] = s[f + k]
  BY <1>5 DEF Opened, n
<1>8. pos \in 0 .. LINEBUF_LENGTH /\ f + pos <= n
  BY <1>1, <1>3, <1>7
<1>9. e.text = SubSeq(t, f + 1, f + pos)
  <2>1. e.text = Text(buf2)
    BY <1>0 DEF buf2
  <2>2. buf2 \in [0 .. LINEBUF_LENGTH - 1 -> Char \cup {Junk}]
    BY <1>0 DEF buf2
  <2>3. ASSUME NEW k \in 1 .. pos
        PROVE  buf2[k - 1] = s[f + k] /\ f + k \in 1 .. n /\ s[f + k] # "n"
    <3>1. f + k \in 1 .. n /\ f + k \in f + 1 .. n
      BY <1>1, <1>8
    <3>2. k - 1 # pos /\ k - 1 \in 0 .. LINEBUF_LENGTH - 1
      BY <1>3, <1>8
    <3>3. buf2[k - 1] = buf[k - 1]
      BY <3>2 DEF buf2
    <3> QED
      BY <1>7, <3>1, <3>3
  <2>4. pos < LINEBUF_LENGTH => buf2[pos] = "n"
    <3> SUFFICES ASSUME pos < LINEBUF_LENGTH PROVE buf2[pos] = "n"
      OBVIOUS
    <3>1. pos \in 0 .. LINEBUF_LENGTH - 1
      BY <1>3, <1>8
    <3> QED
      BY <1>0, <3>1 DEF buf2
  <2>5. \A k \in 1 .. pos : buf2[k - 1] \in Char /\ buf2[k - 1] # "n"
    <3>1. \A j \in 1 .. n : s[j] \in Char
      BY DEF n
    <3> QED
      BY <2>3, <3>1
  <2>6. /\ Text(buf2) \in Seq(Char) /\ Len(Text(buf2)) = pos
        /\ \A k \in 1 .. pos : Text(buf2)[k] = buf2[k - 1]
    BY <1>8, <2>2, <2>4, <2>5, TextIs
  <2> DEFINE y == SubSeq(t, f + 1, f + pos)
             x == Text(buf2)
  <2>7. y \in Seq(Char) /\ Len(y) = pos /\ \A k \in 1 .. pos : y[k] = t[f + k]
    <3>1. /\ t \in Seq(Char) /\ f \in Nat /\ pos \in Nat /\ f + pos <= Len(t)
          /\ f + pos \in Nat /\ (f + pos) - f = pos /\ f <= f + pos
      BY <1>1, <1>3, <1>8
    <3> QED
      BY <3>1, PieceIs
  <2>8. \A k \in 1 .. pos : x[k] = y[k]
    BY <1>1, <2>3, <2>6, <2>7
  <2> HIDE DEF x, y
  <2>9. x = y
    BY <2>6, <2>7, <2>8, SeqEqual DEF x
  <2> QED
    BY <2>1, <2>9 DEF x, y
<1>10. Lines(t, D)
  <2>1. ASSUME NEW p \in 1 .. Len(t), NEW b \in 0 .. Len(t), b < p, IsLine(t, b, p)
        PROVE  LET cut == IF p - b - 1 < LINEBUF_LENGTH THEN p - 1 ELSE b + LINEBUF_LENGTH
               IN  D[Cardinality(Newlines(t, p))].text = SubSeq(t, b + 1, cut)
    <3> DEFINE cut == IF p - b - 1 < LINEBUF_LENGTH THEN p - 1 ELSE b + LINEBUF_LENGTH
    <3>1. CASE p # n + 1
      <4>1. p \in 1 .. n /\ b \in 0 .. n
        BY <1>1, <2>1, <3>1
      <4>2. cut \in b .. p - 1
        BY <1>1, <1>3, <2>1, <4>1
      <4> HIDE DEF cut
      <4>3. IsLine(s, b, p) /\ SubSeq(t, b + 1, cut) = SubSeq(s, b + 1, cut)
        BY <1>0, <2>1, <4>1, <4>2, LineKept DEF n, t
      <4>4. d[Cardinality(Newlines(s, p))].text = SubSeq(s, b + 1, cut)
        BY <2>1, <4>1, <4>3 DEF Lines, cut, n
      <4>5. Newlines(t, p) = Newlines(s, p)
        BY <1>2, <4>1
      <4>6. Cardinality(Newlines(s, p)) \in 1 .. Len(d)
        <5>1. Newlines(s, p) \subseteq Newlines(s, n)
          BY <1>1, <4>1 DEF Newlines
        <5>2. IsFiniteSet(Newlines(s, n))
          BY <1>1, NewlinesFinite
        <5>3. Cardinality(Newlines(s, p)) <= Cardinality(Newlines(s, n))
          BY <5>1, <5>2, FS_Subset
        <5>4. Cardinality(Newlines(s, p)) \in Nat /\ Cardinality(Newlines(s, p)) > 0
          <6>1. s[p] = "n" /\ p \in 1 .. p /\ p \in Nat
            BY <4>1, <4>3 DEF IsLine
          <6> QED
            BY <6>1, NewlinesFinite
        <5> QED
          BY <1>4, <1>6, <5>3, <5>4
      <4> QED
        BY <1>4, <4>3, <4>4, <4>5, <4>6 DEF cut
    <3>2. CASE p = n + 1
      <4>1. b = f
        <5>1. b \in 0 .. n
          BY <1>1, <2>1, <3>2
        <5>2. /\ b = 0 \/ t[b] = "n"
              /\ \A q \in b + 1 .. n : t[q] # "n"
          BY <1>1, <2>1, <3>2 DEF IsLine
        <5>3. ~ (b < f)
          <6> SUFFICES ASSUME b < f PROVE FALSE
            OBVIOUS
          <6>1. f \in b + 1 .. n /\ f \in 1 .. n
            BY <1>1, <5>1
          <6> QED
            BY <1>0, <1>1, <1>7, <5>2, <6>1
        <5>4. ~ (f < b)
          <6> SUFFICES ASSUME f < b PROVE FALSE
            OBVIOUS
          <6>1. b \in f + 1 .. n /\ b \in 1 .. n /\ b # 0
            BY <1>1, <5>1
          <6>2. t[b] = "n" /\ t[b] = s[b]
            BY <1>1, <5>2, <6>1
          <6> QED
            BY <1>7, <6>1, <6>2
        <5> QED
          BY <1>1, <5>1, <5>3, <5>4
      <4>2. cut = f + pos
        BY <1>1, <1>3, <1>7, <3>2, <4>1
      <4>3. D[Cardinality(Newlines(t, p))] = e
        BY <1>2, <1>4, <1>6, <3>2
      <4> QED
        BY <1>9, <4>1, <4>2, <4>3
    <3> QED
      BY <3>1, <3>2
  <2>2. Len(D) = Cardinality(Newlines(t, Len(t)))
    BY <1>1, <1>2, <1>4, <1>6
  <2> QED
    BY <2>1, <2>2 DEF Lines
<1>11. ASSUME NEW any PROVE Open(t, any, 0)
  <2>1. /\ n + 1 \in 0 .. Len(t) /\ t[n + 1] = "n" /\ Len(t) - (n + 1) = 0
        /\ (n + 1) + 1 .. Len(t) = {} /\ 1 .. 0 = {}
    BY <1>0, <1>1
  <2>2. Opened(t, any, 0, n + 1)
    BY <1>3, <2>1 DEF Opened
  <2> QED
    BY <2>1, <2>2 DEF Open
<1> QED
  BY <1>10, <1>11 DEF t, D, c

-----------------------------------------------------------------------------
(* The addresses of dumps.                                                 *)

(* A set of natural numbers that is not empty has a least member.          *)
LEMMA LeastNumber ==
  ASSUME NEW T, T \subseteq Nat, T # {}
  PROVE  \E x \in T : \A y \in T : x <= y
<1> DEFINE R == OpToRel(<, Nat)
<1>1. IsWellFoundedOn(R, Nat)
  BY NatLessThanWellFounded
<1> HIDE DEF R
<1>2. PICK x \in T : \A y \in T : ~ (<<y, x>> \in R)
  BY <1>1, WFMin
<1>3. \A y \in T : ~ (y < x)
  BY <1>2 DEF R, OpToRel
<1> QED
  BY <1>3

(* The unknown places are no words, and all of them differ.                *)
LEMMA PlacesDiffer ==
  /\ Lost # Unset /\ Lost # None /\ Unset # None
  /\ Lost \notin Words /\ Unset \notin Words /\ None \notin Words
<1>1. 1 \in 1 .. WORD_DIGITS
  BY TelnetAssumption
<1>2. Lost[1] = -2 /\ Unset[1] = -1 /\ None[1] = -3
  BY <1>1 DEF Lost, Unset, None
<1>3. \A w \in Words : w[1] \in 0 .. 15
  BY <1>1 DEF Words
<1> QED
  BY <1>2, <1>3

(* Skip stops at the first character that is not in S.                     *)
LEMMA SkipIs ==
  ASSUME NEW buf \in [0 .. LINEBUF_LENGTH - 1 -> Char \cup {Junk}], NEW S,
         NEW f \in 1 .. LINEBUF_LENGTH
  PROVE  /\ Skip(buf, S, f) \in f .. LINEBUF_LENGTH
         /\ \A k \in f .. Skip(buf, S, f) - 1 : buf[k] \in S
         /\ Skip(buf, S, f) < LINEBUF_LENGTH => buf[Skip(buf, S, f)] \notin S
<1> DEFINE L == LINEBUF_LENGTH
           others == {k \in f .. L - 1 : buf[k] \notin S}
           first == CHOOSE k \in others : \A j \in others : k <= j
           e == Skip(buf, S, f)
<1>1. L \in Nat /\ L > 1 /\ f \in 1 .. L
  BY TelnetAssumption
<1>2. e = IF others = {} THEN L ELSE first
  BY DEF Skip
<1> HIDE DEF L, e
<1>3. CASE others = {}
  BY <1>1, <1>2, <1>3 DEF L, e
<1>4. CASE others # {}
  <2>1. others \subseteq Nat
    BY <1>1
  <2>2. first \in others /\ \A j \in others : first <= j
    <3> HIDE DEF others
    <3>1. \E k \in others : \A j \in others : k <= j
      BY <1>4, <2>1, LeastNumber
    <3> QED
      BY <3>1
  <2> HIDE DEF first
  <2>3. first \in f .. L - 1 /\ buf[first] \notin S
    BY <2>2
  <2>4. ASSUME NEW k \in f .. first - 1 PROVE buf[k] \in S
    <3>1. k \in f .. L - 1 /\ ~ (first <= k)
      BY <1>1, <2>3
    <3> QED
      BY <2>2, <3>1
  <2>5. e = first
    BY <1>2, <1>4
  <2>6. e \in f .. L
    BY <1>1, <2>3, <2>5
  <2> QED
    BY <2>3, <2>4, <2>5, <2>6 DEF L, e
<1> QED
  BY <1>3, <1>4

(* Some digits make a word.                                                *)
LEMMA ShiftedIs ==
  ASSUME NEW s, NEW e, NEW n
  PROVE  Shifted(s, e, n) \in Words
<1>1. \A c : DigitValue(c) \in 0 .. 15
  BY DEF DigitValue
<1> QED
  BY <1>1 DEF Shifted, Words

(* The number behind the letter of the command: spaces, then digits, which *)
(* end in the buffer or not.                                               *)
NumberAt(buf, n, from, to) ==
  /\ from \in 1 .. LINEBUF_LENGTH /\ to \in from .. LINEBUF_LENGTH
  /\ \A k \in 1 .. from - 1 : buf[k] = " "
  /\ \A k \in from .. to - 1 : buf[k] \in Digits
  /\ to < LINEBUF_LENGTH => buf[to] \notin Digits
  /\ from < LINEBUF_LENGTH => buf[from] # " "
  /\ \/ n = Lost /\ to = LINEBUF_LENGTH
     \/ n = None /\ to < LINEBUF_LENGTH /\ to = from
     \/ n = Shifted(buf, to, to - from) /\ to < LINEBUF_LENGTH /\ to > from

(* Number finds it.                                                        *)
LEMMA NumberIs ==
  ASSUME NEW buf \in [0 .. LINEBUF_LENGTH - 1 -> Char \cup {Junk}]
  PROVE  \E from, to : NumberAt(buf, Number(buf), from, to)
<1> DEFINE from == Skip(buf, {" "}, 1)
           to == Skip(buf, Digits, from)
<1>1. LINEBUF_LENGTH \in Nat /\ LINEBUF_LENGTH > 1 /\ 1 \in 1 .. LINEBUF_LENGTH
  BY TelnetAssumption
<1>2. /\ from \in 1 .. LINEBUF_LENGTH
      /\ \A k \in 1 .. from - 1 : buf[k] \in {" "}
      /\ from < LINEBUF_LENGTH => buf[from] \notin {" "}
  BY <1>1, SkipIs
<1> HIDE DEF from
<1>3. /\ to \in from .. LINEBUF_LENGTH
      /\ \A k \in from .. to - 1 : buf[k] \in Digits
      /\ to < LINEBUF_LENGTH => buf[to] \notin Digits
  BY <1>2, SkipIs
<1>4. Number(buf) = CASE to = LINEBUF_LENGTH -> Lost
                      [] to < LINEBUF_LENGTH /\ to = from -> None
                      [] to < LINEBUF_LENGTH /\ to > from -> Shifted(buf, to, to - from)
  BY DEF Number, from
<1> HIDE DEF to
<1>5. \/ Number(buf) = Lost /\ to = LINEBUF_LENGTH
      \/ Number(buf) = None /\ to < LINEBUF_LENGTH /\ to = from
      \/ Number(buf) = Shifted(buf, to, to - from) /\ to < LINEBUF_LENGTH /\ to > from
  <2>1. from \in 1 .. LINEBUF_LENGTH /\ to \in from .. LINEBUF_LENGTH
    BY <1>2, <1>3
  <2>2. \/ to = LINEBUF_LENGTH
        \/ to < LINEBUF_LENGTH /\ to = from
        \/ to < LINEBUF_LENGTH /\ to > from
    BY <1>1, <2>1
  <2>3. LINEBUF_LENGTH < LINEBUF_LENGTH <=> FALSE
    BY <1>1
  <2>4. from > from <=> FALSE
    BY <1>1, <2>1
  <2> QED
    BY <1>4, <2>2, <2>3, <2>4
<1>6. NumberAt(buf, Number(buf), from, to)
  BY <1>2, <1>3, <1>5 DEF NumberAt
<1> QED
  BY <1>6

(* A dump's line with an address has all of the number's digits in it.     *)
Parsed(c, n) ==
  /\ n = Lost => Len(c.text) = LINEBUF_LENGTH
  /\ n = None => ~HasAddress(c)
  /\ n \notin {Lost, None} => n \in Words /\ HasAddress(c) /\ IsAddress(c.text, n)

(* What Execute sees in the buffer is what the text of the command says.   *)
LEMMA ParsedIs ==
  ASSUME NEW buf \in [0 .. LINEBUF_LENGTH - 1 -> Char \cup {Junk}],
         NEW pos \in 0 .. LINEBUF_LENGTH,
         \A k \in 1 .. pos : buf[k - 1] \in Char /\ buf[k - 1] # "n",
         pos < LINEBUF_LENGTH => buf[pos] = "n",
         NEW c, c.text = Text(buf)
  PROVE  /\ IsDump(c) <=> buf[0] = "d"
         /\ buf[0] = "d" => Parsed(c, Number(buf))
<1> DEFINE t == Text(buf)
           n == Number(buf)
           L == LINEBUF_LENGTH
<1>1. L \in Nat /\ L > 1
  BY TelnetAssumption
<1>2. t \in Seq(Char) /\ Len(t) = pos /\ \A k \in 1 .. pos : t[k] = buf[k - 1]
  BY TextIs
<1>3. PICK from, to : NumberAt(buf, n, from, to)
  BY NumberIs
<1> HIDE DEF t, n, L
<1>4. pos \in 0 .. L /\ (pos < L => buf[pos] = "n")
  BY DEF L
<1>5. \A k \in 1 .. pos - 1 : t[k + 1] = buf[k]
  <2> SUFFICES ASSUME NEW k \in 1 .. pos - 1 PROVE t[k + 1] = buf[k]
    OBVIOUS
  <2>1. k + 1 \in 1 .. pos /\ (k + 1) - 1 = k
    BY <1>1, <1>4
  <2> QED
    BY <1>2, <2>1
<1>6. pos > 0 => t[1] = buf[0]
  <2> SUFFICES ASSUME pos > 0 PROVE t[1] = buf[0]
    OBVIOUS
  <2>1. 1 \in 1 .. pos /\ 1 - 1 = 0
    BY <1>1, <1>4
  <2> QED
    BY <1>2, <2>1
<1>7. IsDump(c) <=> buf[0] = "d"
  <2>1. CASE pos = 0
    <3>1. t = <<>>
      BY <1>2, <2>1
    <3> QED
      BY <1>1, <1>4, <2>1, <3>1 DEF IsDump, t
  <2>2. CASE pos > 0
    <3>1. t # <<>>
      <4>1. Len(<<>>) = 0
        OBVIOUS
      <4> QED
        BY <1>2, <2>2, <4>1
    <3> QED
      BY <1>6, <2>2, <3>1 DEF IsDump, t
  <2> QED
    BY <1>1, <1>4, <2>1, <2>2
<1>8. ASSUME buf[0] = "d" PROVE Parsed(c, n)
  <2>1. pos > 0
    BY <1>1, <1>4, <1>8
  <2>2. /\ from \in 1 .. L /\ to \in from .. L
        /\ \A k \in 1 .. from - 1 : buf[k] = " "
        /\ \A k \in from .. to - 1 : buf[k] \in Digits
        /\ to < L => buf[to] \notin Digits
        /\ from < L => buf[from] # " "
        /\ \/ n = Lost /\ to = L
           \/ n = None /\ to < L /\ to = from
           \/ n = Shifted(buf, to, to - from) /\ to < L /\ to > from
    BY <1>3 DEF NumberAt, L
  <2>3. ~ (" " = "n") /\ "n" \notin Digits /\ " " \notin Digits
    BY DEF Digits
  <2>4. from \in 1 .. L /\ to \in from .. L /\ from \in Int /\ to \in Int
    <3>1. from \in 1 .. L /\ to \in from .. L
      BY <2>2
    <3> QED
      BY <1>1, <3>1
  <2>5. to <= pos
    <3> SUFFICES ASSUME pos < to PROVE FALSE
      BY <1>1, <1>4, <2>4
    <3>1. pos < L /\ pos \in 1 .. to - 1
      BY <1>1, <1>4, <2>1, <2>4
    <3>2. pos \in 1 .. from - 1 \/ pos \in from .. to - 1
      BY <1>1, <2>4, <3>1
    <3> QED
      BY <1>4, <2>2, <2>3, <3>1, <3>2
  <2>6. \A k \in 2 .. from : k <= pos => t[k] = " "
    <3> SUFFICES ASSUME NEW k \in 2 .. from, k <= pos PROVE t[k] = " "
      OBVIOUS
    <3>1. k - 1 \in 1 .. from - 1 /\ k - 1 \in 1 .. pos - 1 /\ (k - 1) + 1 = k
      BY <1>1, <1>4, <2>4
    <3> QED
      BY <1>5, <2>2, <3>1
  <2>7. n = Lost => Len(c.text) = LINEBUF_LENGTH
    <3> SUFFICES ASSUME n = Lost PROVE pos = L
      BY <1>2 DEF t, L
    <3>1. to = L
      <4>1. n # None /\ n # Shifted(buf, to, to - from)
        BY ShiftedIs, PlacesDiffer
      <4> QED
        BY <2>2, <4>1
    <3> QED
      BY <1>1, <1>4, <2>4, <2>5, <3>1
  <2>8. n = None => ~HasAddress(c)
    <3> SUFFICES ASSUME n = None, NEW g \in 2 .. pos, Begins(t, g) PROVE FALSE
      BY <1>2 DEF HasAddress, t
    <3>1. to < L /\ to = from
      <4>1. n # Lost /\ n # Shifted(buf, to, to - from)
        BY ShiftedIs, PlacesDiffer
      <4> QED
        BY <2>2, <4>1
    <3>2. t[g] \in Digits /\ \A h \in 2 .. g - 1 : t[h] = " "
      BY DEF Begins
    <3>3. CASE g <= from
      <4>1. t[g] = " "
        <5>1. g \in 2 .. from /\ g <= pos
          BY <1>1, <1>4, <2>4, <3>3
        <5> QED
          BY <2>6, <5>1
      <4> QED
        BY <2>3, <3>2, <4>1
    <3>4. CASE g = from + 1
      <4>1. from \in 1 .. pos - 1
        BY <1>1, <1>4, <2>4, <3>4
      <4>2. t[g] = buf[to]
        BY <1>5, <3>1, <3>4, <4>1
      <4> QED
        BY <2>2, <3>1, <3>2, <4>2
    <3>5. CASE g > from + 1
      <4>1. from + 1 \in 2 .. g - 1 /\ from \in 1 .. pos - 1
        BY <1>1, <1>4, <2>4, <3>5
      <4>2. t[from + 1] = " " /\ t[from + 1] = buf[from]
        BY <1>5, <3>2, <4>1
      <4> QED
        BY <2>2, <3>1, <4>2
    <3> QED
      BY <1>1, <1>4, <2>4, <3>3, <3>4, <3>5
  <2>9. ASSUME n \notin {Lost, None}
        PROVE  n \in Words /\ HasAddress(c) /\ IsAddress(c.text, n)
    <3>1. n = Shifted(buf, to, to - from) /\ to < L /\ to > from
      BY <2>2, <2>9
    <3>2. n \in Words
      BY <3>1, ShiftedIs
    <3> DEFINE f == from + 1
               e == to + 1
    <3>3. /\ f \in 2 .. pos /\ e \in f + 1 .. pos + 1 /\ f - 1 = from /\ e - 1 = to
          /\ e - f = to - from /\ from \in from .. to - 1 /\ from \in 1 .. pos - 1
      BY <1>1, <1>4, <2>4, <2>5, <3>1
    <3>4. Begins(t, f)
      <4>1. t[f] = buf[from] /\ buf[from] \in Digits
        BY <1>5, <2>2, <3>3
      <4>2. \A h \in 2 .. f - 1 : t[h] = " "
        <5>1. \A h \in 2 .. from : h <= pos
          BY <1>1, <1>4, <2>4, <3>3
        <5> QED
          BY <2>6, <3>3, <5>1
      <4> QED
        BY <4>1, <4>2 DEF Begins
    <3>5. ASSUME NEW h \in f .. e - 1 PROVE t[h] \in Digits /\ t[h] = buf[h - 1]
      <4>1. h - 1 \in from .. to - 1 /\ h - 1 \in 1 .. pos - 1 /\ (h - 1) + 1 = h
        BY <1>1, <1>4, <2>4, <2>5, <3>1
      <4> QED
        BY <1>5, <2>2, <4>1
    <3>6. e <= Len(t) => t[e] \notin Digits
      <4> SUFFICES ASSUME e <= pos PROVE t[e] \notin Digits
        BY <1>2
      <4>1. to \in 1 .. pos - 1
        BY <1>1, <1>4, <2>4
      <4> QED
        BY <1>5, <2>2, <3>1, <4>1
    <3>7. n = Shifted(t, e, e - f)
      <4>1. WORD_DIGITS \in Nat
        BY TelnetAssumption
      <4>2. ASSUME NEW j \in 1 .. WORD_DIGITS, WORD_DIGITS - j < to - from
            PROVE  buf[to + j - 1 - WORD_DIGITS] = t[e + j - 1 - WORD_DIGITS]
        <5>1. /\ e + j - 1 - WORD_DIGITS \in f .. e - 1
              /\ (e + j - 1 - WORD_DIGITS) - 1 = to + j - 1 - WORD_DIGITS
          BY <1>1, <2>4, <4>1, <4>2
        <5> QED
          BY <3>5, <5>1
      <4> HIDE DEF e, f
      <4> QED
        BY <3>1, <3>3, <4>2 DEF Shifted
    <3> HIDE DEF e, f
    <3>8. f \in 2 .. Len(t) /\ e \in f + 1 .. Len(t) + 1
      BY <1>2, <3>3
    <3>9. IsAddress(t, n)
      BY <3>4, <3>5, <3>6, <3>7, <3>8 DEF IsAddress
    <3>10. HasAddress(c)
      BY <3>4, <3>8 DEF HasAddress, t
    <3> QED
      BY <3>2, <3>9, <3>10 DEF t
  <2> QED
    BY <2>7, <2>8, <2>9 DEF Parsed
<1> QED
  BY <1>7, <1>8 DEF n

(* The dumps before command k.                                             *)
Before(d, k) == {j \in 1 .. k - 1 : IsDump(d[j])}

(* What DumpAddresses says of dump k of commands d.                        *)
Address(d, k) ==
  LET text == d[k].text
      addr == d[k].addr
      before == Before(d, k)
  IN /\ HasAddress(d[k]) /\ addr # Lost => IsAddress(text, addr)
     /\ addr = Lost =>
          \E j \in before \cup {k} : Len(d[j].text) = LINEBUF_LENGTH
     /\ addr = Unset => \A j \in before \cup {k} : ~HasAddress(d[j])
     /\ ~HasAddress(d[k]) =>
          \/ addr = Lost /\ Len(text) = LINEBUF_LENGTH
          \/ \A j \in before : (\A h \in before : h <= j) => addr = Past(d[j].addr)

(* What DumpAddresses says of all commands d.                              *)
Addresses(d) == \A k \in 1 .. Len(d) : IsDump(d[k]) => Address(d, k)

(* l is where the last dump of commands d ended.                           *)
Follows(d, l) ==
  LET dumps == Before(d, Len(d) + 1)
  IN /\ \A j \in dumps : (\A h \in dumps : h <= j) => l = Past(d[j].addr)
     /\ l = Lost => \E j \in dumps : Len(d[j].text) = LINEBUF_LENGTH
     /\ l = Unset => \A j \in dumps : ~HasAddress(d[j])

(* A new command changes nothing for the earlier ones.                     *)
LEMMA AddressKept ==
  ASSUME NEW d \in Seq(Entry), NEW e \in Entry, NEW k \in 1 .. Len(d)
  PROVE  /\ Append(d, e)[k] = d[k]
         /\ Address(d, k) => Address(Append(d, e), k)
<1> DEFINE D == Append(d, e)
<1>1. Len(d) \in Nat /\ \A j \in 1 .. Len(d) : D[j] = d[j]
  BY AppendIs
<1> HIDE DEF D
<1>2. \A j \in 1 .. k - 1 : D[j] = d[j]
  BY <1>1
<1>3. Before(D, k) = Before(d, k)
  BY <1>2 DEF Before
<1>4. \A j \in Before(d, k) \cup {k} : D[j] = d[j]
  BY <1>1, <1>2 DEF Before
<1>5. D[k] = d[k]
  BY <1>1
<1>6. Address(d, k) => Address(D, k)
  BY <1>3, <1>4, <1>5 DEF Address
<1> QED
  BY <1>5, <1>6 DEF D

(* An address stays known or unknown behind a dump.                        *)
LEMMA PastIs ==
  ASSUME NEW a \in Places
  PROVE  /\ Past(a) \in Places
         /\ Past(a) = Lost <=> a = Lost
         /\ Past(a) = Unset <=> a = Unset
<1>1. CASE a \in {Unset, Lost}
  BY <1>1 DEF Past, Places
<1>2. CASE a \in Words /\ a \notin {Unset, Lost}
  <2>1. \A j \in 1 .. WORD_DIGITS : a[j] \in 0 .. 15 /\ (a[j] + 1) % 16 \in 0 .. 15
    BY <1>2 DEF Words
  <2>2. Past(a) \in Words
    BY <1>2, <2>1 DEF Past, Words
  <2> QED
    BY <1>2, <2>2, PlacesDiffer DEF Places
<1> QED
  BY <1>1, <1>2 DEF Places

(* A command that is not a dump leaves the addresses as they are.          *)
LEMMA OtherAdded ==
  ASSUME NEW d \in Seq(Entry), NEW e \in Entry, NEW l, ~IsDump(e),
         Addresses(d), Follows(d, l)
  PROVE  Addresses(Append(d, e)) /\ Follows(Append(d, e), l)
<1> DEFINE D == Append(d, e)
           n == Len(d)
<1>1. /\ n \in Nat /\ (\A j \in 1 .. n : D[j] = d[j]) /\ D[n + 1] = e /\ Len(D) = n + 1
  BY AppendIs
<1>2. \A k \in 1 .. n : Address(d, k) => Address(D, k)
  BY AddressKept
<1> HIDE DEF D, n
<1>3. \A k \in 1 .. n + 1 : k \in 1 .. n \/ k = n + 1
  BY <1>1
<1>4. Addresses(D)
  <2>1. \A k \in 1 .. n : IsDump(d[k]) => Address(d, k)
    BY DEF Addresses, n
  <2> QED
    BY <1>1, <1>2, <1>3, <2>1 DEF Addresses
<1>5. Before(D, (n + 1) + 1) = Before(d, n + 1)
  <2>1. (n + 1) + 1 - 1 = n + 1 /\ n + 1 - 1 = n /\ 1 .. n \subseteq 1 .. n + 1
    BY <1>1
  <2> QED
    BY <1>1, <1>3, <2>1 DEF Before
<1>6. \A j \in Before(d, n + 1) : D[j] = d[j]
  <2>1. n + 1 - 1 = n
    BY <1>1
  <2> QED
    BY <1>1, <2>1 DEF Before
<1>7. Follows(D, l)
  BY <1>1, <1>5, <1>6 DEF Follows, n
<1> QED
  BY <1>4, <1>7 DEF D

(* A dump uses its own address or the one that lptr has.                   *)
LEMMA DumpAdded ==
  ASSUME NEW d \in Seq(Entry), NEW e \in Entry, NEW l \in Places,
         NEW m, IsDump(e), Parsed(e, m), e.addr = (IF m # None THEN m ELSE l),
         Addresses(d), Follows(d, l)
  PROVE  Addresses(Append(d, e)) /\ Follows(Append(d, e), Past(e.addr))
<1> DEFINE D == Append(d, e)
           n == Len(d)
           B == Before(d, n + 1)
<1>1. /\ n \in Nat /\ (\A j \in 1 .. n : D[j] = d[j]) /\ D[n + 1] = e /\ Len(D) = n + 1
  BY AppendIs
<1>2. \A k \in 1 .. n : Address(d, k) => Address(D, k)
  BY AddressKept
<1> HIDE DEF D, n
<1>3. \A k \in 1 .. n + 1 : k \in 1 .. n \/ k = n + 1
  BY <1>1
<1>4. n + 1 - 1 = n
  BY <1>1
<1>5. Before(D, n + 1) = B /\ B \subseteq 1 .. n /\ \A j \in B : D[j] = d[j]
  BY <1>1, <1>4 DEF Before
<1>6. Before(D, (n + 1) + 1) = B \cup {n + 1}
  <2>1. (n + 1) + 1 - 1 = n + 1 /\ 1 .. n \subseteq 1 .. n + 1 /\ n + 1 \in 1 .. n + 1
    BY <1>1
  <2> QED
    BY <1>1, <1>3, <1>4, <2>1 DEF Before
<1>7. /\ \A j \in B : (\A h \in B : h <= j) => l = Past(d[j].addr)
      /\ l = Lost => \E j \in B : Len(d[j].text) = LINEBUF_LENGTH
      /\ l = Unset => \A j \in B : ~HasAddress(d[j])
  BY DEF Follows, n
<1> HIDE DEF B
<1>8. Lost # None /\ Unset # None /\ Lost # Unset /\ Lost \notin Words /\ Unset \notin Words
  BY PlacesDiffer
<1>9. /\ m = Lost => Len(e.text) = LINEBUF_LENGTH /\ e.addr = Lost
      /\ m # Lost /\ m # None =>
           m \in Words /\ HasAddress(e) /\ e.addr = m /\ IsAddress(e.text, m)
      /\ m = None => ~HasAddress(e) /\ e.addr = l
  BY <1>8 DEF Parsed
<1>10. e.addr = Lost => \E j \in B \cup {n + 1} : Len(D[j].text) = LINEBUF_LENGTH
  <2>1. CASE m = Lost
    BY <1>1, <1>9, <2>1
  <2>2. CASE m = None
    BY <1>5, <1>7, <1>9, <2>2
  <2>3. CASE m # Lost /\ m # None
    BY <1>8, <1>9, <2>3
  <2> QED
    BY <2>1, <2>2, <2>3
<1>11. e.addr = Unset => \A j \in B \cup {n + 1} : ~HasAddress(D[j])
  <2>1. CASE m = None
    BY <1>1, <1>5, <1>7, <1>9, <2>1
  <2>2. CASE m # None
    BY <1>8, <1>9, <2>2
  <2> QED
    BY <2>1, <2>2
<1>12. Address(D, n + 1)
  <2>1. HasAddress(e) /\ e.addr # Lost => IsAddress(e.text, e.addr)
    BY <1>9
  <2>2. ~HasAddress(e) =>
          \/ e.addr = Lost /\ Len(e.text) = LINEBUF_LENGTH
          \/ \A j \in B : (\A h \in B : h <= j) => e.addr = Past(D[j].addr)
    BY <1>5, <1>7, <1>9
  <2> QED
    BY <1>1, <1>5, <1>10, <1>11, <2>1, <2>2 DEF Address
<1>13. Addresses(D)
  <2>1. \A k \in 1 .. n : IsDump(d[k]) => Address(d, k)
    BY DEF Addresses, n
  <2> QED
    BY <1>1, <1>2, <1>3, <1>12, <2>1 DEF Addresses
<1>14. e.addr \in Places
  BY DEF Entry
<1>15. Follows(D, Past(e.addr))
  <2>1. \A j \in B : j < n + 1
    <3>1. \A j \in 1 .. n : j < n + 1
      BY <1>1
    <3> QED
      BY <1>5, <3>1
  <2>2. \A j \in B \cup {n + 1} :
          (\A h \in B \cup {n + 1} : h <= j) => Past(e.addr) = Past(D[j].addr)
    <3>1. ASSUME NEW j \in B, n + 1 <= j PROVE FALSE
      BY <1>1, <1>5, <2>1, <3>1
    <3> QED
      BY <1>1, <3>1
  <2>3. (Past(e.addr) = Lost <=> e.addr = Lost) /\ (Past(e.addr) = Unset <=> e.addr = Unset)
    BY <1>14, PastIs
  <2> QED
    BY <1>1, <1>6, <1>10, <1>11, <2>2, <2>3 DEF Follows
<1> QED
  BY <1>13, <1>15 DEF D

-----------------------------------------------------------------------------
(* The invariant of the session.                                           *)

(* The packet in hand is the last one that was taken.                      *)
InPacket ==
  /\ Len(packet.first) <= Len(sent)
  /\ \A k \in 1 .. Len(packet.first) :
       sent[Len(sent) - Len(packet.first) + k] = packet.first[k]
  /\ point # "process" => packet = Null /\ i = 0

(* Between two sessions the variables are as a session finds them; in a    *)
(* session the characters read are the lines of the commands and the line  *)
(* in the buffer, and lptr is where the last dump ended.                   *)
InSession ==
  /\ point = "accept" => linebufpos = 0 /\ lptr = Unset
  /\ point # "accept" =>
       /\ Lines(Read, done)
       /\ Open(Read, linebuf, linebufpos)
       /\ Follows(done, lptr)

(* The inductive invariant of the session.                                 *)
TelnetInv == TelnetType /\ InPacket /\ InSession /\ Addresses(done)

(* The first pbuf of a packet.                                             *)
LEMMA PacketIs ==
  ASSUME NEW p \in Packets \cup {Null}
  PROVE  p.first \in Seq(Char) /\ Len(p.first) \in Nat /\ (p # Null => Len(p.first) > 0)
<1>1. Null.first = <<>>
  BY DEF Null
<1>2. p \in Packets => p.first \in Seq(Char) /\ p.first # <<>>
  BY TelnetAssumption
<1>3. \A x \in Seq(Char) : Len(x) \in Nat /\ (x # <<>> => Len(x) > 0)
  OBVIOUS
<1>4. <<>> \in Seq(Char)
  OBVIOUS
<1> QED
  BY <1>1, <1>2, <1>3, <1>4

(* What was read is the beginning of what was taken.                       *)
LEMMA ReadIs ==
  ASSUME TelnetInv
  PROVE  /\ Read \in Seq(Char)
         /\ Len(Read) = Len(sent) - (Len(packet.first) - i)
         /\ Len(sent) \in Nat /\ sent \in Seq(Char)
         /\ packet.first \in Seq(Char) /\ Len(packet.first) \in Nat
         /\ i \in 0 .. Len(packet.first)
         /\ \A j \in 1 .. Len(Read) : Read[j] = sent[j]
<1>1. /\ sent \in Seq(Char) /\ packet \in Packets \cup {Null} /\ i \in 0 .. Len(packet.first)
      /\ Len(packet.first) <= Len(sent)
  BY DEF TelnetInv, TelnetType, InPacket
<1>2. Len(sent) \in Nat /\ packet.first \in Seq(Char) /\ Len(packet.first) \in Nat
  BY <1>1, PacketIs
<1> DEFINE m == Len(sent) - (Len(packet.first) - i)
<1>3. m \in Nat /\ m <= Len(sent)
  BY <1>1, <1>2
<1>4. Read = SubSeq(sent, 1, m)
  BY DEF Read
<1> HIDE DEF m
<1>5. Read \in Seq(Char) /\ Len(Read) = m /\ \A j \in 1 .. m : Read[j] = sent[j]
  BY <1>1, <1>2, <1>3, <1>4
<1> QED
  BY <1>1, <1>2, <1>5 DEF m

(* A step that does not touch the session's variables.                     *)
LEMMA QuietStep ==
  ASSUME TelnetInv, TelnetType', UNCHANGED <<session, sent, done>>,
         point' = "accept" <=> point = "accept",
         point' # "process" => point # "process"
  PROVE  TelnetInv'
<1>1. /\ linebuf' = linebuf /\ linebufpos' = linebufpos /\ lptr' = lptr
      /\ packet' = packet /\ i' = i /\ sent' = sent /\ done' = done
  BY DEF session
<1>2. Read' = Read
  BY <1>1 DEF Read
<1>3. InPacket'
  BY <1>1 DEF TelnetInv, InPacket
<1>4. InSession'
  BY <1>1, <1>2 DEF TelnetInv, InSession
<1> QED
  BY <1>1, <1>3, <1>4 DEF TelnetInv

(* A message more or less in a mailbox.                                    *)
LEMMA MailStep ==
  ASSUME NEW S, NEW m \in Seq(S)
  PROVE  /\ Len(m) \in Nat
         /\ \A e \in S : Append(m, e) \in Seq(S) /\ Len(Append(m, e)) = Len(m) + 1
         /\ m # <<>> => /\ Head(m) \in S /\ Tail(m) \in Seq(S)
                        /\ Len(Tail(m)) = Len(m) - 1
OBVIOUS

(* What lwIP's callbacks put into a mailbox.                               *)
LEMMA MailboxStep ==
  ASSUME NEW m \in Seq(Packets \cup {Null}), Len(m) <= MBOX_SIZE,
         NEW e \in Packets \cup {Null}
  PROVE  RecvTcp(m, e) \in Seq(Packets \cup {Null}) /\ Len(RecvTcp(m, e)) <= MBOX_SIZE
<1>1. MBOX_SIZE \in Nat
  BY TelnetAssumption
<1>2. /\ Append(m, e) \in Seq(Packets \cup {Null})
      /\ Len(Append(m, e)) = Len(m) + 1 /\ Len(m) \in Nat
  BY MailStep
<1> QED
  BY <1>1, <1>2 DEF RecvTcp, Room

(* The message that is taken out.                                          *)
LEMMA TakenStep ==
  ASSUME TelnetInv, mbox # <<>>
  PROVE  /\ Head(mbox) \in Packets \cup {Null} /\ Tail(mbox) \in Seq(Packets \cup {Null})
         /\ Len(Tail(mbox)) <= MBOX_SIZE
<1>1. mbox \in Seq(Packets \cup {Null}) /\ MBOX_SIZE \in Nat /\ Len(mbox) <= MBOX_SIZE
  BY TelnetAssumption DEF TelnetInv, TelnetType
<1>2. /\ Head(mbox) \in Packets \cup {Null} /\ Tail(mbox) \in Seq(Packets \cup {Null})
      /\ Len(Tail(mbox)) = Len(mbox) - 1 /\ Len(mbox) \in Nat
  BY <1>1, MailStep
<1> QED
  BY <1>1, <1>2

(* Segments, FIN and RST change nothing of the session's own state.        *)
LEMMA PeerStep ==
  ASSUME TelnetInv,
         \/ \E p \in Packets : Deliver(p) \/ DeliverFin(p)
         \/ Redeliver \/ Finish \/ Reset
  PROVE  TelnetInv'
<1>1. UNCHANGED <<point, session, taken, sent, done>>
  BY DEF Deliver, DeliverFin, Redeliver, Finish, Reset
<1>2. /\ mbox \in Seq(Packets \cup {Null}) /\ Len(mbox) <= MBOX_SIZE
      /\ held \in Packets \cup {Null} /\ Null \in Packets \cup {Null}
  BY DEF TelnetInv, TelnetType
<1>3. \A e \in Packets \cup {Null} :
        /\ RecvTcp(mbox, e) \in Seq(Packets \cup {Null}) /\ Len(RecvTcp(mbox, e)) <= MBOX_SIZE
  BY <1>2, MailboxStep
<1>4. \A e, g \in Packets \cup {Null} :
        /\ RecvTcp(RecvTcp(mbox, e), g) \in Seq(Packets \cup {Null})
        /\ Len(RecvTcp(RecvTcp(mbox, e), g)) <= MBOX_SIZE
  BY <1>3, MailboxStep
<1>5. /\ mbox' \in Seq(Packets \cup {Null}) /\ Len(mbox') <= MBOX_SIZE
      /\ held' \in Packets \cup {Null}
  BY <1>2, <1>3, <1>4 DEF Deliver, DeliverFin, Redeliver, Finish, Reset
<1>6. /\ link' \in {"none", "open", "finished", "reset"}
      /\ lastErr' \in {"ERR_OK", "ERR_CLSD", "ERR_RST"} /\ unseen' \in BOOLEAN
  BY DEF Deliver, DeliverFin, Redeliver, Finish, Reset, TelnetInv, TelnetType
<1>7. TelnetType'
  BY <1>1, <1>5, <1>6 DEF TelnetInv, TelnetType, session
<1> QED
  BY <1>1, <1>7, QuietStep

(* Neither does waiting for the next packet.                               *)
LEMMA WaitStep ==
  ASSUME TelnetInv, Prompt \/ RecvLook \/ Retry \/ RecvClosed
  PROVE  TelnetInv'
<1>1. /\ UNCHANGED <<session, taken, sent, done>> /\ UNCHANGED <<link, held, unseen>>
      /\ point \in {"prompt", "recv", "retry", "blocked"}
  BY DEF Prompt, RecvLook, Retry, RecvClosed, netconn
<1>2. point' \in {"recv", "blocked", "close", "retry"}
  <2>1. lastErr \in {"ERR_OK", "ERR_CLSD", "ERR_RST"}
    BY DEF TelnetInv, TelnetType
  <2> QED
    BY <2>1 DEF Prompt, RecvLook, Retry, RecvClosed
<1>3. /\ mbox' \in Seq(Packets \cup {Null}) /\ Len(mbox') <= MBOX_SIZE
      /\ lastErr' \in {"ERR_OK", "ERR_CLSD", "ERR_RST"}
  <2>1. CASE Prompt \/ RecvLook \/ Retry
    BY <2>1 DEF Prompt, RecvLook, Retry, netconn, TelnetInv, TelnetType
  <2>2. CASE RecvClosed
    <3>1. mbox # <<>> /\ mbox' = Tail(mbox) /\ SetSafeErr("ERR_CLSD")
      BY <2>2 DEF RecvClosed
    <3>2. lastErr' \in {"ERR_OK", "ERR_CLSD", "ERR_RST"}
      BY <3>1 DEF SetSafeErr, TelnetInv, TelnetType
    <3> QED
      BY <3>1, <3>2, TakenStep
  <2> QED
    BY <2>1, <2>2
<1>4. TelnetType'
  BY <1>1, <1>2, <1>3 DEF TelnetInv, TelnetType, session
<1> QED
  BY <1>1, <1>2, <1>4, QuietStep

(* The empty text.                                                         *)
LEMMA NothingRead ==
  ASSUME NEW buf
  PROVE  Lines(<<>>, <<>>) /\ Open(<<>>, buf, 0) /\ Follows(<<>>, Unset) /\ Addresses(<<>>)
<1>1. Len(<<>>) = 0 /\ 1 .. 0 = {}
  OBVIOUS
<1>2. Newlines(<<>>, 0) = {}
  BY <1>1 DEF Newlines
<1>3. Lines(<<>>, <<>>)
  BY <1>1, <1>2, FS_EmptySet DEF Lines
<1>4. Open(<<>>, buf, 0)
  <2>1. 0 \in 0 .. 0 /\ 0 + 1 .. 0 = {} /\ 0 - 0 = 0 /\ LINEBUF_LENGTH > 0
    BY TelnetAssumption
  <2>2. Opened(<<>>, buf, 0, 0)
    BY <1>1, <2>1 DEF Opened
  <2> QED
    BY <1>1, <2>1, <2>2 DEF Open
<1>5. Before(<<>>, 0 + 1) = {}
  BY DEF Before
<1>6. Follows(<<>>, Unset)
  BY <1>1, <1>5, PlacesDiffer DEF Follows
<1>7. Addresses(<<>>)
  BY <1>1 DEF Addresses
<1> QED
  BY <1>3, <1>4, <1>6, <1>7

(* No packet has no characters.                                            *)
LEMMA EmptyPacket ==
  /\ Null.first = <<>> /\ Null \in Packets \cup {Null} /\ Len(Null.first) = 0
  /\ 0 \in 0 .. Len(Null.first)
<1>1. Null.first = <<>> /\ Len(<<>>) = 0 /\ 0 \in 0 .. 0
  BY DEF Null
<1> QED
  BY <1>1

(* A new session has read nothing.                                         *)
LEMMA ConnectStep ==
  ASSUME TelnetInv, Connect
  PROVE  TelnetInv'
<1>1. /\ point = "accept" /\ link' = "open" /\ point' = "prompt"
      /\ taken' = 0 /\ sent' = <<>> /\ done' = <<>>
      /\ UNCHANGED <<mbox, held, lastErr, unseen>>
      /\ linebuf' = linebuf /\ linebufpos' = linebufpos /\ lptr' = lptr
      /\ packet' = packet /\ i' = i
  BY DEF Connect, session
<1>2. linebufpos = 0 /\ lptr = Unset /\ packet = Null /\ i = 0
  BY <1>1 DEF TelnetInv, InSession, InPacket
<1>3. <<>> \in Seq(Char) /\ <<>> \in Seq([text : Seq(Char), addr : Places])
  OBVIOUS
<1>4. TelnetType'
  BY <1>1, <1>3 DEF TelnetInv, TelnetType
<1>5. Len(packet'.first) = 0 /\ Len(sent') = 0
  BY <1>1, <1>2, EmptyPacket
<1>6. InPacket'
  BY <1>1, <1>2, <1>5 DEF InPacket
<1>7. Read' = <<>>
  <2>1. SubSeq(<<>>, 1, 0) = <<>>
    OBVIOUS
  <2>2. Read' = SubSeq(sent', 1, Len(sent') - (Len(packet'.first) - i'))
    BY DEF Read
  <2>3. Len(sent') - (Len(packet'.first) - i') = 0
    BY <1>1, <1>2, <1>5
  <2> QED
    BY <1>1, <2>1, <2>2, <2>3
<1>8. InSession'
  BY <1>1, <1>2, <1>7, NothingRead DEF InSession
<1> QED
  BY <1>1, <1>4, <1>6, <1>8, NothingRead DEF TelnetInv

(* The end of a session.                                                   *)
LEMMA CloseStep ==
  ASSUME TelnetInv, Close
  PROVE  TelnetInv'
<1>1. /\ point' = "accept" /\ link' = "none" /\ mbox' = <<>> /\ lastErr' = "ERR_OK"
      /\ held' = Null /\ unseen' = FALSE /\ linebuf' = [k \in DOMAIN linebuf |-> Junk]
      /\ linebufpos' = 0 /\ lptr' = Unset /\ packet' = Null /\ i' = 0
      /\ UNCHANGED <<taken, sent, done>>
  BY DEF Close
<1>2. <<>> \in Seq(Packets \cup {Null}) /\ Len(<<>>) = 0
  OBVIOUS
<1>3. mbox' \in Seq(Packets \cup {Null}) /\ Len(mbox') <= MBOX_SIZE
  BY <1>1, <1>2, TelnetAssumption
<1>4. linebuf' \in [0 .. LINEBUF_LENGTH - 1 -> Char \cup {Junk}] /\ 0 \in 0 .. LINEBUF_LENGTH
  BY <1>1, TelnetAssumption DEF TelnetInv, TelnetType
<1>5. packet' \in Packets \cup {Null} /\ i' \in 0 .. Len(packet'.first)
  BY <1>1, EmptyPacket
<1>6. TelnetType'
  BY <1>1, <1>3, <1>4, <1>5 DEF TelnetInv, TelnetType, Places
<1>7. InPacket'
  <2>1. Len(packet'.first) = 0 /\ Len(sent') \in Nat
    BY <1>1, EmptyPacket DEF TelnetInv, TelnetType
  <2> QED
    BY <1>1, <2>1 DEF InPacket
<1>8. InSession'
  BY <1>1 DEF InSession
<1> QED
  BY <1>1, <1>6, <1>7, <1>8 DEF TelnetInv

(* A packet is taken; nothing of it is read yet.                           *)
LEMMA RecvDataStep ==
  ASSUME TelnetInv, RecvData
  PROVE  TelnetInv'
<1> DEFINE f == Head(mbox).first
<1>1. /\ point = "blocked" /\ mbox # <<>> /\ packet' = Head(mbox) /\ i' = 0
      /\ mbox' = Tail(mbox) /\ taken' = taken + 1 /\ sent' = sent \o f
      /\ point' = "process"
      /\ UNCHANGED <<link, held, lastErr, unseen, linebuf, linebufpos, lptr, done>>
  BY DEF RecvData
<1>2. /\ Head(mbox) \in Packets \cup {Null} /\ mbox' \in Seq(Packets \cup {Null})
      /\ Len(mbox') <= MBOX_SIZE
  BY <1>1, TakenStep
<1>3. f \in Seq(Char) /\ Len(f) \in Nat
  BY <1>2, PacketIs
<1>4. packet = Null /\ i = 0 /\ sent \in Seq(Char) /\ Len(sent) \in Nat
  BY <1>1 DEF TelnetInv, InPacket, TelnetType
<1> HIDE DEF f
<1>5. /\ sent' \in Seq(Char) /\ Len(sent') = Len(sent) + Len(f)
      /\ \A j \in 1 .. Len(sent) : sent'[j] = sent[j]
      /\ \A k \in 1 .. Len(f) : sent'[Len(sent) + k] = f[k]
  BY <1>1, <1>3, <1>4
<1>6. packet'.first = f
  BY <1>1 DEF f
<1>7. TelnetType'
  <2>1. 0 \in 0 .. Len(f) /\ taken + 1 \in Nat
    BY <1>3 DEF TelnetInv, TelnetType
  <2> QED
    BY <1>1, <1>2, <1>5, <1>6, <2>1 DEF TelnetInv, TelnetType
<1>8. InPacket'
  <2>1. Len(sent') - Len(f) = Len(sent) /\ Len(f) <= Len(sent')
    BY <1>3, <1>4, <1>5
  <2> QED
    BY <1>1, <1>5, <1>6, <2>1 DEF InPacket
<1>9. Read' = Read
  <2>1. Read = SubSeq(sent, 1, Len(sent))
    <3>1. Len(packet.first) = 0
      BY <1>4, EmptyPacket
    <3>2. Len(sent) - (Len(packet.first) - i) = Len(sent)
      BY <1>4, <3>1
    <3> QED
      BY <3>2 DEF Read
  <2>2. Read' = SubSeq(sent', 1, Len(sent))
    <3>1. Len(sent') = Len(sent) + Len(f) /\ Len(packet'.first) = Len(f) /\ i' = 0
      BY <1>1, <1>5, <1>6
    <3>2. (Len(sent) + Len(f)) - (Len(f) - 0) = Len(sent)
      BY <1>3, <1>4
    <3>3. Len(sent') - (Len(packet'.first) - i') = Len(sent)
      BY <3>1, <3>2
    <3> QED
      BY <3>3 DEF Read
  <2> DEFINE a == SubSeq(sent, 1, Len(sent))
             b == SubSeq(sent', 1, Len(sent))
  <2>3. a \in Seq(Char) /\ Len(a) = Len(sent) /\ \A j \in 1 .. Len(sent) : a[j] = sent[j]
    BY <1>4
  <2>4. b \in Seq(Char) /\ Len(b) = Len(sent) /\ \A j \in 1 .. Len(sent) : b[j] = sent'[j]
    BY <1>3, <1>4, <1>5
  <2> HIDE DEF a, b
  <2>5. a = b
    BY <1>5, <2>3, <2>4, SeqEqual
  <2> QED
    BY <2>1, <2>2, <2>5 DEF a, b
<1>10. InSession'
  BY <1>1, <1>9 DEF TelnetInv, InSession
<1> QED
  BY <1>1, <1>7, <1>8, <1>10 DEF TelnetInv

(* All of the packet is read.                                              *)
LEMMA PacketDoneStep ==
  ASSUME TelnetInv, PacketDone
  PROVE  TelnetInv'
<1>1. /\ point = "process" /\ i = Len(packet.first) /\ point' \in {"close", "prompt"}
      /\ packet' = Null /\ i' = 0
      /\ UNCHANGED <<linebuf, linebufpos, lptr, taken, sent, done>>
      /\ link' = link /\ mbox' = mbox /\ lastErr' = lastErr
      /\ held' = held /\ unseen' = unseen
  BY DEF PacketDone, netconn
<1>2. /\ Len(sent) \in Nat /\ Len(packet.first) \in Nat
  BY ReadIs
<1>3. packet' \in Packets \cup {Null} /\ i' \in 0 .. Len(packet'.first) /\ Len(packet'.first) = 0
  BY <1>1, EmptyPacket
<1>4. TelnetType'
  BY <1>1, <1>3 DEF TelnetInv, TelnetType
<1>5. InPacket'
  <2>1. Len(packet'.first) <= Len(sent')
    BY <1>1, <1>2, <1>3
  <2>2. \A k \in 1 .. Len(packet'.first) :
          sent'[Len(sent') - Len(packet'.first) + k] = packet'.first[k]
    BY <1>3
  <2> QED
    BY <1>1, <2>1, <2>2 DEF InPacket
<1>6. Read' = Read
  <2>1. Len(sent) - (Len(packet.first) - i) = Len(sent)
    BY <1>1, <1>2
  <2>2. Len(sent') - (Len(packet'.first) - i') = Len(sent)
    BY <1>1, <1>2, <1>3
  <2> QED
    BY <1>1, <2>1, <2>2 DEF Read
<1>7. InSession'
  BY <1>1, <1>6 DEF TelnetInv, InSession
<1> QED
  BY <1>1, <1>4, <1>5, <1>7 DEF TelnetInv

(* The line in the buffer when its newline comes.                          *)
LEMMA OpenIs ==
  ASSUME NEW s \in Seq(Char), NEW pos,
         NEW buf \in [0 .. LINEBUF_LENGTH - 1 -> Char \cup {Junk}], Open(s, buf, pos)
  PROVE  LET b == IF pos < LINEBUF_LENGTH THEN [buf EXCEPT ![pos] = "n"] ELSE buf
         IN  /\ b \in [0 .. LINEBUF_LENGTH - 1 -> Char \cup {Junk}]
             /\ pos \in 0 .. LINEBUF_LENGTH
             /\ \A k \in 1 .. pos : b[k - 1] \in Char /\ b[k - 1] # "n"
             /\ pos < LINEBUF_LENGTH => b[pos] = "n"
<1> DEFINE b == IF pos < LINEBUF_LENGTH THEN [buf EXCEPT ![pos] = "n"] ELSE buf
           n == Len(s)
<1>1. LINEBUF_LENGTH \in Nat /\ n \in Nat
  BY TelnetAssumption
<1>2. PICK f \in 0 .. n : Opened(s, buf, pos, f)
  BY DEF Open
<1>3. /\ \A q \in f + 1 .. n : s[q] # "n"
      /\ pos = IF n - f < LINEBUF_LENGTH THEN n - f ELSE LINEBUF_LENGTH
      /\ \A k \in 1 .. pos : buf[k - 1] = s[f + k]
  BY <1>2 DEF Opened
<1>4. \A q \in 1 .. n : s[q] \in Char
  OBVIOUS
<1>5. "n" \in Char
  BY DEF Char
<1> HIDE DEF n
<1>6. pos \in 0 .. LINEBUF_LENGTH /\ pos <= n - f
  BY <1>1, <1>3
<1>7. b \in [0 .. LINEBUF_LENGTH - 1 -> Char \cup {Junk}]
  BY <1>5
<1>8. ASSUME NEW k \in 1 .. pos PROVE b[k - 1] \in Char /\ b[k - 1] # "n"
  <2>1. k - 1 # pos /\ k - 1 \in 0 .. LINEBUF_LENGTH - 1
        /\ f + k \in f + 1 .. n /\ f + k \in 1 .. n
    BY <1>1, <1>6
  <2>2. b[k - 1] = buf[k - 1]
    BY <2>1
  <2> QED
    BY <1>3, <1>4, <2>1, <2>2
<1>9. ASSUME pos < LINEBUF_LENGTH PROVE b[pos] = "n"
  <2>1. pos \in 0 .. LINEBUF_LENGTH - 1
    BY <1>1, <1>6, <1>9
  <2> QED
    BY <1>9, <2>1
<1> QED
  BY <1>6, <1>7, <1>8, <1>9

(* One more character is read.                                             *)
LEMMA ReadMore ==
  ASSUME TelnetInv, i < Len(packet.first), i' = i + 1, packet' = packet, sent' = sent
  PROVE  Ch \in Char /\ Read' = Append(Read, Ch) /\ i' \in 0 .. Len(packet.first)
<1> DEFINE f == Len(packet.first)
           n == Len(sent)
           m == n - (f - i)
<1>1. /\ Read \in Seq(Char) /\ Len(Read) = m /\ n \in Nat /\ f \in Nat /\ i \in 0 .. f
      /\ \A j \in 1 .. m : Read[j] = sent[j]
      /\ sent \in Seq(Char) /\ packet.first \in Seq(Char)
  BY ReadIs
<1>2. f <= n /\ \A k \in 1 .. f : sent[n - f + k] = packet.first[k]
  BY DEF TelnetInv, InPacket
<1>3. Read' = SubSeq(sent, 1, m + 1)
  <2>1. Len(sent') - (Len(packet'.first) - i') = m + 1
    BY <1>1
  <2> QED
    BY <2>1 DEF Read
<1>4. i + 1 \in 1 .. f /\ i' \in 0 .. f
  BY <1>1
<1>5. Ch \in Char
  BY <1>1, <1>4 DEF Ch
<1> HIDE DEF n, f
<1>6. m \in Nat /\ m + 1 <= n /\ n - f + (i + 1) = m + 1
  BY <1>1, <1>2, <1>4
<1>7. sent[m + 1] = Ch
  BY <1>2, <1>4, <1>6 DEF Ch
<1> HIDE DEF m
<1> DEFINE a == SubSeq(sent, 1, m + 1)
           b == Append(Read, Ch)
<1>8. a \in Seq(Char) /\ Len(a) = m + 1 /\ \A j \in 1 .. m + 1 : a[j] = sent[j]
  BY <1>1, <1>6 DEF n
<1>9. b \in Seq(Char) /\ Len(b) = m + 1 /\ (\A j \in 1 .. m : b[j] = Read[j]) /\ b[m + 1] = Ch
  BY <1>1, <1>5, AppendIs
<1> HIDE DEF a, b
<1>10. \A j \in 1 .. m + 1 : a[j] = b[j]
  <2>1. \A j \in 1 .. m + 1 : j \in 1 .. m \/ j = m + 1
    BY <1>6
  <2> QED
    BY <1>1, <1>7, <1>8, <1>9, <2>1
<1>11. a = b
  BY <1>8, <1>9, <1>10, SeqEqual
<1> QED
  BY <1>3, <1>4, <1>5, <1>11 DEF a, b, f

(* The command in the buffer, when the newline has come.                   *)
LEMMA ExecuteStep ==
  ASSUME TelnetInv, point = "process", Ch = "n", Execute(Stored)
  PROVE  /\ done' \in Seq(Entry) /\ lptr' \in Places
         /\ Lines(Append(Read, "n"), done')
         /\ Open(Append(Read, "n"), Stored, 0)
         /\ Addresses(done') /\ Follows(done', lptr')
<1> DEFINE b == IF linebufpos < LINEBUF_LENGTH THEN [linebuf EXCEPT ![linebufpos] = "n"]
                ELSE linebuf
           m == Number(b)
           addr == IF m # None THEN m ELSE lptr
           e == [text |-> Text(b), addr |-> IF b[0] = "d" THEN addr ELSE Unset]
<1>1. Stored = b
  BY DEF Stored
<1>2. /\ done \in Seq(Entry) /\ lptr \in Places /\ Read \in Seq(Char)
      /\ linebuf \in [0 .. LINEBUF_LENGTH - 1 -> Char \cup {Junk}]
  BY ReadIs DEF TelnetInv, TelnetType, Entry
<1>3. /\ Lines(Read, done) /\ Open(Read, linebuf, linebufpos) /\ Follows(done, lptr)
      /\ Addresses(done)
  BY DEF TelnetInv, InSession
<1>4. /\ b \in [0 .. LINEBUF_LENGTH - 1 -> Char \cup {Junk}]
      /\ linebufpos \in 0 .. LINEBUF_LENGTH
      /\ \A k \in 1 .. linebufpos : b[k - 1] \in Char /\ b[k - 1] # "n"
      /\ linebufpos < LINEBUF_LENGTH => b[linebufpos] = "n"
  BY <1>2, <1>3, OpenIs
<1>5. Text(b) \in Seq(Char)
  <2> HIDE DEF b
  <2> QED
    BY <1>4, TextIs
<1>6. m \in Places \cup {None}
  <2> HIDE DEF b
  <2> QED
    <3>1. PICK from, to : NumberAt(b, Number(b), from, to)
      BY <1>4, NumberIs
    <3>2. Shifted(b, to, to - from) \in Words
      BY ShiftedIs
    <3> QED
      BY <3>1, <3>2 DEF NumberAt, Places
<1>7. e \in Entry /\ e.text = Text(b) /\ e.addr = IF b[0] = "d" THEN addr ELSE Unset
  <2> HIDE DEF b, m
  <2>1. addr \in Places
    BY <1>2, <1>6
  <2> HIDE DEF addr
  <2> QED
    BY <1>5, <2>1 DEF Entry, Places
<1>8. IF b[0] = "d" THEN done' = Append(done, e) /\ lptr' = Past(e.addr)
                    ELSE done' = Append(done, e) /\ lptr' = lptr
  <2> HIDE DEF b
  <2> QED
    BY <1>1 DEF Execute
<1>9. done' = Append(done, e)
  BY <1>8
<1>10. /\ Lines(Append(Read, "n"), Append(done, e))
       /\ \A any : Open(Append(Read, "n"), any, 0)
  <2> HIDE DEF e
  <2> QED
    BY <1>2, <1>3, <1>7, NewlineCharacter
<1> HIDE DEF e, b
<1>11. (IsDump(e) <=> b[0] = "d") /\ (b[0] = "d" => Parsed(e, m))
  BY <1>4, <1>7, ParsedIs
<1> HIDE DEF m
<1>12. /\ Addresses(Append(done, e)) /\ Follows(Append(done, e), lptr')
       /\ lptr' \in Places
  <2>1. CASE b[0] = "d"
    <3>1. e.addr = (IF m # None THEN m ELSE lptr) /\ IsDump(e) /\ Parsed(e, m)
      BY <1>7, <1>11, <2>1
    <3>2. Addresses(Append(done, e)) /\ Follows(Append(done, e), Past(e.addr))
      BY <1>2, <1>3, <1>7, <3>1, DumpAdded
    <3>3. e.addr \in Places
      BY <1>7 DEF Entry
    <3> QED
      BY <1>8, <2>1, <3>2, <3>3, PastIs
  <2>2. CASE b[0] # "d"
    BY <1>2, <1>3, <1>7, <1>8, <1>11, <2>2, OtherAdded
  <2> QED
    BY <2>1, <2>2
<1>13. Append(done, e) \in Seq(Entry)
  BY <1>2, <1>7, AppendIs
<1> QED
  BY <1>9, <1>10, <1>12, <1>13

(* A character enters the line, or ends it and the command is executed.    *)
LEMMA ProcessStep ==
  ASSUME TelnetInv, Process
  PROVE  TelnetInv'
<1>1. /\ point = "process" /\ i < Len(packet.first) /\ i' = i + 1 /\ linebuf' = Stored
      /\ IF Ch = "n" THEN linebufpos' = 0 /\ Execute(Stored)
         ELSE /\ linebufpos' = IF linebufpos < LINEBUF_LENGTH THEN linebufpos + 1
                                                             ELSE linebufpos
              /\ UNCHANGED <<lptr, done>>
      /\ point' = point /\ packet' = packet /\ taken' = taken /\ sent' = sent
      /\ link' = link /\ mbox' = mbox /\ lastErr' = lastErr
      /\ held' = held /\ unseen' = unseen
  BY DEF Process, netconn
<1>2. Ch \in Char /\ Read' = Append(Read, Ch) /\ i' \in 0 .. Len(packet.first)
  BY <1>1, ReadMore
<1>3. /\ linebuf \in [0 .. LINEBUF_LENGTH - 1 -> Char \cup {Junk}]
      /\ linebufpos \in 0 .. LINEBUF_LENGTH /\ LINEBUF_LENGTH \in Nat
  BY TelnetAssumption DEF TelnetInv, TelnetType
<1>4. linebuf' \in [0 .. LINEBUF_LENGTH - 1 -> Char \cup {Junk}]
  BY <1>1, <1>2, <1>3 DEF Stored
<1>5. /\ linebufpos' \in 0 .. LINEBUF_LENGTH
      /\ done' \in Seq(Entry) /\ lptr' \in Places
      /\ Lines(Read', done') /\ Open(Read', linebuf', linebufpos')
      /\ Addresses(done') /\ Follows(done', lptr')
  <2>1. CASE Ch = "n"
    <3>1. linebufpos' = 0 /\ Execute(Stored)
      BY <1>1, <2>1
    <3>2. 0 \in 0 .. LINEBUF_LENGTH
      BY <1>3
    <3> QED
      BY <1>1, <1>2, <2>1, <3>1, <3>2, ExecuteStep
  <2>2. CASE Ch # "n"
    <3>1. /\ linebufpos' = IF linebufpos < LINEBUF_LENGTH THEN linebufpos + 1 ELSE linebufpos
          /\ lptr' = lptr /\ done' = done
      BY <1>1, <2>2
    <3>2. linebuf' = IF linebufpos < LINEBUF_LENGTH THEN [linebuf EXCEPT ![linebufpos] = Ch]
                     ELSE linebuf
      BY <1>1 DEF Stored
    <3>3. linebufpos' \in 0 .. LINEBUF_LENGTH
      BY <1>3, <3>1
    <3>4. /\ Lines(Read, done) /\ Open(Read, linebuf, linebufpos) /\ Follows(done, lptr)
          /\ Addresses(done)
      BY <1>1 DEF TelnetInv, InSession
    <3>5. Read \in Seq(Char)
      BY ReadIs
    <3>6. Lines(Append(Read, Ch), done) /\ Open(Append(Read, Ch), linebuf', linebufpos')
      BY <1>2, <1>3, <2>2, <3>1, <3>2, <3>4, <3>5, PlainCharacter
    <3>7. done \in Seq(Entry) /\ lptr \in Places
      BY DEF TelnetInv, TelnetType, Entry
    <3> QED
      BY <1>2, <3>1, <3>3, <3>4, <3>6, <3>7
  <2> QED
    BY <2>1, <2>2
<1>6. TelnetType'
  BY <1>1, <1>2, <1>4, <1>5 DEF TelnetInv, TelnetType, Entry
<1>7. InPacket'
  BY <1>1 DEF TelnetInv, InPacket
<1>8. InSession'
  BY <1>1, <1>5 DEF InSession
<1> QED
  BY <1>5, <1>6, <1>7, <1>8 DEF TelnetInv

(* The invariant holds at the start.                                       *)
LEMMA TelnetInitInv == TelnetInit => TelnetInv
<1> SUFFICES ASSUME TelnetInit PROVE TelnetInv
  OBVIOUS
<1>1. /\ link = "none" /\ mbox = <<>> /\ held = Null /\ lastErr = "ERR_OK" /\ unseen = FALSE
      /\ point = "accept"
      /\ linebuf = [k \in 0 .. LINEBUF_LENGTH - 1 |-> Junk]
      /\ linebufpos = 0 /\ lptr = Unset /\ packet = Null /\ i = 0
      /\ taken = 0 /\ sent = <<>> /\ done = <<>>
  BY DEF TelnetInit
<1>2. /\ <<>> \in Seq(Packets \cup {Null}) /\ Len(<<>>) = 0 /\ <<>> \in Seq(Char)
      /\ <<>> \in Seq([text : Seq(Char), addr : Places])
  OBVIOUS
<1>3. Len(mbox) <= MBOX_SIZE /\ 0 \in 0 .. LINEBUF_LENGTH
  BY <1>1, <1>2, TelnetAssumption
<1>4. linebuf \in [0 .. LINEBUF_LENGTH - 1 -> Char \cup {Junk}]
  BY <1>1
<1>5. packet \in Packets \cup {Null} /\ i \in 0 .. Len(packet.first) /\ Len(packet.first) = 0
  BY <1>1, EmptyPacket
<1>6. TelnetType
  BY <1>1, <1>2, <1>3, <1>4, <1>5 DEF TelnetType, Places
<1>7. InPacket
  BY <1>1, <1>2, <1>5 DEF InPacket
<1>8. InSession
  BY <1>1 DEF InSession
<1> QED
  BY <1>1, <1>6, <1>7, <1>8, NothingRead DEF TelnetInv

(* Every step keeps the invariant.                                         *)
LEMMA TelnetInductive ==
  ASSUME TelnetInv, [TelnetNext]_telnetVars
  PROVE  TelnetInv'
<1>1. CASE UNCHANGED telnetVars
  <2>1. UNCHANGED <<session, sent, done>> /\ point' = point
    BY <1>1 DEF telnetVars
  <2>2. TelnetType'
    BY <1>1 DEF telnetVars, session, netconn, TelnetInv, TelnetType
  <2> QED
    BY <2>1, <2>2, QuietStep
<1> QED
  BY <1>1, ConnectStep, PeerStep, WaitStep, RecvDataStep, ProcessStep, PacketDoneStep,
     CloseStep DEF TelnetNext, Task

(* The invariant of the Telnet session holds in every state.               *)
THEOREM TelnetInvariance == TelnetSpec => []TelnetInv
<1>1. TelnetInv /\ [TelnetNext]_telnetVars => TelnetInv'
  BY TelnetInductive
<1> QED
  BY <1>1, TelnetInitInv, PTL DEF TelnetSpec

(* For buffers of every length and however the stream is cut into packets, *)
(* the commands that the session executes are the lines of what it reads.  *)
THEOREM TelnetCommandsAreLines == TelnetSpec => []CommandsAreLines
<1>1. TelnetInv => CommandsAreLines
  BY DEF TelnetInv, InSession, Lines, CommandsAreLines
<1> QED
  BY <1>1, TelnetInvariance, PTL

(* Every dump is at the address in its line or follows the one before.     *)
THEOREM TelnetDumpAddresses == TelnetSpec => []DumpAddresses
<1>1. TelnetInv => DumpAddresses
  BY DEF TelnetInv, Addresses, Address, Before, DumpAddresses
<1> QED
  BY <1>1, TelnetInvariance, PTL
=============================================================================
