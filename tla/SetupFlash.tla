----------------------------- MODULE SetupFlash ------------------------------
(***************************************************************************)
(* The stored set-up of the board: the MAC address and the serial number   *)
(* in the last sector of the SPI flash.  The commands `E' (erase) and `S'  *)
(* (set) of serial_monitor.c, the functions of ext_flash.c and             *)
(* m25p128_spi.c that they call, and what main.c makes of the sector when  *)
(* the board starts.                                                       *)
(*                                                                         *)
(* The chip is external: it works on a command while the firmware goes on, *)
(* takes no command but the status read meanwhile, can only clear bits     *)
(* when it programs, and does the part of its work that it likes when the  *)
(* power goes.  The content of a field is the set of its bits that are 1.  *)
(***************************************************************************)
EXTENDS Naturals, FiniteSets

CONSTANTS
  Bit,     \* the bits of a field
  Oui,     \* the vendor's three bytes, MRF_OUI_x and ETHERNET_CONF_ETHADDR0-2
  Low,     \* bound: the last three bytes that are typed, or found on the stack
  Stack,   \* bound: the first three bytes that are found on the stack
  Alnum    \* the contents of the serial number that begin with a letter or digit

ASSUME SetupAssumption ==
  /\ "unknown" \notin Bit
  /\ Oui \in SUBSET Bit /\ Oui # Bit
  /\ Low \subseteq SUBSET Bit /\ Stack \subseteq SUBSET Bit
  /\ Alnum \subseteq SUBSET Bit /\ Bit \notin Alnum

Field == {"oui", "low", "sn"}
FieldsOf(j) == CASE j = "mac" -> {"oui", "low"} [] j = "sn" -> {"sn"}
                 [] j = "erase" -> Field [] j = "none" -> {}
ALL == [f \in Field |-> Bit]          \* the content of an erased sector
NoSn == {}                            \* the empty string
Default == {}                         \* ETHERNET_CONF_ETHADDR3-5
Unknown == {"unknown"}                \* history: nobody can tell

VARIABLES
  flash,   \* the content of the sector
  wel,     \* the write enable latch of the chip
  busy,    \* the job that the chip works on: "none", "erase", "mac", "sn"
  given,   \* the data of that job
  pc,      \* program point of task_serial
  job,     \* the job that the firmware is at
  new,     \* new_mac_address and new_serial_number
  ok,      \* status is M25P_SUCCESS
  open,    \* history: m25p_write_disable failed, and no job ended since
  gaveUp,  \* the last ext_flash_wait_for_ready ended without M25P_SUCCESS
  stored,  \* history: what the fields must hold, after what was reported
  plan     \* history: what they must hold when this job is reported as done

chip == <<flash, wel, busy, given>>
told == <<gaveUp, stored, plan>>
vars == <<chip, pc, job, new, ok, open, told>>

-----------------------------------------------------------------------------
(* The start of the board: what main.c makes of both fields, as             *)
(* gs_uc_mac_address and serial_number.                                     *)

Boot(f) == [oui |-> Oui,
            low |-> IF f["oui"] = Oui THEN f["low"] ELSE Default,
            sn  |-> IF f["sn"] \in Alnum THEN f["sn"] ELSE NoSn]

Init ==
  /\ flash = ALL /\ wel = FALSE /\ busy = "none" /\ given = ALL
  /\ pc = "prompt" /\ job = "none" /\ new = ALL /\ ok = TRUE /\ gaveUp = FALSE
  /\ open = FALSE
  /\ stored = ALL /\ plan = ALL

-----------------------------------------------------------------------------
(* The chip. *)

\* The content of the fields after job j with data d.
After(j, d) ==
  [f \in Field |-> IF f \notin FieldsOf(j) THEN flash[f]
                   ELSE IF j = "erase" THEN Bit ELSE flash[f] \cap d[f]]

\* The chip is done; the latch is reset.
ChipDone ==
  /\ busy # "none"
  /\ flash' = After(busy, given)
  /\ busy' = "none" /\ wel' = FALSE /\ given' = ALL /\ open' = FALSE
  /\ UNCHANGED <<pc, job, new, ok, told>>

\* What the power may leave of field f when a job was not done: some bits are
\* programmed; after an erase anything.
TornField(f) ==
  IF f \notin FieldsOf(busy) THEN {flash[f]}
  ELSE IF busy = "erase" THEN SUBSET Bit
  ELSE {g \in SUBSET flash[f] : flash[f] \cap given[f] \subseteq g}

\* The power goes and comes back, and the board starts.
PowerLoss ==
  /\ \E o \in TornField("oui"), l \in TornField("low"), n \in TornField("sn") :
       flash' = [oui |-> o, low |-> l, sn |-> n]
  /\ wel' = FALSE /\ busy' = "none" /\ given' = ALL /\ open' = FALSE
  /\ pc' = "prompt" /\ job' = "none" /\ new' = ALL /\ ok' = TRUE /\ gaveUp' = FALSE
  /\ stored' = [f \in Field |-> IF f \in FieldsOf(busy) \cup FieldsOf(job)
                                THEN Unknown ELSE stored[f]]
  /\ plan' = ALL

-----------------------------------------------------------------------------
(* The commands of the serial monitor. *)

\* A job begins: a field that was erased will hold what was typed.  If the
\* chip still works on an earlier job nobody can tell what will come of it.
Begin(j, data, typed) ==
  /\ pc' = "wren" /\ job' = j /\ ok' = TRUE
  /\ plan' = [f \in Field |->
                IF f \notin FieldsOf(j) THEN stored[f]
                ELSE IF busy # "none" THEN Unknown
                ELSE IF j = "erase" THEN Bit
                ELSE IF typed /\ stored[f] = Bit THEN data[f] ELSE Unknown]
  /\ stored' = [f \in Field |-> IF f \in FieldsOf(j) THEN Unknown ELSE stored[f]]

\* `E', confirmed with "yes"
CommandErase ==
  /\ pc = "prompt"
  /\ Begin("erase", ALL, FALSE)
  /\ new' = ALL
  /\ UNCHANGED <<chip, open, gaveUp>>

\* `S', confirmed with "yes".  When no number was typed new_mac_address is
\* what the stack holds.  serial_editline starts from serial_number, which
\* main.c made a member of the same set, and gives it back after ^C.
CommandSet ==
  /\ pc = "prompt"
  /\ \E typed \in BOOLEAN, low \in Low, sn \in Alnum \cup {NoSn} :
       \E oui \in IF typed THEN {Oui} ELSE Stack :
         /\ new' = [oui |-> oui, low |-> low, sn |-> sn]
         /\ Begin("mac", new', typed)
  /\ UNCHANGED <<chip, open, gaveUp>>

\* Mutant: the status of m25p_write_enable is not looked at.
WriteEnableUnchecked ==
  /\ pc = "wren"
  /\ wel' \in {wel, wel \/ busy = "none"} /\ pc' = "op"
  /\ UNCHANGED <<flash, busy, given, job, new, ok, open, told>>

\* m25p_write_enable.  A command that fails on the SPI does not reach the chip.
WriteEnable ==
  /\ pc = "wren"
  /\ \/ wel' = (wel \/ busy = "none") /\ pc' = "op" /\ UNCHANGED ok
     \/ pc' = "wrdi" /\ ok' = FALSE /\ UNCHANGED wel
  /\ UNCHANGED <<flash, busy, given, job, new, open, told>>

\* What the chip has of the data after an error on the SPI: all, or the bytes
\* sent before.
Sent == {new, [new EXCEPT !["low"] = Bit]}

\* m25p_page_program or m25p_sector_erase.  The chip takes it when it is idle
\* and the latch is set.  After an error it may have taken it or not.
Operation ==
  /\ pc = "op"
  /\ \E good \in BOOLEAN, taken \in BOOLEAN :
       /\ good => taken
       /\ ok' = good
       /\ IF taken /\ busy = "none" /\ wel
          THEN busy' = job /\ given' \in (IF good THEN {new} ELSE Sent)
          ELSE UNCHANGED <<busy, given>>
  /\ pc' = "wrdi"
  /\ UNCHANGED <<flash, wel, job, new, open, told>>

\* Mutant: nothing is done about the latch when the command failed.
WriteDisableOnSuccess ==
  /\ pc = "wrdi"
  /\ wel' = (wel /\ (busy # "none" \/ ~ok))
  /\ pc' = "wait"
  /\ UNCHANGED <<flash, busy, given, job, new, ok, open, told>>

\* m25p_write_disable, its status ignored
WriteDisable ==
  /\ pc = "wrdi"
  /\ \/ wel' = (wel /\ busy # "none") /\ open' = (open /\ wel')
     \/ open' = wel /\ UNCHANGED wel
  /\ pc' = "wait"
  /\ UNCHANGED <<flash, busy, given, job, new, ok, told>>

\* What follows a job: the serial number after the MAC address, which is not
\* used again, else the prompt.
FollowedBy(after) ==
  IF job = "mac"
  THEN /\ pc' = "wren" /\ job' = "sn" /\ ok' = TRUE
       /\ plan' = [after EXCEPT !["sn"] =
                     IF busy = "none" /\ after["sn"] = Bit THEN new["sn"] ELSE Unknown]
       /\ stored' = [after EXCEPT !["sn"] = Unknown]
       /\ new' = [ALL EXCEPT !["sn"] = new["sn"]]
  ELSE pc' = "prompt" /\ job' = "none" /\ ok' = TRUE /\ new' = ALL
       /\ stored' = after /\ plan' = ALL

\* Mutant: the wait has no end.
GiveUpNever == FALSE /\ UNCHANGED vars

\* ext_flash_wait_for_ready returns M25P_SUCCESS.  The messages are left out:
\* those of `E' are the wrong way round.
Ready ==
  /\ pc = "wait" /\ busy = "none"
  /\ gaveUp' = FALSE
  /\ FollowedBy(IF ok THEN plan ELSE stored)
  /\ UNCHANGED <<chip, open>>

\* ext_flash_wait_for_ready gives up, because the chip is busy or the status
\* register cannot be read.
GiveUp ==
  /\ pc = "wait"
  /\ gaveUp' = TRUE
  /\ FollowedBy(stored)
  /\ UNCHANGED <<chip, open>>

Firmware == WriteEnable \/ Operation \/ WriteDisable \/ Ready \/ GiveUp

Next == ChipDone \/ PowerLoss \/ CommandErase \/ CommandSet \/ Firmware

\* The firmware goes on; the chip may hang, the user may leave.
Spec == Init /\ [][Next]_vars /\ WF_vars(Firmware)

-----------------------------------------------------------------------------
(* Properties. *)

Content == [Field -> SUBSET Bit]
History == [Field -> (SUBSET Bit) \cup {Unknown}]

TypeOK ==
  /\ flash \in Content /\ given \in Content /\ new \in Content
  /\ wel \in BOOLEAN /\ ok \in BOOLEAN /\ open \in BOOLEAN /\ gaveUp \in BOOLEAN
  /\ busy \in {"none", "erase", "mac", "sn"} /\ job \in {"none", "erase", "mac", "sn"}
  /\ pc \in {"prompt", "wren", "op", "wrdi", "wait"}
  /\ (job = "none") = (pc = "prompt")
  /\ stored \in History /\ plan \in History

\* What was typed after an erase, and was reported as SUCCESS and waited for,
\* is in the flash, through power losses at any moment and whatever happens
\* to the other field.  If the board started now it would have the address
\* and the serial number that were stored last, or the defaults when nothing
\* was stored since the sector was erased.
SetupSurvives ==
  LET b == Boot(flash) IN
  /\ TypeOK
  /\ \A f \in Field : stored[f] # Unknown => flash[f] = stored[f]
  /\ stored["oui"] = Oui /\ stored["low"] # Unknown => b["low"] = stored["low"]
  /\ stored["oui"] = Bit => b["low"] = Default
  /\ stored["sn"] \in Alnum => b["sn"] = stored["sn"]
  /\ stored["sn"] \in {Bit, NoSn} => b["sn"] = NoSn

\* The firmware and the chip stay in step, although m25p_write_disable is
\* sent while the chip still works and takes no command, and nothing is
\* waited for before m25p_write_enable.  Between commands the latch is set
\* only while the chip works or after a m25p_write_disable that failed on the
\* SPI; an erase or a program is ignored only if the wait for the job before
\* it was given up.
ChipInStep ==
  /\ pc = "prompt" /\ busy = "none" /\ wel => open
  /\ pc = "op" /\ busy # "none" => gaveUp

\* Every command comes back to the prompt, even if the chip never does.
CommandEnds == pc # "prompt" ~> pc = "prompt"
=============================================================================
