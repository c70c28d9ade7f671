----------------------------- MODULE BmsUpgrade -----------------------------
(***************************************************************************)
(* The upgrade of the gauge over SMBus, l1_m4/Core/bms/bms_upgrade.c.  The *)
(* gauge is external: it takes a block, tells the CRC of what it took, and *)
(* leaves its ROM mode when it is told to; a transfer may fail on the way  *)
(* there or on the way back, and a block may arrive damaged.               *)
(***************************************************************************)
EXTENDS Integers

CONSTANTS
  Blocks,                   \* blocks of the firmware
  UPGRADE_TIMEOUT,          \* UPGRADE_TIMEOUT_MS, in clock ticks
  MAX_RETRIES,              \* the 3 of UPGRADE_Task
  MaxGap                    \* bound: clock ticks between two calls of UPGRADE_Task

UpgradeAssumption == {Blocks, UPGRADE_TIMEOUT, MAX_RETRIES, MaxGap} \subseteq Nat \ {0}

VARIABLES
  upg_phase, start_age,     \* upg_.phase, age of upg_.start_tick
  sent,                     \* upg_.transferred_bytes, in blocks
  retries,                  \* upg_.retry_count
  computed_ok,              \* the blocks whose computed_crc is the expected one
  whole,                    \* is the length a multiple of UPGRADE_BLOCK_SIZE?
  rom, image,               \* the gauge: in ROM mode?  what each block holds
  busy_for, upg_gap         \* history: age of the upgrade; ticks since the last call

vars == <<upg_phase, start_age, sent, retries, computed_ok, whole, rom, image, busy_for,
          upg_gap>>

Phase == {"IDLE", "ENTER_ROM", "TRANSFER", "VERIFY", "EXIT_ROM", "COMPLETE", "FAILED"}
Busy == upg_phase \in {"ENTER_ROM", "TRANSFER", "VERIFY", "EXIT_ROM"}
BusyMax == 2 * (UPGRADE_TIMEOUT + MaxGap) + 1

(* UPGRADE_Init, on a gauge with its old firmware.                         *)
Init == /\ upg_phase = "IDLE" /\ start_age = 0 /\ sent = 0 /\ retries = 0
        /\ computed_ok = {} /\ whole = TRUE /\ rom = FALSE
        /\ image = [b \in 1..Blocks |-> "old"] /\ busy_for = 0 /\ upg_gap = 0

UPGRADE_Start ==
  /\ upg_phase = "IDLE" /\ upg_phase' = "ENTER_ROM" /\ start_age' = 0 /\ sent' = 0
  /\ retries' = 0 /\ whole' \in BOOLEAN /\ busy_for' = 0 /\ upg_gap' = 0
  /\ image' = [b \in 1..Blocks |-> "old"]     \* what it holds is now the old firmware
  /\ UNCHANGED <<computed_ok, rom>>

(* A failed transfer: the fourth ends the upgrade.                         *)
Retry ==
  /\ retries' = retries + 1
  /\ upg_phase' = IF retries + 1 > MAX_RETRIES THEN "FAILED" ELSE upg_phase
  /\ UNCHANGED <<start_age, sent, computed_ok, whole>>

(* The word may have reached the gauge although its write failed.          *)
EnterRom ==
  /\ upg_phase = "ENTER_ROM"
  /\ \/ Retry /\ rom' \in {rom, TRUE}
     \/ /\ rom' = TRUE /\ retries' = 0 /\ upg_phase' = "TRANSFER" /\ start_age' = 0
        /\ UNCHANGED <<sent, computed_ok, whole>>
  /\ UNCHANGED image

(* The last block of an odd length is padded, but expected_crc is that of  *)
(* the bytes without the padding.                                          *)
Matches(b, content) == content = "new" /\ (b < Blocks \/ whole)

Transfer ==
  LET b == sent + 1
      Took(content) == image' = [image EXCEPT ![b] = content]
  IN  /\ upg_phase = "TRANSFER" /\ UNCHANGED rom
      /\ \/ /\ sent = Blocks /\ upg_phase' = "VERIFY"
            /\ UNCHANGED <<start_age, sent, retries, computed_ok, whole, image>>
         \/ /\ sent < Blocks /\ Retry
            /\ Took("new") \/ Took("bad") \/ UNCHANGED image
         \/ /\ sent < Blocks /\ sent' = b /\ retries' = 0
            /\ \E content \in {"new", "bad"} :
                 /\ Took(content)
                 /\ computed_ok' = IF Matches(b, content) THEN computed_ok \cup {b}
                                   ELSE computed_ok \ {b}
            /\ UNCHANGED <<upg_phase, start_age, whole>>

(* Mutant: the last block is not compared.                                 *)
AllMatch_m == 1..Blocks - 1 \subseteq computed_ok

AllMatch == 1..Blocks \subseteq computed_ok

Verify == /\ upg_phase = "VERIFY"
          /\ upg_phase' = IF AllMatch THEN "EXIT_ROM" ELSE "FAILED"
          /\ UNCHANGED <<start_age, sent, retries, computed_ok, whole, rom, image>>

ExitRom == /\ upg_phase = "EXIT_ROM" /\ UNCHANGED image
           /\ \/ Retry /\ rom' \in {rom, FALSE}
              \/ /\ upg_phase' = "COMPLETE" /\ rom' = FALSE
                 /\ UNCHANGED <<start_age, sent, retries, computed_ok, whole>>

(* Mutant: only the way into the ROM mode has a time limit.                *)
TimedOut_m == start_age >= UPGRADE_TIMEOUT /\ upg_phase = "ENTER_ROM"

(* The time-out comes first, in every phase: also IDLE, of a module that   *)
(* has been called without an upgrade for that long.                       *)
TimedOut == start_age >= UPGRADE_TIMEOUT /\ upg_phase # "COMPLETE"

UPGRADE_Task ==
  /\ upg_gap' = 0 /\ UNCHANGED busy_for
  /\ IF TimedOut
     THEN upg_phase' = "FAILED"
          /\ UNCHANGED <<start_age, sent, retries, computed_ok, whole, rom, image>>
     ELSE EnterRom \/ Transfer \/ Verify \/ ExitRom

UPGRADE_Reset == /\ upg_phase # "IDLE"
                 /\ upg_phase' = "IDLE" /\ sent' = 0 /\ retries' = 0
                 /\ UNCHANGED <<start_age, computed_ok, whole, rom, image, busy_for, upg_gap>>

Tick == /\ Busy => upg_gap < MaxGap
        /\ upg_gap' = IF upg_gap < MaxGap THEN upg_gap + 1 ELSE upg_gap
        /\ start_age' = IF start_age < UPGRADE_TIMEOUT THEN start_age + 1 ELSE start_age
        /\ busy_for' = IF Busy /\ busy_for < BusyMax THEN busy_for + 1 ELSE busy_for
        /\ UNCHANGED <<upg_phase, sent, retries, computed_ok, whole, rom, image>>

Next == UPGRADE_Start \/ UPGRADE_Task \/ UPGRADE_Reset \/ Tick

Spec == Init /\ [][Next]_vars
-----------------------------------------------------------------------------
TypeOK == /\ upg_phase \in Phase /\ start_age \in 0..UPGRADE_TIMEOUT
          /\ sent \in 0..Blocks /\ retries \in 0..MAX_RETRIES + 1
          /\ computed_ok \subseteq 1..Blocks /\ {whole, rom} \subseteq BOOLEAN
          /\ image \in [1..Blocks -> {"old", "new", "bad"}]
          /\ busy_for \in 0..BusyMax /\ upg_gap \in 0..MaxGap

(* An upgrade that reports success has left the gauge out of its ROM mode  *)
(* with every block as it was sent, over lost transfers, damaged blocks    *)
(* and earlier attempts whose CRCs are still in the table; one whose last  *)
(* block is padded never does.                                             *)
SuccessIsWhole ==
  upg_phase = "COMPLETE" => ~rom /\ whole /\ \A b \in 1..Blocks : image[b] = "new"

(* bms_upgrade.c:9, "Timeout: 30 s total": it is taken anew once the ROM   *)
(* mode is entered, so the task is busy for twice that at most.            *)
BusyTimeBounded == Busy => busy_for <= 2 * (UPGRADE_TIMEOUT + MaxGap)
=============================================================================
