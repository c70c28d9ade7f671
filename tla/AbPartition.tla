---------------------------- MODULE AbPartition ----------------------------
(***************************************************************************)
(* The A/B metadata of l2_rk3566/src/ota/ab_partition.c: the active slot,  *)
(* its boot and failure counts, the switch after consecutive failures, and *)
(* the file that keeps them.  Writing the file may fail, be cut off by a   *)
(* power loss, or be followed by a restart of the process.                 *)
(***************************************************************************)
EXTENDS Integers

CONSTANTS
  AB_MAX_FAIL_COUNT,  \* consecutive failures before the switch (3)
  CrcMod,             \* number of values of the CRC kept in the model
  MaxFails,           \* bound: failures counted for one slot
  MaxBoots,           \* bound: boot attempts counted
  MaxRestarts         \* bound: restarts of the process

AbAssumption ==
  /\ AB_MAX_FAIL_COUNT \in Nat \ {0} /\ CrcMod \in Nat /\ CrcMod > 1
  /\ MaxFails \in Nat /\ MaxBoots \in Nat /\ MaxRestarts \in Nat

Slot == {0, 1}                    \* AB_SLOT_A, AB_SLOT_B

VARIABLES
  g_initialized,
  g_meta,      \* the metadata in RAM
  file,        \* AB_METADATA_PATH: how much of what was last written it holds
  since,       \* history: failures of the active slot in this process
  streak,      \* history: the same, over restarts
  restarts

vars == <<g_initialized, g_meta, file, since, streak, restarts>>

Default == [active_slot |-> 0, boot_count |-> 0, fail_count |-> 0,
            last_known_good_slot |-> 0, fails |-> [s \in Slot |-> 0], crc32 |-> 0]

(* ab_meta_compute_crc covers the crc32 field itself, so what it returns   *)
(* depends on what the field holds, and differs from it.                   *)
Crc(m) == (m.crc32 + 1) % CrcMod

Sealed(m) == [m EXCEPT !.crc32 = Crc(m)]

File(kind, m) == [kind |-> kind, meta |-> m]

(* ab_meta_save(m); no caller looks at its result.  The file is not        *)
(* opened, or truncated and written in part, or written.                   *)
ab_meta_save(m) ==
  /\ g_meta' = Sealed(m)
  /\ file' \in {file, File("short", Sealed(m)), File("full", Sealed(m))}

Loadable(m) == m.crc32 = Crc(m)

Usable(f) == f.kind = "full" /\ Loadable(f.meta)

Init ==
  /\ g_initialized = FALSE /\ g_meta = Default
  /\ file = File("absent", Default)
  /\ since = 0 /\ streak = 0 /\ restarts = 0

(* Every operation begins with ab_init, which returns at once the second   *)
(* time.                                                                   *)
ab_init ==
  /\ ~g_initialized
  /\ g_initialized' = TRUE
  /\ IF Usable(file)
     THEN g_meta' = file.meta /\ UNCHANGED file
     ELSE ab_meta_save(Sealed(Default))
  /\ since' = 0
  /\ UNCHANGED <<streak, restarts>>

Restart ==
  /\ restarts < MaxRestarts
  /\ restarts' = restarts + 1
  /\ g_initialized' = FALSE /\ g_meta' = Default
  /\ UNCHANGED <<file, since, streak>>

-----------------------------------------------------------------------------
Other(s) == 1 - s

(* The other slot becomes the active one, with counts of its own.          *)
Switched(m) == [m EXCEPT !.active_slot = Other(@), !.fail_count = 0, !.boot_count = 0]

ab_boot_attempt ==
  /\ g_initialized /\ g_meta.boot_count < MaxBoots
  /\ ab_meta_save([g_meta EXCEPT !.boot_count = @ + 1])
  /\ UNCHANGED <<g_initialized, since, streak, restarts>>

ab_boot_succeeded ==
  /\ g_initialized
  /\ ab_meta_save([g_meta EXCEPT !.fail_count = 0,
                                 !.last_known_good_slot = g_meta.active_slot])
  /\ since' = 0 /\ streak' = 0
  /\ UNCHANGED <<g_initialized, restarts>>

\* Mutant: one failure more than the limit.
OutOfTries_m(m) == m.fail_count > AB_MAX_FAIL_COUNT

OutOfTries(m) == m.fail_count >= AB_MAX_FAIL_COUNT

Charged(m) == [m EXCEPT !.fail_count = @ + 1, !.fails[m.active_slot] = @ + 1]

ab_boot_failed ==
  /\ g_initialized /\ g_meta.fails[g_meta.active_slot] < MaxFails
  /\ LET m == Charged(g_meta)
     IN  /\ ab_meta_save(IF OutOfTries(m) THEN Switched(m) ELSE m)
         /\ since'  = IF OutOfTries(m) THEN 0 ELSE since + 1
         /\ streak' = IF OutOfTries(m) THEN 0 ELSE streak + 1
  /\ UNCHANGED <<g_initialized, restarts>>

\* Mutant: the failures of the old slot stay on the new one's account.
ab_switch_slot_m ==
  /\ g_initialized
  /\ ab_meta_save([g_meta EXCEPT !.active_slot = Other(@)])
  /\ since' = 0 /\ streak' = 0
  /\ UNCHANGED <<g_initialized, restarts>>

ab_switch_slot ==
  /\ g_initialized
  /\ ab_meta_save(Switched(g_meta))
  /\ since' = 0 /\ streak' = 0
  /\ UNCHANGED <<g_initialized, restarts>>

ab_mark_bad(s) ==
  /\ g_initialized
  /\ IF s = g_meta.active_slot
     THEN /\ ab_meta_save(Switched(g_meta))
          /\ since' = 0 /\ streak' = 0
     ELSE /\ ab_meta_save(g_meta)
          /\ UNCHANGED <<since, streak>>
  /\ UNCHANGED <<g_initialized, restarts>>

ab_is_slot_bad(s) == g_meta.fails[s] >= AB_MAX_FAIL_COUNT

Next ==
  \/ ab_init \/ Restart \/ ab_boot_attempt \/ ab_boot_succeeded
  \/ ab_boot_failed \/ ab_switch_slot
  \/ \E s \in Slot : ab_mark_bad(s)

Spec == Init /\ [][Next]_vars

-----------------------------------------------------------------------------
(* Properties.                                                             *)

(* Every variable stays in its type; failures stay below the limit at      *)
(* which ab_boot_failed switches.                                          *)
Meta == [active_slot : Slot, boot_count : 0..MaxBoots,
         fail_count : 0..(AB_MAX_FAIL_COUNT - 1), last_known_good_slot : Slot,
         fails : [Slot -> 0..MaxFails], crc32 : 0..(CrcMod - 1)]

TypeOK ==
  /\ g_initialized \in BOOLEAN /\ g_meta \in Meta
  /\ file \in [kind : {"absent", "short", "full"}, meta : Meta]
  /\ since \in Nat /\ streak \in Nat
  /\ restarts \in 0..MaxRestarts

(* fail_count counts the failures of the active slot in a row, and nothing *)
(* else: not those of the other slot, not those before a success.          *)
CountsActiveSlot == g_initialized => g_meta.fail_count = since

(* docs/specs/ota_spec.md:37, "After 3 consecutive failures, the slot is   *)
(* marked BAD and the system switches to the other slot": the active slot  *)
(* never has that many failures behind it.  NOT kept by the code:          *)
(* ab_meta_load rejects every file that ab_meta_save wrote, so each        *)
(* restart starts to count afresh.                                         *)
FailoverAtLimit == streak < AB_MAX_FAIL_COUNT
=============================================================================
