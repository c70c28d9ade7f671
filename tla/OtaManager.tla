----------------------------- MODULE OtaManager -----------------------------
(***************************************************************************)
(* The update pipeline of l2_rk3566/src/ota/ota_manager.c: its steps, the  *)
(* state they claim under the lock, the staging file, the two partitions,  *)
(* the boot flag, rollback, and restarts at any point.  Which slot the     *)
(* bootloader starts is external: the one the boot flag names.             *)
(***************************************************************************)
EXTENDS Integers, FiniteSets

CONSTANTS
  Caller,       \* threads that call ota_run_pipeline
  Target,       \* targets a manifest may name, of {"rk", "h747"}
  Provisioned,  \* the device leaves the factory with a boot flag
  Corrupts,     \* a partition write may damage data without an error
  MaxRuns,      \* bound: pipelines started
  MaxRestarts   \* bound: reboots and power losses

OtaAssumption ==
  /\ Target \subseteq {"rk", "h747"}
  /\ Provisioned \in BOOLEAN /\ Corrupts \in BOOLEAN
  /\ MaxRuns \in Nat /\ MaxRestarts \in Nat

Slot == {0, 1}
Step == {"check", "download", "verify", "flash", "post", "setflag", "reboot"}

(* An image by its first blocks and its last one.                          *)
Part  == {"old", "new", "bad"}
Image == [head : Part, tail : Part]
Old   == [head |-> "old", tail |-> "old"]
New   == [head |-> "new", tail |-> "new"]
Torn  == [head |-> "bad", tail |-> "bad"]
Hurt  == [head |-> "bad", tail |-> "new"]
Whole(i) == i \in {Old, New}

Flag(slot, ok) == [slot |-> slot, ok |-> ok]
NoFlag == Flag(0, "unreadable")

VARIABLES
  state,             \* g_ota.state
  pc,                \* the step each caller is at, or "out", "rollback"
  work,              \* how far it is in it: "no", "in", "writing"
  job,               \* what it writes where: a local of ota_flash
  target,            \* g_ota.target
  staged,            \* OTA_STAGING_PATH
  part,              \* the two partitions
  flag,              \* OTA_BOOT_FLAG_PATH
  kept,              \* what a power loss may leave of it
  running,           \* the slot the system was started from
  up,                \* ota_init has run
  rolled,            \* history: ota_rollback was called
  runs, restarts     \* counted against the bounds

disk   == <<staged, part, flag, kept>>
system == <<running, up, restarts>>
vars   == <<state, pc, work, job, target, disk, system, rolled, runs>>

NoJob == [dev |-> 0, fw |-> Torn]

Init ==
  /\ state = "IDLE" /\ target = "rk"
  /\ pc = [t \in Caller |-> "out"] /\ work = [t \in Caller |-> "no"]
  /\ job = [t \in Caller |-> NoJob]
  /\ staged = Torn /\ part = [s \in Slot |-> Old]
  /\ flag = IF Provisioned THEN Flag(0, "yes") ELSE NoFlag
  /\ kept = {flag} /\ running = 0 /\ up = FALSE /\ rolled = FALSE
  /\ runs = 0 /\ restarts = 0

-----------------------------------------------------------------------------
(* The pipeline: what follows a step, and what follows its failure.        *)

\* Mutant: the image is flashed as it was downloaded.
NextStep_m(s) ==
  CASE s = "check" -> "download" [] s = "download" -> "flash"
    [] s = "verify" -> "flash" [] s = "flash" -> "post"
    [] s = "post" -> "setflag" [] s = "setflag" -> "reboot"

NextStep(s) ==
  CASE s = "check" -> "download" [] s = "download" -> "verify"
    [] s = "verify" -> "flash" [] s = "flash" -> "post"
    [] s = "post" -> "setflag" [] s = "setflag" -> "reboot"

AfterFailure(s) == IF s \in {"verify", "flash", "post"} THEN "rollback" ELSE "out"

Go(t, next) == /\ pc' = [pc EXCEPT ![t] = next]
               /\ work' = [work EXCEPT ![t] = "no"]

Succeed(t) == state' = "IDLE" /\ Go(t, NextStep(pc[t]))
Fail(t)    == state' = "ERROR" /\ Go(t, AfterFailure(pc[t]))
Leave(t)   == UNCHANGED state /\ Go(t, AfterFailure(pc[t]))  \* early return

ota_run_pipeline(t) ==
  /\ up /\ pc[t] = "out" /\ runs < MaxRuns
  /\ runs' = runs + 1
  /\ Go(t, "check")
  /\ UNCHANGED <<state, job, target, disk, system, rolled>>

Claimed(s) ==
  CASE s = "check" -> "CHECKING" [] s = "download" -> "DOWNLOADING"
    [] s = "verify" -> "VERIFYING" [] s = "flash" -> "FLASHING"
    [] s = "post" -> "POST_VERIFY"

Free(s) == (state = "IDLE") \/ (s = "check" /\ state = "ERROR")

(* The first lines of a step: claim the state, or return -EBUSY.           *)
Claim(t) ==
  /\ pc[t] \in {"check", "download", "verify", "flash", "post"} /\ work[t] = "no"
  /\ IF Free(pc[t])
     THEN /\ state' = Claimed(pc[t])
          /\ work' = [work EXCEPT ![t] = "in"]
          /\ UNCHANGED pc
     ELSE Leave(t)
  /\ UNCHANGED <<job, target, disk, system, rolled, runs>>

In(t, s) == pc[t] = s /\ work[t] = "in"

ota_check_version(t) ==
  /\ In(t, "check")
  /\ \/ Succeed(t) /\ target' \in Target
     \/ Fail(t) /\ UNCHANGED target
  /\ UNCHANGED <<job, disk, system, rolled, runs>>

ota_download(t) ==
  /\ In(t, "download")
  /\ \/ Succeed(t) /\ staged' \in {New, Hurt}
     \/ Fail(t) /\ UNCHANGED staged            \* out of memory, no answer
     \/ Leave(t) /\ staged' \in {staged, Torn} \* -EIO: open or short write
  /\ UNCHANGED <<job, target, part, flag, kept, system, rolled, runs>>

(* The digest and the manifest come from stubs; what is right may fail.    *)
ota_verify(t) ==
  /\ In(t, "verify")
  /\ \/ staged = New /\ Succeed(t)
     \/ Fail(t)
  /\ UNCHANGED <<job, target, disk, system, rolled, runs>>

Flip(s) == 1 - s

\* Mutant: the partition the flag names is written.
Device_m == IF flag.ok = "yes" THEN flag.slot ELSE 1

(* The partition that ota_flash and ota_post_verify work on.               *)
Device == IF flag.ok = "yes" THEN Flip(flag.slot) ELSE 1

(* Read the staging file and open the partition.                           *)
FlashOpen(t) ==
  /\ In(t, "flash")
  /\ \/ /\ target = "rk"
        /\ work' = [work EXCEPT ![t] = "writing"]
        /\ job' = [job EXCEPT ![t] = [dev |-> Device, fw |-> staged]]
        /\ part' = [part EXCEPT ![Device] = Torn]
        /\ UNCHANGED <<state, pc>>
     \/ target = "rk" /\ Fail(t) /\ UNCHANGED <<job, part>>
     \/ target = "h747" /\ Succeed(t) /\ UNCHANGED <<job, part>>
     \/ Leave(t) /\ UNCHANGED <<job, part>>    \* -EIO, -ENOMEM
  /\ UNCHANGED <<target, staged, flag, kept, system, rolled, runs>>

(* The partition is a block device: what was written is on it when fclose  *)
(* returns, because the kernel writes back its buffers at the last close   *)
(* (external); an error that comes up there is damage that nobody reports. *)
FlashWrite(t) ==
  /\ pc[t] = "flash" /\ work[t] = "writing"
  /\ \/ Fail(t) /\ UNCHANGED part
     \/ /\ Succeed(t)
        /\ \E i \in IF Corrupts THEN {job[t].fw, Hurt} ELSE {job[t].fw} :
             part' = [part EXCEPT ![job[t].dev] = i]
  /\ job' = [job EXCEPT ![t] = NoJob]
  /\ UNCHANGED <<target, staged, flag, kept, system, rolled, runs>>

(* compute_file_crc32 and the loop over the partition keep the CRC of the  *)
(* last block only.                                                        *)
SameCrc(i, j) == i.tail = j.tail

ota_post_verify(t) ==
  /\ In(t, "post")
  /\ \/ SameCrc(staged, part[Device]) /\ Succeed(t)
     \/ Fail(t)
  /\ UNCHANGED <<job, target, disk, system, rolled, runs>>

(* write_boot_flag; nobody looks at its result.  The flag is a file, and   *)
(* nothing brings it to the disk before the sync of ota_reboot.            *)
WriteFlag(new) == /\ flag' \in {flag, NoFlag, new}
                  /\ kept' = kept \cup {NoFlag, flag'}

NewSlot == IF flag.ok = "unreadable" THEN 0 ELSE Flip(flag.slot)

ota_set_boot_flag(t) ==
  /\ pc[t] = "setflag"
  /\ IF state = "IDLE"
     THEN /\ state' = "SET_BOOT_FLAG"
          /\ WriteFlag(Flag(NewSlot, "yes"))
          /\ Go(t, "reboot")
     ELSE Leave(t) /\ UNCHANGED <<flag, kept>>
  /\ UNCHANGED <<job, target, staged, part, system, rolled, runs>>

\* Mutant: after a reboot that did not happen the manager is idle again.
ota_reboot_m(t) ==
  /\ pc[t] = "reboot"
  /\ state' = "IDLE"
  /\ kept' = {flag} /\ Go(t, "out")
  /\ UNCHANGED <<job, target, staged, part, flag, system, rolled, runs>>

(* system("reboot") may fail; if not, Reboot follows.                      *)
ota_reboot(t) ==
  /\ pc[t] = "reboot"
  /\ state' = "REBOOTING"
  /\ kept' = {flag} /\ Go(t, "out")
  /\ UNCHANGED <<job, target, staged, part, flag, system, rolled, runs>>

(* ota_rollback: the state is set without looking at it, and set to idle   *)
(* without the lock.                                                       *)
RollbackFlag == Flag(IF flag.ok = "unreadable" THEN 1 ELSE Flip(flag.slot), "no")

RollbackBegin(t) ==
  /\ pc[t] = "rollback" /\ work[t] = "no"
  /\ state' = "ROLLBACK"
  /\ work' = [work EXCEPT ![t] = "in"]
  /\ UNCHANGED <<pc, job, target, disk, system, rolled, runs>>

RollbackEnd(t) ==
  /\ In(t, "rollback")
  /\ state' = "IDLE"
  /\ WriteFlag(RollbackFlag)
  /\ Go(t, "out")
  /\ rolled' = TRUE
  /\ UNCHANGED <<job, target, staged, part, system, runs>>

-----------------------------------------------------------------------------
SlotOf(f) == IF f.ok = "unreadable" THEN 0 ELSE f.slot

(* A reboot, wanted or not: what was not brought to the disk may be lost.  *)
Reboot ==
  /\ restarts < MaxRestarts
  /\ restarts' = restarts + 1
  /\ flag' \in kept /\ kept' = {flag'}
  /\ running' = SlotOf(flag')
  /\ up' = FALSE
  /\ state' = "IDLE" /\ target' = "rk"
  /\ pc' = [t \in Caller |-> "out"] /\ work' = [t \in Caller |-> "no"]
  /\ job' = [t \in Caller |-> NoJob]
  /\ UNCHANGED <<staged, part, rolled, runs>>

ota_init ==
  /\ ~up
  /\ up' = TRUE
  /\ IF flag.ok = "no" THEN WriteFlag(RollbackFlag) /\ rolled' = TRUE
                       ELSE UNCHANGED <<flag, kept, rolled>>
  /\ state' = "IDLE"
  /\ UNCHANGED <<pc, work, job, target, staged, part, running, restarts, runs>>

Pipeline(t) ==
  \/ ota_run_pipeline(t) \/ Claim(t)
  \/ ota_check_version(t) \/ ota_download(t) \/ ota_verify(t)
  \/ FlashOpen(t) \/ FlashWrite(t) \/ ota_post_verify(t)
  \/ ota_set_boot_flag(t) \/ ota_reboot(t)
  \/ RollbackBegin(t) \/ RollbackEnd(t)

Next == ota_init \/ Reboot \/ \E t \in Caller : Pipeline(t)

Spec == Init /\ [][Next]_vars

-----------------------------------------------------------------------------
(* Properties.                                                             *)

(* Every variable stays in its type.                                       *)
TypeOK ==
  /\ state \in {"IDLE", "CHECKING", "DOWNLOADING", "VERIFYING", "FLASHING",
                "POST_VERIFY", "SET_BOOT_FLAG", "REBOOTING", "ROLLBACK", "ERROR"}
  /\ pc \in [Caller -> Step \cup {"out", "rollback"}]
  /\ work \in [Caller -> {"no", "in", "writing"}]
  /\ job \in [Caller -> [dev : Slot, fw : Image]]
  /\ target \in {"rk", "h747"} /\ staged \in Image /\ part \in [Slot -> Image]
  /\ kept \subseteq [slot : Slot, ok : {"yes", "no", "unreadable"}] /\ flag \in kept
  /\ running \in Slot /\ up \in BOOLEAN
  /\ rolled \in BOOLEAN /\ runs \in 0..MaxRuns /\ restarts \in 0..MaxRestarts

Writing(t) == work[t] = "writing"

(* Only an image whose digest was checked is written, whatever failed or   *)
(* was interrupted before.                                                 *)
FlashedWasVerified == \A t \in Caller : Writing(t) => job[t].fw = New

(* Until a rollback the system it runs from is never written to.           *)
RunningSlotUntouched ==
  ~rolled => \A t \in Caller : Writing(t) => job[t].dev # running

(* Until a rollback, and without silent damage, whatever a power loss      *)
(* leaves of the boot flag names a slot with a whole image, also while a   *)
(* new flag has not reached the disk.                                      *)
NextBootIsWhole == ~rolled => \A f \in kept : Whole(part[SlotOf(f)])

(* ota_manager.c:464, "Write to inactive partition".  NOT kept by the code:*)
(* once a rollback has left its flag, ota_flash takes slot B for the       *)
(* inactive one, also when the system runs from it.                        *)
WritesInactive == \A t \in Caller : Writing(t) => job[t].dev # running
=============================================================================
