------------------------------- MODULE MCOta -------------------------------
(***************************************************************************)
(* A test bench for the updates, which share no state: the pipeline of     *)
(* ota_manager.c ("pipeline"), the slot metadata of ab_partition.c         *)
(* ("metadata"), the record of a download, resume_transfer.c ("download"), *)
(* the boot loader of the M7 ("boot"), the upgrade of the gauge,           *)
(* bms_upgrade.c ("gauge"), the difference of two images, diff_upgrade.c   *)
(* ("diff") and the boot variables of the RK3566, rk_boot.c ("env").       *)
(* Which of them runs is chosen at the start.                              *)
(***************************************************************************)
EXTENDS Integers

CONSTANTS
  Caller, Target, Provisioned, MaxRuns, OtaRestarts,              \* pipeline
  AB_MAX_FAIL_COUNT, CrcMod, MaxFails, AbBoots, AbRestarts,       \* metadata
  Size, RESUME_MAX_ATTEMPTS, MaxChanges, MaxUnsaved,              \* download
  CanFail, MaxStagings,                                           \* boot
  Blocks, UPGRADE_TIMEOUT, MAX_RETRIES, MaxGap,                   \* gauge
  Byte, MaxSize, SaCounters, DIFF_MIN_MATCH,                      \* diff
  MaxAttempts, MaxUpgrades, MaxBoots                              \* env

VARIABLES setup,
          state, pc, work, job, target, staged, part, flag, kept, running, up, rolled,
          runs, restarts,
          g_initialized, g_meta, file, since, streak, ab_restarts,
          ctx, record, saving, offered, stored, starts, unsaved,
          flash, ota_flag, boot_pc, at, image, stagings, tried,
          upg_phase, start_age, sent, retries, computed_ok, whole, rom, gauge, busy_for,
          upg_gap,
          old, new, stage, scan, last_scan, last_match, ctrl, delta, ctrl_ptr, old_pos,
          result,
          env, slot, rk_up, good, marking, confirmed, activated, boots, upgrades

Ota    == INSTANCE OtaManager WITH Corrupts <- FALSE, MaxRestarts <- OtaRestarts
Ab     == INSTANCE AbPartition WITH
            MaxBoots <- AbBoots, MaxRestarts <- AbRestarts, restarts <- ab_restarts
Image  == INSTANCE OtaImage
Boot   == INSTANCE M7Boot
Gauge  == INSTANCE BmsUpgrade WITH image <- gauge
Rk     == INSTANCE RkBoot WITH up <- rk_up

(* Nothing in the repository calls ota_run_pipeline; here one thread does. *)
(* With two of them FlashedWasVerified does not hold.                      *)
ASSUME SetupAssumption ==
  /\ \E t \in Caller : Caller = {t}
  /\ Ota!OtaAssumption /\ Ab!AbAssumption /\ Image!ImageAssumption
  /\ Boot!BootAssumption /\ Gauge!UpgradeAssumption /\ Rk!RkBootAssumption

otavars    == <<state, pc, work, job, target, staged, part, flag, kept, running, up, rolled,
                runs, restarts>>
abvars     == <<g_initialized, g_meta, file, since, streak, ab_restarts>>
resumevars == <<ctx, record, saving, offered, stored, starts, unsaved>>
bootvars   == <<flash, ota_flag, boot_pc, at, image, stagings, tried>>
gaugevars  == <<upg_phase, start_age, sent, retries, computed_ok, whole, rom, gauge,
                busy_for, upg_gap>>
diffvars   == <<old, new, stage, scan, last_scan, last_match, ctrl, delta, ctrl_ptr,
                old_pos, result>>
rkvars     == <<env, slot, rk_up, good, marking, confirmed, activated, boots, upgrades>>
vars       == <<setup, otavars, abvars, resumevars, bootvars, gaugevars, diffvars, rkvars>>

Init == /\ setup \in {"pipeline", "metadata", "download", "boot", "gauge", "diff", "env"}
        /\ Ota!Init /\ Ab!Init /\ Image!Init /\ Boot!Init /\ Gauge!Init /\ Rk!Init
        /\ setup # "diff" => old = <<CHOOSE b \in Byte : TRUE>> /\ new = <<>>

(* What is not set up stays as it is.                                      *)
Parked ==
  /\ UNCHANGED setup
  /\ setup # "pipeline" => UNCHANGED otavars
  /\ setup # "metadata" => UNCHANGED abvars
  /\ setup # "download" => UNCHANGED resumevars
  /\ setup # "boot" => UNCHANGED bootvars
  /\ setup # "gauge" => UNCHANGED gaugevars
  /\ setup # "diff" => UNCHANGED diffvars
  /\ setup # "env" => UNCHANGED rkvars

Next ==
  \/ setup = "pipeline" /\ Ota!Next /\ Parked
  \/ setup = "metadata" /\ Ab!Next /\ Parked
  \/ setup = "download" /\ Image!ResumeNext /\ Parked
  \/ setup = "boot" /\ Boot!Next /\ Parked
  \/ setup = "gauge" /\ Gauge!Next /\ Parked
  \/ setup = "diff" /\ Image!DiffNext /\ Parked
  \/ setup = "env" /\ Rk!Next /\ Parked

Spec == Init /\ [][Next]_vars

-----------------------------------------------------------------------------
(* Every variable of these modules but the difference's stays in its type.  *)
TypeOK ==
  /\ Ota!TypeOK /\ Ab!TypeOK /\ Image!TypeOK /\ Boot!TypeOK /\ Gauge!TypeOK /\ Rk!TypeOK

(* ota_flash only writes an image whose digest was checked, whatever       *)
(* failed or was interrupted before; until a rollback it never writes the  *)
(* slot the system runs from, and a power loss at any point of the         *)
(* pipeline leaves a boot flag that names a whole image.  The boot loader  *)
(* only touches itself and the application for an image that passes; and   *)
(* an upgrade of the gauge only succeeds when the gauge has every block as *)
(* it was sent.                                                            *)
ImagesHold ==
  /\ Ota!FlashedWasVerified /\ Ota!RunningSlotUntouched /\ Ota!NextBootIsWhole
  /\ Boot!EraseNeedsProof /\ Gauge!SuccessIsWhole

(* The index of the old image that diff_upgrade.c searches is sorted,      *)
(* whatever repeats in it, and sorting it keeps to the counters of the     *)
(* sort unless it has more bytes than those; a patch made here is never    *)
(* refused here, gives an image of the announced size, and an unchanged    *)
(* image survives it.                                                      *)
PatchesApply ==
  /\ Image!PatchTypeOK /\ Image!OverrunsOnlyLarge /\ Image!SuffixesAreSorted
  /\ Image!OwnPatchApplies

(* The records say what happened: fail_count of ab_partition.c counts the  *)
(* failures in a row of the active slot, and the bitmap and the count of   *)
(* resume_transfer.c agree and only name blocks that were received, in     *)
(* memory and, after a crash in the middle of a save, on file; and an      *)
(* upgrade that was confirmed is not counted as a trial any more.          *)
RecordsHold ==
  /\ Ab!CountsActiveSlot
  /\ Image!CompleteIsNothingMissing /\ Image!ReceivedIsStored
  /\ Rk!ConfirmedStays

(* The attempts of an update have an end: those of a download over all     *)
(* restarts, but for the saves that could not open the file; those of the  *)
(* boot loader; and the time of the gauge.                                 *)
AttemptsBounded ==
  [][Image!AttemptsBounded /\ Boot!AttemptedOnce' /\ Gauge!BusyTimeBounded']_vars
=============================================================================
