------------------------------- MODULE RkBoot -------------------------------
(***************************************************************************)
(* rk_boot.c of l2_rk3566/src/bootloader: the variables U-Boot and the     *)
(* application share.  Both tools, fw_printenv and fw_setenv, can fail;    *)
(* then a read looks into the flash, and a write, whose other way is not   *)
(* written, fails.  U-Boot and the application that calls are external:    *)
(* they do what docs/design/ota_design.md tells of them.                   *)
(***************************************************************************)
EXTENDS Naturals, Sequences

CONSTANTS MaxAttempts,       \* boots of an upgrade before U-Boot goes back
          MaxUpgrades, MaxBoots      \* bound the model

RkBootAssumption == MaxAttempts \in Nat /\ MaxUpgrades \in Nat /\ MaxBoots \in Nat

VARIABLES
  env,           \* bootslot, bootcount, upgrade_available
  slot, up,      \* the slot that runs; the application is up
  good,          \* the slots whose system comes up
  marking,       \* rk_boot_mark_successful: "none" or between its writes
  confirmed,     \* history: the running upgrade was marked successful
  activated,     \* history: rk_boot_switch_slot returned 0 since the system came up
  boots, upgrades
rkvars == <<env, slot, up, good, marking, confirmed, activated, boots, upgrades>>

Slot == {"a", "b"}
Other(s) == IF s = "a" THEN "b" ELSE "a"

Init == /\ env = [bootslot |-> "a", bootcount |-> 0, upgrade_available |-> 0]
        /\ slot = "a" /\ up = TRUE /\ good = {"a"} /\ marking = "none"
        /\ confirmed = TRUE /\ activated = FALSE /\ boots = 0 /\ upgrades = 0

(* rk_boot_env_read: the line of fw_printenv, which is key=value, or what  *)
(* uboot_env_parse finds in the flash, the bare value, or nothing.  (The   *)
(* line is longer than the buffers of two callers; what it overwrites is   *)
(* not modelled.)                                                          *)
uboot_env_mtd_read(read) == read
uboot_env_parse(key) == env[key]
rk_boot_env_read(key, tool, flash) ==
  IF tool THEN <<key, env[key]>>
  ELSE IF uboot_env_mtd_read(flash) THEN <<uboot_env_parse(key)>> ELSE <<>>

(* The callers look for the value at the start of the text.                *)
Leading(text, otherwise) == IF Len(text) = 1 THEN text[1] ELSE otherwise

(* rk_boot_env_write: the tool, or nothing: the fallback reads the         *)
(* environment and returns -1.                                             *)
rk_boot_env_write(key, value, tool) ==
  env' = IF tool THEN [env EXCEPT ![key] = value] ELSE env

(* What cannot be read is slot a, no attempts and no upgrade.  A line of   *)
(* the tool starts with the name of its variable: that of the slot with a  *)
(* "b", the others with no number.                                         *)
rk_boot_get_slot(tool, flash) ==
  LET text == rk_boot_env_read("bootslot", tool, flash)
  IN IF Len(text) = 2 THEN "b" ELSE Leading(text, "a")
rk_boot_get_bootcount(tool, flash) ==
  Leading(rk_boot_env_read("bootcount", tool, flash), 0)
rk_boot_upgrade_available(tool, flash) ==
  Leading(rk_boot_env_read("upgrade_available", tool, flash), 0)

rk_boot_set_slot(s, tool) == s \in Slot /\ rk_boot_env_write("bootslot", s, tool)
rk_boot_set_bootcount(n, tool) == rk_boot_env_write("bootcount", n, tool)
rk_boot_set_upgrade_available(on, tool) == rk_boot_env_write("upgrade_available", on, tool)

(* rk_boot_switch_slot, whose result is that of the write: to slot a when  *)
(* the tool reads, whichever slot is selected, and to slot b when nothing  *)
(* can be read.                                                            *)
rk_boot_switch_slot(success) ==
  \E printenv, flash \in BOOLEAN :
    rk_boot_set_slot(Other(rk_boot_get_slot(printenv, flash)), success)

(* Mutant: the flag of the upgrade stays.                                  *)
Cleared_m(tool) == UNCHANGED env
Cleared(tool)   == rk_boot_set_upgrade_available(0, tool)

(* rk_boot_mark_successful: the count, and if that went well the flag.     *)
rk_boot_mark_successful ==
  /\ up
  /\ \/ /\ marking = "none" /\ ~confirmed
        /\ \E tool \in BOOLEAN :
             rk_boot_set_bootcount(0, tool) /\ marking' = IF tool THEN "flag" ELSE "none"
        /\ UNCHANGED confirmed
     \/ /\ marking = "flag" /\ marking' = "none"
        /\ \E tool \in BOOLEAN : Cleared(tool) /\ confirmed' = tool
  /\ UNCHANGED <<slot, up, good, activated, boots, upgrades>>

-----------------------------------------------------------------------------
\* external: the application and U-Boot

(* An upgrade of the other slot is staged: its flag and a new count first, *)
(* then the slot; the application reads back whether one is waiting.       *)
Stage ==
  /\ up /\ marking = "none" /\ upgrades < MaxUpgrades /\ confirmed
  /\ \E tool \in BOOLEAN :
       /\ rk_boot_set_upgrade_available(1, tool)
       /\ upgrades' = upgrades + 1
       /\ confirmed' = ~tool
  /\ good' \in {good, good \cup {Other(slot)}, good \ {Other(slot)}}
  /\ activated' = FALSE /\ UNCHANGED <<slot, up, marking, boots>>
Activate ==
  /\ up /\ marking = "none" /\ ~confirmed /\ ~activated
  /\ \E tool, flash \in BOOLEAN : rk_boot_upgrade_available(tool, flash) = 1
  /\ \E tool, flash \in BOOLEAN : rk_boot_get_bootcount(tool, flash) = 0
  /\ \E success \in BOOLEAN : rk_boot_switch_slot(success) /\ activated' = success
  /\ UNCHANGED <<slot, up, good, marking, confirmed, boots, upgrades>>

(* Power is lost, at any time.                                             *)
Crash == /\ boots < MaxBoots /\ up' = FALSE /\ marking' = "none"
         /\ boots' = boots + 1
         /\ activated' = FALSE /\ UNCHANGED <<env, slot, good, confirmed, upgrades>>

(* U-Boot counts the boots of an upgrade, and goes back to the other slot  *)
(* when there were too many.                                               *)
Boot ==
  /\ ~up
  /\ LET count == IF env.upgrade_available = 1 THEN env.bootcount + 1 ELSE env.bootcount
         back == env.upgrade_available = 1 /\ count > MaxAttempts
     IN /\ env' = IF back THEN [bootslot |-> Other(env.bootslot), bootcount |-> 0,
                                upgrade_available |-> 0]
                  ELSE [env EXCEPT !.bootcount = count]
        /\ confirmed' = (confirmed \/ back)
  /\ slot' = env'.bootslot
  /\ up' = (slot' \in good)
  /\ boots' = boots + (IF up' THEN 0 ELSE 1) /\ boots' <= MaxBoots
  /\ activated' = FALSE /\ UNCHANGED <<good, marking, upgrades>>

Next == rk_boot_mark_successful \/ Stage \/ Activate \/ Crash \/ Boot
Spec == Init /\ [][Next]_rkvars
-----------------------------------------------------------------------------
TypeOK ==
  /\ env \in [bootslot : Slot, bootcount : Nat, upgrade_available : {0, 1}]
  /\ slot \in Slot /\ up \in BOOLEAN /\ good \subseteq Slot
  /\ marking \in {"none", "flag"} /\ {confirmed, activated} \subseteq BOOLEAN

(* A system that was marked successful, with both writes, is never taken   *)
(* back by U-Boot, however often it starts after that; and one half of the *)
(* mark does not count as the whole.                                       *)
ConfirmedStays == confirmed /\ marking = "none" => env.upgrade_available = 0

(* rk_boot.c:383, 385, "Switch to the alternate boot slot. @return 0 on    *)
(* success": after that the next boot starts the slot that does not run.   *)
SwitchesSlot == activated => env.bootslot = Other(slot)
=============================================================================
