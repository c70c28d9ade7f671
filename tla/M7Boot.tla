------------------------------- MODULE M7Boot -------------------------------
(***************************************************************************)
(* The boot loader of the M7, l1_m7/Core/bootloader.  The flash is a       *)
(* function of its first ten pages of 64 KB; two pages make a sector of    *)
(* 128 KB, which is what can be erased.  The boot loader is on page 0, the *)
(* application begins on page 1 and the staging area on page 2: both are 8 *)
(* pages long.  An application that is itself on page 1 only survives that *)
(* a new image is staged.                                                  *)
(***************************************************************************)
EXTENDS Integers

CONSTANTS
  CanFail,        \* may an erase fail for good by itself?
  MaxStagings     \* bound: how often an image is staged

BootAssumption == CanFail \in BOOLEAN /\ MaxStagings \in Nat \ {0}

VARIABLES
  flash,          \* page -> what is there
  ota_flag,       \* the word at SRAM2_BASE
  boot_pc, at,    \* where main() is, and its page of the application
  image,          \* the staged image: "good", "bad" or "aligned"
  stagings, tried \* bound; history: has it passed the verification?

vars == <<flash, ota_flag, boot_pc, at, image, stagings, tried>>

Sized(i, p) == [img |-> i, part |-> p]
Erased == Sized("erased", 0)
App == 1..8                                  \* APP_FLASH_BASE, APP_FLASH_SIZE
Staging == 2..9                              \* STAGING_BASE, STAGING_SIZE
PageOf(sector) == {2 * sector, 2 * sector + 1}

Init == /\ flash = [p \in 0..9 |-> CASE p = 0 -> Sized("loader", 0)
                                     [] p = 1 -> Sized("old", 1) [] OTHER -> Erased]
        /\ ota_flag = FALSE /\ boot_pc = "app" /\ at = 1 /\ image = "good"
        /\ stagings = 0 /\ tried = FALSE

(* External: the application stages an image, sets the flag and resets.    *)
Stage ==
  /\ boot_pc = "app" /\ stagings < MaxStagings
  /\ flash' = [p \in 0..9 |-> IF p \in Staging THEN Sized("new", p - 1) ELSE flash[p]]
  /\ image' \in {"good", "bad", "aligned"} /\ stagings' = stagings + 1
  /\ ota_flag' = TRUE /\ boot_pc' = "reset" /\ tried' = FALSE /\ UNCHANGED at

(* A reset at any point; the word in SRAM2 is lost with the power only.    *)
Reset == /\ boot_pc' = IF flash[0] = Erased THEN "stuck" ELSE "reset"
         /\ ota_flag' \in {ota_flag, FALSE}
         /\ UNCHANGED <<flash, at, image, stagings, tried>>

(* main() reads the flag.                                                  *)
Main == /\ boot_pc = "reset"
        /\ boot_pc' = IF ota_flag THEN "verify" ELSE "done"
        /\ UNCHANGED <<flash, ota_flag, at, image, stagings, tried>>

(* Mutant: the digest is not compared.                                     *)
Passes_m == TRUE
Passes == image = "good"

(* boot_verify_image.  When the hashed length is a multiple of 64, the     *)
(* padding is written behind the buffer (boot_verify.c:175), onto its own  *)
(* length: the rest is undefined, it may also end in a hard fault.         *)
Verify ==
  /\ boot_pc = "verify" /\ at' = 1
  /\ \/ Passes /\ boot_pc' = "erase" /\ tried' = (image = "good")
     \/ ~Passes /\ boot_pc' = "done" /\ tried' = tried
     \/ image = "aligned" /\ boot_pc' = "stuck" /\ tried' = tried
  /\ UNCHANGED <<flash, ota_flag, image, stagings>>

(* boot_flash_erase_region: the sectors of the pages 1, 3, 5 and 7, so     *)
(* that page 8 keeps its contents and page 0 does not.  After              *)
(* FLASH_RETRY_COUNT attempts the region is given up.  (Nothing calls      *)
(* flash_config_option_bytes, which would protect the sectors 0 and 1.)    *)
Erase ==
  /\ boot_pc = "erase"
  /\ \/ /\ flash' = [p \in 0..9 |-> IF p \in PageOf(at \div 2) THEN Erased ELSE flash[p]]
        /\ at' = IF at + 2 \in App THEN at + 2 ELSE 1
        /\ boot_pc' = IF at + 2 \in App THEN "erase" ELSE "copy"
     \/ CanFail /\ boot_pc' = "done" /\ UNCHANGED <<flash, at>>
  /\ UNCHANGED <<ota_flag, image, stagings, tried>>

(* boot_flash_write_region, a page at a time: what was not erased reads    *)
(* back as something else.                                                 *)
Write ==
  /\ boot_pc = "copy"
  /\ IF flash[at] = Erased \/ flash[at] = flash[at + 1]
     THEN /\ flash' = [flash EXCEPT ![at] = flash[at + 1]]
          /\ at' = IF at + 1 \in App THEN at + 1 ELSE at
          /\ boot_pc' = IF at + 1 \in App THEN "copy" ELSE "done"
     ELSE boot_pc' = "done" /\ UNCHANGED <<flash, at>>
  /\ UNCHANGED <<ota_flag, image, stagings, tried>>

(* The code that runs lies on page 0: without it, it goes on from a cache  *)
(* at best.                                                                *)
Lost == /\ boot_pc \in {"erase", "copy", "done"} /\ flash[0] = Erased /\ boot_pc' = "stuck"
        /\ UNCHANGED <<flash, ota_flag, at, image, stagings, tried>>

(* Mutant: the flag is kept when the update failed, for another attempt.   *)
Cleared_m == boot_pc = "done" /\ ota_flag' = (ota_flag /\ flash[1].img # "new")
(* Whatever the result is, the flag is cleared.                            *)
Cleared == boot_pc = "done" /\ ota_flag' = FALSE

(* boot_jump_to_app looks at the stack and the reset vector.               *)
Jump == /\ Cleared
        /\ boot_pc' = IF flash[1] = Erased THEN "stuck" ELSE "app"
        /\ UNCHANGED <<flash, at, image, stagings, tried>>

Next == Stage \/ Reset \/ Main \/ Verify \/ Erase \/ Write \/ Lost \/ Jump
Spec == Init /\ [][Next]_vars
-----------------------------------------------------------------------------
TypeOK == /\ flash \in [0..9 -> [img : {"loader", "old", "new", "erased"}, part : 0..8]]
          /\ boot_pc \in {"app", "reset", "verify", "erase", "copy", "done", "stuck"}
          /\ {ota_flag, tried} \subseteq BOOLEAN /\ at \in App

(* The boot loader and the application, which an update erases first, are  *)
(* only touched for an image that passes, whatever was staged before and   *)
(* wherever a reset came.                                                  *)
EraseNeedsProof ==
  tried \/ (flash[0] = Sized("loader", 0) /\ flash[1] = Sized("old", 1))

(* An update is attempted once: no flag is left when the application runs. *)
AttemptedOnce == boot_pc = "app" => ~ota_flag

(* boot_main.c:15, "If verification passes, copy staging -> app flash":    *)
(* when main() is done with the image, the application is the staged one.  *)
VerifiedIsCopied ==
  tried /\ ota_flag /\ boot_pc = "done" => \A p \in App : flash[p] = Sized("new", p)
=============================================================================
