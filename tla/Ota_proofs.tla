----------------------------- MODULE Ota_proofs -----------------------------
(***************************************************************************)
(* Proofs about the updates, for every value of the constants: each        *)
(* component has an inductive invariant that holds at the start ("Starts"),*)
(* is kept by every step ("GoesOn") and implies its properties ("Holds");  *)
(* at the end they are put together for the bench.                         *)
(***************************************************************************)
EXTENDS MCOta, FiniteSets, FiniteSetTheorems, FunctionTheorems, SequenceTheorems, TLAPS

-----------------------------------------------------------------------------
(* The pipeline.                                                           *)

OneCaller == \A s, t \in Caller : s = t

LEMMA Steps ==
  /\ Ota!NextStep("check") = "download" /\ Ota!NextStep("download") = "verify"
  /\ Ota!NextStep("verify") = "flash" /\ Ota!NextStep("flash") = "post"
  /\ Ota!NextStep("post") = "setflag" /\ Ota!NextStep("setflag") = "reboot"
  /\ Ota!Claimed("check") = "CHECKING" /\ Ota!Claimed("download") = "DOWNLOADING"
  /\ Ota!Claimed("verify") = "VERIFYING" /\ Ota!Claimed("flash") = "FLASHING"
  /\ Ota!Claimed("post") = "POST_VERIFY"
  BY Zenon DEF Ota!NextStep, Ota!Claimed

LEMMA Failures ==
  /\ Ota!AfterFailure("check") = "out" /\ Ota!AfterFailure("download") = "out"
  /\ Ota!AfterFailure("verify") = "rollback" /\ Ota!AfterFailure("flash") = "rollback"
  /\ Ota!AfterFailure("post") = "rollback" /\ Ota!AfterFailure("setflag") = "out"
  BY DEF Ota!AfterFailure

(* The images a partition or the staging file may hold.                    *)
LEMMA Images == /\ {Ota!Old, Ota!New, Ota!Torn, Ota!Hurt} \subseteq Ota!Image
                /\ Ota!Old # Ota!New /\ Ota!Old # Ota!Torn /\ Ota!New # Ota!Torn /\ Ota!New # Ota!Hurt
                /\ \A i \in {Ota!Old, Ota!New, Ota!Torn} : Ota!SameCrc(Ota!New, i) => i = Ota!New
  BY DEF Ota!Old, Ota!New, Ota!Torn, Ota!Hurt, Ota!Image, Ota!Part, Ota!SameCrc

(* The slot a boot would start, and the one an update is written to.       *)
BootSlot == Ota!SlotOf(flag)

LEMMA Slots ==
  ASSUME Ota!TypeOK
  PROVE  /\ Ota!Device \in Ota!Slot /\ BootSlot \in Ota!Slot /\ Ota!NewSlot \in Ota!Slot
         /\ flag.ok # "no" => Ota!Device # BootSlot
         /\ flag.ok = "yes" => Ota!NewSlot = Ota!Device
         /\ flag.ok = "unreadable" => Ota!NewSlot = 0 /\ BootSlot = 0
  BY DEF Ota!TypeOK, Ota!Device, BootSlot, Ota!SlotOf, Ota!NewSlot, Ota!Flip, Ota!Slot

LEMMA Flags ==
  ASSUME Ota!TypeOK, NEW written \in [slot : Ota!Slot, ok : {"yes", "no"}], Ota!WriteFlag(written)
  PROVE  kept' \subseteq [slot : Ota!Slot, ok : {"yes", "no", "unreadable"}] /\ flag' \in kept'
  BY DEF Ota!WriteFlag, Ota!NoFlag, Ota!Flag, Ota!TypeOK, Ota!Slot

LEMMA NewFlags ==
  ASSUME Ota!TypeOK
  PROVE  /\ Ota!Flag(Ota!NewSlot, "yes") \in [slot : Ota!Slot, ok : {"yes", "no"}]
         /\ Ota!RollbackFlag \in [slot : Ota!Slot, ok : {"yes", "no"}]
  BY DEF Ota!Flag, Ota!NewSlot, Ota!RollbackFlag, Ota!Flip, Ota!TypeOK, Ota!Slot

LEMMA InitType == ASSUME Ota!OtaAssumption, Ota!Init PROVE Ota!TypeOK
<1>1. 0 \in 0..MaxRuns /\ 0 \in 0..OtaRestarts
  BY SMT DEF Ota!OtaAssumption
<1>2. kept \subseteq [slot : Ota!Slot, ok : {"yes", "no", "unreadable"}] /\ flag \in kept
  BY DEF Ota!Init, Ota!NoFlag, Ota!Flag, Ota!Slot
<1>3. Ota!NoJob \in [dev : Ota!Slot, fw : Ota!Image]
  BY Images DEF Ota!NoJob, Ota!Slot
<1> QED
  BY <1>1, <1>2, <1>3, Images DEF Ota!Init, Ota!TypeOK, Ota!Slot

LEMMA GoType ==
  ASSUME Ota!TypeOK, NEW t \in Caller, NEW next \in Ota!Step \cup {"out", "rollback"}, Ota!Go(t, next)
  PROVE  /\ pc' \in [Caller -> Ota!Step \cup {"out", "rollback"}]
         /\ work' \in [Caller -> {"no", "in", "writing"}]
  BY DEF Ota!Go, Ota!TypeOK

LEMMA OutcomeType ==
  ASSUME Ota!TypeOK, NEW t \in Caller, pc[t] \in Ota!Step \ {"reboot"},
         Ota!Succeed(t) \/ Ota!Fail(t) \/ Ota!Leave(t)
  PROVE  /\ pc' \in [Caller -> Ota!Step \cup {"out", "rollback"}]
         /\ work' \in [Caller -> {"no", "in", "writing"}]
         /\ state' \in {state, "IDLE", "ERROR"}
<1>1. Ota!NextStep(pc[t]) \in Ota!Step /\ Ota!AfterFailure(pc[t]) \in {"out", "rollback"}
  BY Steps, Failures DEF Ota!Step
<1>2. PICK next \in Ota!Step \cup {"out", "rollback"} : Ota!Go(t, next)
  BY <1>1 DEF Ota!Succeed, Ota!Fail, Ota!Leave
<1> QED
  BY <1>2, GoType DEF Ota!Succeed, Ota!Fail, Ota!Leave

LEMMA PipelineType ==
  ASSUME Ota!OtaAssumption, Ota!TypeOK, NEW t \in Caller, Ota!Pipeline(t) PROVE Ota!TypeOK'
<1>1. CASE Ota!ota_run_pipeline(t)
  <2>1. runs' \in 0..MaxRuns
    BY <1>1, SMT DEF Ota!ota_run_pipeline, Ota!TypeOK, Ota!OtaAssumption
  <2> QED
    BY <1>1, <2>1, GoType
       DEF Ota!ota_run_pipeline, Ota!TypeOK, Ota!disk, Ota!system, Ota!Step
<1>2. CASE Ota!Claim(t)
  <2>1. UNCHANGED <<job, target, Ota!disk, Ota!system, rolled, runs>> /\ pc[t] \in Ota!Step \ {"reboot"}
    BY <1>2 DEF Ota!Claim, Ota!Step
  <2>2. CASE Ota!Free(pc[t])
    BY <1>2, <2>1, <2>2, Steps DEF Ota!Claim, Ota!TypeOK, Ota!disk, Ota!system
  <2>3. CASE ~Ota!Free(pc[t])
    BY <1>2, <2>1, <2>3, OutcomeType DEF Ota!Claim, Ota!TypeOK, Ota!disk, Ota!system
  <2> QED
    BY <2>2, <2>3
<1>3. CASE Ota!ota_check_version(t)
  <2>1. (Ota!Succeed(t) \/ Ota!Fail(t)) /\ pc[t] \in Ota!Step \ {"reboot"}
    BY <1>3 DEF Ota!ota_check_version, Ota!In, Ota!Step
  <2> QED
    BY <1>3, <2>1, OutcomeType
       DEF Ota!ota_check_version, Ota!TypeOK, Ota!disk, Ota!system, Ota!OtaAssumption
<1>4. CASE Ota!ota_download(t)
  <2>1. (Ota!Succeed(t) \/ Ota!Fail(t) \/ Ota!Leave(t)) /\ pc[t] \in Ota!Step \ {"reboot"}
    BY <1>4 DEF Ota!ota_download, Ota!In, Ota!Step
  <2> QED
    BY <1>4, <2>1, OutcomeType, Images DEF Ota!ota_download, Ota!TypeOK, Ota!system
<1>5. CASE Ota!ota_verify(t)
  <2>1. (Ota!Succeed(t) \/ Ota!Fail(t)) /\ pc[t] \in Ota!Step \ {"reboot"}
    BY <1>5 DEF Ota!ota_verify, Ota!In, Ota!Step
  <2> QED
    BY <1>5, <2>1, OutcomeType DEF Ota!ota_verify, Ota!TypeOK, Ota!disk, Ota!system
<1>6. CASE Ota!FlashOpen(t)
  <2>1. pc[t] \in Ota!Step \ {"reboot"} /\ UNCHANGED <<target, staged, flag, kept, Ota!system, rolled, runs>>
    BY <1>6 DEF Ota!FlashOpen, Ota!In, Ota!Step
  <2>2. CASE Ota!Succeed(t) \/ Ota!Fail(t) \/ Ota!Leave(t)
    <3>1. UNCHANGED <<job, part>> \/ (job' = [job EXCEPT ![t] = [dev |-> Ota!Device, fw |-> staged]]
                                      /\ part' = [part EXCEPT ![Ota!Device] = Ota!Torn])
      BY <1>6 DEF Ota!FlashOpen
    <3>2. /\ job' \in [Caller -> [dev : Ota!Slot, fw : Ota!Image]] /\ part' \in [Ota!Slot -> Ota!Image]
      BY <3>1, Slots, Images DEF Ota!TypeOK
    <3>3. /\ pc' \in [Caller -> Ota!Step \cup {"out", "rollback"}]
          /\ work' \in [Caller -> {"no", "in", "writing"}]
          /\ state' \in {state, "IDLE", "ERROR"}
      BY <2>1, <2>2, OutcomeType
    <3> QED
      BY <2>1, <3>2, <3>3 DEF Ota!TypeOK, Ota!system
  <2>3. CASE /\ work' = [work EXCEPT ![t] = "writing"] /\ UNCHANGED <<state, pc>>
             /\ job' = [job EXCEPT ![t] = [dev |-> Ota!Device, fw |-> staged]]
             /\ part' = [part EXCEPT ![Ota!Device] = Ota!Torn]
    BY <2>1, <2>3, Slots, Images DEF Ota!TypeOK, Ota!system
  <2> QED
    BY <1>6, <2>2, <2>3 DEF Ota!FlashOpen
<1>7. CASE Ota!FlashWrite(t)
  <2>1. (Ota!Succeed(t) \/ Ota!Fail(t)) /\ pc[t] \in Ota!Step \ {"reboot"}
    BY <1>7 DEF Ota!FlashWrite, Ota!Step
  <2>2. Ota!NoJob \in [dev : Ota!Slot, fw : Ota!Image] /\ job[t] \in [dev : Ota!Slot, fw : Ota!Image]
    BY Images DEF Ota!NoJob, Ota!Slot, Ota!TypeOK
  <2>3. part' \in [Ota!Slot -> Ota!Image]
    BY <1>7, <2>2, Images DEF Ota!FlashWrite, Ota!TypeOK
  <2> QED
    BY <1>7, <2>1, <2>2, <2>3, OutcomeType DEF Ota!FlashWrite, Ota!TypeOK, Ota!system
<1>8. CASE Ota!ota_post_verify(t)
  <2>1. (Ota!Succeed(t) \/ Ota!Fail(t)) /\ pc[t] \in Ota!Step \ {"reboot"}
    BY <1>8 DEF Ota!ota_post_verify, Ota!In, Ota!Step
  <2> QED
    BY <1>8, <2>1, OutcomeType DEF Ota!ota_post_verify, Ota!TypeOK, Ota!disk, Ota!system
<1>9. CASE Ota!ota_set_boot_flag(t)
  <2>1. CASE state = "IDLE"
    <3>1. kept' \subseteq [slot : Ota!Slot, ok : {"yes", "no", "unreadable"}] /\ flag' \in kept'
      BY <1>9, <2>1, Flags, NewFlags DEF Ota!ota_set_boot_flag
    <3>2. Ota!Go(t, "reboot") /\ "reboot" \in Ota!Step
      BY <1>9, <2>1 DEF Ota!ota_set_boot_flag, Ota!Step
    <3> QED
      BY <1>9, <2>1, <3>1, <3>2, GoType DEF Ota!ota_set_boot_flag, Ota!TypeOK, Ota!system
  <2>2. CASE state # "IDLE"
    <3>1. Ota!Leave(t) /\ pc[t] \in Ota!Step \ {"reboot"}
      BY <1>9, <2>2 DEF Ota!ota_set_boot_flag, Ota!Step
    <3> QED
      BY <1>9, <2>2, <3>1, OutcomeType DEF Ota!ota_set_boot_flag, Ota!TypeOK, Ota!system
  <2> QED
    BY <2>1, <2>2
<1>10. CASE Ota!ota_reboot(t)
  BY <1>10, GoType DEF Ota!ota_reboot, Ota!TypeOK, Ota!system
<1>11. CASE Ota!RollbackBegin(t)
  BY <1>11 DEF Ota!RollbackBegin, Ota!TypeOK, Ota!disk, Ota!system
<1>12. CASE Ota!RollbackEnd(t)
  <2>1. kept' \subseteq [slot : Ota!Slot, ok : {"yes", "no", "unreadable"}] /\ flag' \in kept'
    BY <1>12, Flags, NewFlags DEF Ota!RollbackEnd
  <2> QED
    BY <1>12, <2>1, GoType DEF Ota!RollbackEnd, Ota!TypeOK, Ota!system
<1> QED
  BY <1>1, <1>2, <1>3, <1>4, <1>5, <1>6, <1>7, <1>8, <1>9, <1>10, <1>11, <1>12
     DEF Ota!Pipeline

LEMMA NextType == ASSUME Ota!OtaAssumption, Ota!TypeOK, [Ota!Next]_(Ota!vars) PROVE Ota!TypeOK'
<1>1. CASE Ota!ota_init
  <2>1. /\ kept' \subseteq [slot : Ota!Slot, ok : {"yes", "no", "unreadable"}]
        /\ flag' \in kept' /\ rolled' \in BOOLEAN
    <3>1. CASE flag.ok = "no"
      BY <1>1, <3>1, Flags, NewFlags DEF Ota!ota_init
    <3>2. CASE flag.ok # "no"
      BY <1>1, <3>2 DEF Ota!ota_init, Ota!TypeOK
    <3> QED
      BY <3>1, <3>2
  <2> QED
    BY <1>1, <2>1 DEF Ota!ota_init, Ota!TypeOK
<1>2. CASE Ota!Reboot
  <2>1. running' \in Ota!Slot
    BY <1>2 DEF Ota!Reboot, Ota!TypeOK, Ota!SlotOf, Ota!Slot
  <2>2. restarts' \in 0..OtaRestarts
    BY <1>2, SMT DEF Ota!Reboot, Ota!TypeOK, Ota!OtaAssumption
  <2>3. Ota!NoJob \in [dev : Ota!Slot, fw : Ota!Image]
    BY Images DEF Ota!NoJob, Ota!Slot
  <2> QED
    BY <1>2, <2>1, <2>2, <2>3 DEF Ota!Reboot, Ota!TypeOK, Ota!disk
<1>3. CASE UNCHANGED Ota!vars
  BY <1>3 DEF Ota!vars, Ota!disk, Ota!system, Ota!TypeOK
<1> QED
  BY <1>1, <1>2, <1>3, PipelineType DEF Ota!Next
(***************************************************************************)
(* The pipeline with one caller: the state says what its step has claimed. *)
(***************************************************************************)
Control(t) ==
  /\ pc[t] = "out" => work[t] = "no"
  /\ pc[t] = "check" => work[t] = "no" \/ (work[t] = "in" /\ state = "CHECKING")
  /\ pc[t] \in {"download", "verify", "flash", "post"} =>
       \/ work[t] = "no" /\ state = "IDLE"
       \/ work[t] = "in" /\ state = Ota!Claimed(pc[t])
       \/ work[t] = "writing" /\ pc[t] = "flash" /\ state = "FLASHING"
  /\ pc[t] = "setflag" => work[t] = "no" /\ state = "IDLE"
  /\ pc[t] = "reboot" => work[t] = "no" /\ state = "SET_BOOT_FLAG"
  /\ pc[t] = "rollback" => work[t] # "writing" /\ state \in {"ERROR", "FLASHING", "ROLLBACK"}
  /\ ~up => pc[t] = "out"

(* What is staged was checked, from then on; and it is what is written.    *)
Checked(t) ==
  /\ pc[t] \in {"flash", "post", "setflag"} => staged = Ota!New
  /\ Ota!Writing(t) => job[t].fw = Ota!New

(* Until a rollback, the system runs from the slot that would be booted    *)
(* until the flag is changed; it stays whole, and so does the slot that    *)
(* the flag is about to name.  Only between the writing of a flag and the  *)
(* sync before the reboot may a power loss leave another one.              *)
SlotInv(t) == ~rolled =>
  /\ flag.ok # "no" /\ \A f \in kept : f.ok # "no" /\ Ota!Whole(part[Ota!SlotOf(f)])
  /\ state # "SET_BOOT_FLAG" => kept = {flag}
  /\ state \notin {"SET_BOOT_FLAG", "REBOOTING"} => running = BootSlot
  /\ Ota!Whole(part[BootSlot]) /\ \A s \in Ota!Slot : part[s] \in {Ota!Old, Ota!New, Ota!Torn}
  /\ Ota!Writing(t) => job[t].dev = Ota!Device
  /\ pc[t] = "setflag" => part[Ota!Device] = Ota!New

OtaInv == (~up => state = "IDLE") /\ \A t \in Caller : Control(t) /\ Checked(t)
SlotsInv == \A t \in Caller : SlotInv(t)

(* How a step ends.                                                        *)
LEMMA Ends ==
  ASSUME Ota!TypeOK, NEW t \in Caller, NEW next, Ota!Go(t, next)
  PROVE  pc'[t] = next /\ work'[t] = "no"
  BY DEF Ota!Go, Ota!TypeOK

LEMMA Outcomes ==
  ASSUME Ota!TypeOK, NEW t \in Caller
  PROVE  /\ Ota!Succeed(t) => state' = "IDLE" /\ pc'[t] = Ota!NextStep(pc[t]) /\ work'[t] = "no"
         /\ Ota!Fail(t) => state' = "ERROR" /\ pc'[t] = Ota!AfterFailure(pc[t]) /\ work'[t] = "no"
         /\ Ota!Leave(t) => state' = state /\ pc'[t] = Ota!AfterFailure(pc[t]) /\ work'[t] = "no"
  BY Ends DEF Ota!Succeed, Ota!Fail, Ota!Leave

(* Only the caller itself moves, so that its step decides.                 *)
LEMMA PipelineControl ==
  ASSUME Ota!TypeOK, NEW t \in Caller, Control(t), Checked(t), Ota!Pipeline(t)
  PROVE  Control(t)' /\ Checked(t)'
<1>1. CASE Ota!ota_run_pipeline(t)
  <2>1. pc'[t] = "check" /\ work'[t] = "no" /\ up /\ UNCHANGED <<up, job, staged>>
    BY <1>1, Ends DEF Ota!ota_run_pipeline, Ota!system, Ota!disk
  <2> QED
    BY <2>1 DEF Control, Checked, Ota!Writing
<1>2. CASE Ota!Claim(t)
  <2>1. UNCHANGED <<up, job, staged>> /\ pc[t] \in {"check", "download", "verify", "flash", "post"}
        /\ work[t] = "no"
    BY <1>2 DEF Ota!Claim, Ota!system, Ota!disk
  <2>2. CASE Ota!Free(pc[t])
    <3>1. state' = Ota!Claimed(pc[t]) /\ work'[t] = "in" /\ pc' = pc
      BY <1>2, <2>2 DEF Ota!Claim, Ota!TypeOK
    <3> QED
      BY <2>1, <3>1, Steps DEF Control, Checked, Ota!Writing
  <2>3. CASE ~Ota!Free(pc[t])
    <3>1. pc[t] = "check"
      BY <2>1, <2>3 DEF Ota!Free, Control
    <3>2. pc'[t] = "out" /\ work'[t] = "no"
      BY <1>2, <2>3, <3>1, Outcomes, Failures DEF Ota!Claim
    <3> QED
      BY <2>1, <3>2 DEF Control, Checked, Ota!Writing
  <2> QED
    BY <2>2, <2>3
<1>3. CASE Ota!ota_check_version(t)
  <2>1. UNCHANGED <<up, job, staged>> /\ pc[t] = "check" /\ work[t] = "in"
    BY <1>3 DEF Ota!ota_check_version, Ota!In, Ota!system, Ota!disk
  <2>2. \/ pc'[t] = "download" /\ state' = "IDLE" /\ work'[t] = "no"
        \/ pc'[t] = "out" /\ work'[t] = "no"
    BY <1>3, <2>1, Outcomes, Failures, Steps DEF Ota!ota_check_version
  <2> QED
    BY <2>1, <2>2 DEF Control, Checked, Ota!Writing
<1>4. CASE Ota!ota_download(t)
  <2>1. UNCHANGED <<up, job>> /\ pc[t] = "download" /\ work[t] = "in"
    BY <1>4 DEF Ota!ota_download, Ota!In, Ota!system
  <2>2. \/ pc'[t] = "verify" /\ state' = "IDLE" /\ work'[t] = "no"
        \/ pc'[t] = "out" /\ work'[t] = "no"
    BY <1>4, <2>1, Outcomes, Failures, Steps DEF Ota!ota_download
  <2> QED
    BY <2>1, <2>2 DEF Control, Checked, Ota!Writing
<1>5. CASE Ota!ota_verify(t)
  <2>1. UNCHANGED <<up, job, staged>> /\ pc[t] = "verify" /\ work[t] = "in"
    BY <1>5 DEF Ota!ota_verify, Ota!In, Ota!system, Ota!disk
  <2>2. \/ pc'[t] = "flash" /\ state' = "IDLE" /\ work'[t] = "no" /\ staged = Ota!New
        \/ pc'[t] = "rollback" /\ state' = "ERROR" /\ work'[t] = "no"
    BY <1>5, <2>1, Outcomes, Failures, Steps DEF Ota!ota_verify
  <2> QED
    BY <2>1, <2>2 DEF Control, Checked, Ota!Writing
<1>6. CASE Ota!FlashOpen(t)
  <2>1. UNCHANGED <<up, staged>> /\ pc[t] = "flash" /\ work[t] = "in" /\ state = "FLASHING"
    BY <1>6, Steps DEF Ota!FlashOpen, Ota!In, Ota!system, Control
  <2>2. \/ pc' = pc /\ state' = state /\ work'[t] = "writing" /\ job'[t].fw = staged
        \/ pc'[t] = "post" /\ state' = "IDLE" /\ work'[t] = "no"
        \/ pc'[t] = "rollback" /\ state' \in {"ERROR", state} /\ work'[t] = "no"
    BY <1>6, <2>1, Outcomes, Failures, Steps DEF Ota!FlashOpen, Ota!TypeOK
  <2> QED
    BY <2>1, <2>2 DEF Control, Checked, Ota!Writing
<1>7. CASE Ota!FlashWrite(t)
  <2>1. UNCHANGED <<up, staged>> /\ pc[t] = "flash" /\ work[t] = "writing"
    BY <1>7 DEF Ota!FlashWrite, Ota!system
  <2>2. \/ pc'[t] = "post" /\ state' = "IDLE" /\ work'[t] = "no"
        \/ pc'[t] = "rollback" /\ state' = "ERROR" /\ work'[t] = "no"
    BY <1>7, <2>1, Outcomes, Failures, Steps DEF Ota!FlashWrite
  <2> QED
    BY <2>1, <2>2 DEF Control, Checked, Ota!Writing
<1>8. CASE Ota!ota_post_verify(t)
  <2>1. UNCHANGED <<up, job, staged>> /\ pc[t] = "post" /\ work[t] = "in"
    BY <1>8 DEF Ota!ota_post_verify, Ota!In, Ota!system, Ota!disk
  <2>2. \/ pc'[t] = "setflag" /\ state' = "IDLE" /\ work'[t] = "no"
        \/ pc'[t] = "rollback" /\ state' = "ERROR" /\ work'[t] = "no"
    BY <1>8, <2>1, Outcomes, Failures, Steps DEF Ota!ota_post_verify
  <2> QED
    BY <2>1, <2>2 DEF Control, Checked, Ota!Writing
<1>9. CASE Ota!ota_set_boot_flag(t)
  <2>1. UNCHANGED <<up, job, staged>> /\ pc[t] = "setflag" /\ state = "IDLE"
    BY <1>9 DEF Ota!ota_set_boot_flag, Ota!system, Control
  <2>2. pc'[t] = "reboot" /\ state' = "SET_BOOT_FLAG" /\ work'[t] = "no"
    BY <1>9, <2>1, Ends DEF Ota!ota_set_boot_flag
  <2> QED
    BY <2>1, <2>2 DEF Control, Checked, Ota!Writing
<1>10. CASE Ota!ota_reboot(t)
  <2>1. UNCHANGED <<up, job, staged>> /\ pc'[t] = "out" /\ work'[t] = "no"
    BY <1>10, Ends DEF Ota!ota_reboot, Ota!system, Ota!disk
  <2> QED
    BY <2>1 DEF Control, Checked, Ota!Writing
<1>11. CASE Ota!RollbackBegin(t)
  <2>1. UNCHANGED <<up, job, staged, pc>> /\ pc[t] = "rollback" /\ work'[t] = "in" /\ state' = "ROLLBACK"
    BY <1>11 DEF Ota!RollbackBegin, Ota!system, Ota!disk, Ota!TypeOK
  <2> QED
    BY <2>1 DEF Control, Checked, Ota!Writing
<1>12. CASE Ota!RollbackEnd(t)
  <2>1. UNCHANGED <<up, job, staged>> /\ pc'[t] = "out" /\ work'[t] = "no"
    BY <1>12, Ends DEF Ota!RollbackEnd, Ota!system
  <2> QED
    BY <2>1 DEF Control, Checked, Ota!Writing
<1> QED
  BY <1>1, <1>2, <1>3, <1>4, <1>5, <1>6, <1>7, <1>8, <1>9, <1>10, <1>11, <1>12
     DEF Ota!Pipeline

(* A step that leaves the disk and the running slot alone.                 *)
LEMMA SlotsKept ==
  ASSUME NEW t \in Caller, SlotInv(t), UNCHANGED <<flag, kept, part, running, rolled>>,
         state' # "SET_BOOT_FLAG" => state # "SET_BOOT_FLAG",
         state' \notin {"SET_BOOT_FLAG", "REBOOTING"} => state \notin {"SET_BOOT_FLAG", "REBOOTING"},
         Ota!Writing(t)' => Ota!Writing(t) /\ job' = job,
         ~rolled /\ pc'[t] = "setflag" => pc[t] = "setflag" \/ part[Ota!Device] = Ota!New
  PROVE  SlotInv(t)'
<1>1. BootSlot' = BootSlot /\ Ota!Device' = Ota!Device
  BY DEF BootSlot, Ota!SlotOf, Ota!Device
<1> QED
  BY <1>1 DEF SlotInv, Ota!Writing, Ota!SlotOf

LEMMA PipelineSlots ==
  ASSUME Ota!TypeOK, NEW t \in Caller, Control(t), Checked(t), SlotInv(t), Ota!Pipeline(t)
  PROVE  SlotInv(t)'
<1>1. CASE Ota!ota_run_pipeline(t)
  <2>1. pc'[t] = "check" /\ work'[t] = "no" /\ UNCHANGED <<flag, kept, part, running, rolled, state>>
    BY <1>1, Ends DEF Ota!ota_run_pipeline, Ota!system, Ota!disk
  <2> QED
    BY <2>1, SlotsKept DEF Ota!Writing
<1>2. CASE Ota!Claim(t)
  <2>1. UNCHANGED <<flag, kept, part, running, rolled, job>> /\ work[t] = "no"
        /\ pc[t] \in {"check", "download", "verify", "flash", "post"}
    BY <1>2 DEF Ota!Claim, Ota!system, Ota!disk
  <2>2. CASE Ota!Free(pc[t])
    <3>1. state \in {"IDLE", "ERROR"} /\ work'[t] = "in" /\ pc' = pc
      BY <1>2, <2>2 DEF Ota!Claim, Ota!Free, Ota!TypeOK
    <3> QED
      BY <2>1, <3>1, SlotsKept DEF Ota!Writing
  <2>3. CASE ~Ota!Free(pc[t])
    <3>1. state' = state /\ pc'[t] # "setflag" /\ work'[t] = "no"
      BY <1>2, <2>1, <2>3, Outcomes, Failures DEF Ota!Claim
    <3> QED
      BY <2>1, <3>1, SlotsKept DEF Ota!Writing
  <2> QED
    BY <2>2, <2>3
<1>3. CASE Ota!ota_check_version(t) \/ Ota!ota_download(t) \/ Ota!ota_verify(t)
  <2>1. UNCHANGED <<flag, kept, part, running, rolled, job>> /\ work[t] = "in"
        /\ pc[t] \in {"check", "download", "verify"}
    BY <1>3 DEF Ota!ota_check_version, Ota!ota_download, Ota!ota_verify, Ota!In,
                Ota!system, Ota!disk
  <2>2. state \notin {"SET_BOOT_FLAG", "REBOOTING"}
    BY <2>1, Steps DEF Control
  <2>3. pc'[t] # "setflag" /\ work'[t] = "no"
    BY <1>3, <2>1, Outcomes, Failures, Steps
       DEF Ota!ota_check_version, Ota!ota_download, Ota!ota_verify
  <2> QED
    BY <2>1, <2>2, <2>3, SlotsKept DEF Ota!Writing
<1>4. CASE Ota!FlashOpen(t)
  <2>1. UNCHANGED <<flag, kept, running, rolled>> /\ pc[t] = "flash" /\ state = "FLASHING"
    BY <1>4, Steps DEF Ota!FlashOpen, Ota!In, Ota!system, Control
  <2>2. BootSlot' = BootSlot /\ Ota!Device' = Ota!Device
    BY <2>1 DEF BootSlot, Ota!SlotOf, Ota!Device
  <2>3. CASE /\ work' = [work EXCEPT ![t] = "writing"] /\ UNCHANGED <<state, pc>>
             /\ job' = [job EXCEPT ![t] = [dev |-> Ota!Device, fw |-> staged]]
             /\ part' = [part EXCEPT ![Ota!Device] = Ota!Torn]
    BY <2>1, <2>2, <2>3, Slots DEF SlotInv, BootSlot, Ota!TypeOK
  <2>4. CASE UNCHANGED part /\ (Ota!Succeed(t) \/ Ota!Fail(t) \/ Ota!Leave(t))
    <3>1. pc'[t] # "setflag" /\ work'[t] = "no"
      BY <2>1, <2>4, Outcomes, Failures, Steps
    <3> QED
      BY <2>1, <2>4, <3>1, SlotsKept DEF Ota!Writing
  <2> QED
    BY <1>4, <2>3, <2>4 DEF Ota!FlashOpen
<1>5. CASE Ota!FlashWrite(t)
  <2>1. UNCHANGED <<flag, kept, running, rolled>> /\ Ota!Writing(t) /\ pc[t] = "flash"
    BY <1>5 DEF Ota!FlashWrite, Ota!system, Ota!Writing
  <2>2. state = "FLASHING"
    BY <2>1, Steps DEF Control, Ota!Writing
  <2>3. pc'[t] # "setflag" /\ work'[t] = "no"
    BY <1>5, <2>1, Outcomes, Failures, Steps DEF Ota!FlashWrite
  <2>4. part' = part \/ part' = [part EXCEPT ![job[t].dev] = Ota!New]
    BY <1>5, <2>1 DEF Ota!FlashWrite, Checked
  <2>5. BootSlot' = BootSlot /\ Ota!Device' = Ota!Device
    BY <2>1 DEF BootSlot, Ota!SlotOf, Ota!Device
  <2> QED
    BY <2>1, <2>2, <2>3, <2>4, <2>5, Slots DEF SlotInv, BootSlot, Ota!Writing, Ota!TypeOK
<1>6. CASE Ota!ota_post_verify(t)
  <2>1. UNCHANGED <<flag, kept, part, running, rolled, job>> /\ pc[t] = "post" /\ work[t] = "in"
    BY <1>6 DEF Ota!ota_post_verify, Ota!In, Ota!system, Ota!disk
  <2>2. state = "POST_VERIFY" /\ staged = Ota!New
    BY <2>1, Steps DEF Control, Checked
  <2>3. work'[t] = "no"
    BY <1>6, Outcomes DEF Ota!ota_post_verify
  <2>4. ASSUME ~rolled, pc'[t] = "setflag" PROVE part[Ota!Device] = Ota!New
    <3>1. Ota!SameCrc(Ota!New, part[Ota!Device])
      BY <1>6, <2>1, <2>2, <2>4, Outcomes, Failures DEF Ota!ota_post_verify
    <3> QED
      BY <2>4, <3>1, Slots, Images DEF SlotInv
  <2> QED
    BY <2>1, <2>2, <2>3, <2>4, SlotsKept DEF Ota!Writing
<1>7. CASE Ota!ota_set_boot_flag(t)
  <2>1. UNCHANGED <<part, running, rolled>> /\ pc[t] = "setflag" /\ state = "IDLE"
    BY <1>7 DEF Ota!ota_set_boot_flag, Ota!system, Control
  <2>2. /\ pc'[t] = "reboot" /\ state' = "SET_BOOT_FLAG" /\ work'[t] = "no"
        /\ flag' \in {flag, Ota!NoFlag, Ota!Flag(Ota!NewSlot, "yes")}
        /\ kept' = kept \cup {Ota!NoFlag, flag'}
    BY <1>7, <2>1, Ends DEF Ota!ota_set_boot_flag, Ota!WriteFlag
  <2>3. ~rolled => /\ flag'.ok # "no" /\ Ota!Whole(part[BootSlot'])
                   /\ \A f \in kept' : f.ok # "no" /\ Ota!Whole(part[Ota!SlotOf(f)])
    <3> SUFFICES ASSUME ~rolled
                 PROVE  /\ flag'.ok # "no" /\ Ota!Whole(part[BootSlot'])
                        /\ \A f \in kept' : f.ok # "no" /\ Ota!Whole(part[Ota!SlotOf(f)])
        OBVIOUS
    <3>1. flag.ok # "no" /\ Ota!Whole(part[BootSlot]) /\ Ota!Whole(part[Ota!Device])
      BY <2>1 DEF SlotInv, Ota!Whole
    <3>2. Ota!Whole(part[0])
      BY <3>1, Slots DEF Ota!Slot
    <3>3. BootSlot' \in {BootSlot, Ota!Device, 0} /\ flag'.ok # "no"
      BY <2>2, <3>1, Slots DEF BootSlot, Ota!SlotOf, Ota!NoFlag, Ota!Flag, Ota!TypeOK
    <3>4. Ota!SlotOf(Ota!NoFlag) = 0 /\ Ota!NoFlag.ok # "no"
      BY DEF Ota!SlotOf, Ota!NoFlag, Ota!Flag
    <3>5. \A f \in kept : f.ok # "no" /\ Ota!Whole(part[Ota!SlotOf(f)])
      BY DEF SlotInv
    <3> QED
      BY <2>2, <3>1, <3>2, <3>3, <3>4, <3>5 DEF BootSlot
  <2> QED
    BY <2>1, <2>2, <2>3 DEF SlotInv, Ota!Writing
<1>8. CASE Ota!ota_reboot(t)
  <2>1. /\ UNCHANGED <<flag, part, running, rolled>> /\ pc'[t] = "out" /\ work'[t] = "no"
        /\ state' = "REBOOTING" /\ kept' = {flag}
    BY <1>8, Ends DEF Ota!ota_reboot, Ota!system
  <2>2. BootSlot' = BootSlot /\ Ota!Device' = Ota!Device
    BY <2>1 DEF BootSlot, Ota!SlotOf, Ota!Device
  <2> QED
    BY <2>1, <2>2 DEF SlotInv, BootSlot, Ota!Writing
<1>9. CASE Ota!RollbackBegin(t)
  <2>1. UNCHANGED <<flag, kept, part, running, rolled, pc>> /\ pc[t] = "rollback" /\ work'[t] = "in"
    BY <1>9 DEF Ota!RollbackBegin, Ota!system, Ota!disk, Ota!TypeOK
  <2> QED
    BY <2>1, SlotsKept DEF Ota!Writing, Control
<1>10. CASE Ota!RollbackEnd(t)
  BY <1>10 DEF Ota!RollbackEnd, SlotInv
<1> QED
  BY <1>1, <1>2, <1>3, <1>4, <1>5, <1>6, <1>7, <1>8, <1>9, <1>10 DEF Ota!Pipeline

LEMMA OtaStarts == ASSUME Ota!Init PROVE OtaInv /\ SlotsInv
<1>1. \A t \in Caller : pc[t] = "out" /\ work[t] = "no"
  BY DEF Ota!Init
<1>2. OtaInv
  BY <1>1 DEF Ota!Init, OtaInv, Control, Checked, Ota!Writing
<1>3. flag.ok # "no" /\ BootSlot = 0 /\ running = 0
  BY DEF Ota!Init, BootSlot, Ota!SlotOf, Ota!NoFlag, Ota!Flag
<1>4. SlotsInv
  BY <1>1, <1>3 DEF Ota!Init, SlotsInv, SlotInv, BootSlot, Ota!Writing, Ota!Slot, Ota!Whole
<1> QED
  BY <1>2, <1>4

LEMMA OtaGoesOn ==
  ASSUME Ota!OtaAssumption, OneCaller, Ota!TypeOK, OtaInv, SlotsInv, [Ota!Next]_(Ota!vars)
  PROVE  OtaInv' /\ SlotsInv'
<1>1. ASSUME NEW t \in Caller, Ota!Pipeline(t) PROVE OtaInv' /\ SlotsInv'
  <2>1. /\ Control(t)' /\ Checked(t)' /\ SlotInv(t)' /\ up' = up
        /\ (~up => FALSE)
    <3>1. up' = up
      BY <1>1 DEF Ota!Pipeline, Ota!ota_run_pipeline, Ota!Claim, Ota!ota_check_version,
                  Ota!ota_download, Ota!ota_verify,
                 Ota!FlashOpen, Ota!FlashWrite, Ota!ota_post_verify, Ota!ota_set_boot_flag,
                 Ota!ota_reboot,
                 Ota!RollbackBegin, Ota!RollbackEnd, Ota!system
    <3>2. Control(t) /\ Checked(t) /\ SlotInv(t)
      BY DEF OtaInv, SlotsInv
    <3>3. up
      BY <1>1, <3>2 DEF Ota!Pipeline, Ota!ota_run_pipeline, Ota!Claim,
                        Ota!ota_check_version, Ota!ota_download, Ota!ota_verify,
                 Ota!FlashOpen, Ota!FlashWrite, Ota!ota_post_verify, Ota!ota_set_boot_flag,
                 Ota!ota_reboot,
                 Ota!RollbackBegin, Ota!RollbackEnd, Ota!In, Control
    <3> QED
      BY <1>1, <3>1, <3>2, <3>3, PipelineControl, PipelineSlots
  <2> QED
    BY <2>1 DEF OtaInv, SlotsInv, OneCaller
<1>2. CASE Ota!ota_init
  <2>1. UNCHANGED <<pc, work, job, staged, part, running>> /\ ~up /\ up' /\ state' = "IDLE"
    BY <1>2 DEF Ota!ota_init
  <2>2. state = "IDLE" /\ \A t \in Caller : pc[t] = "out" /\ work[t] = "no"
    BY <2>1 DEF OtaInv, Control
  <2>3. OtaInv'
    BY <2>1, <2>2 DEF OtaInv, Control, Checked, Ota!Writing
  <2>4. CASE flag.ok = "no"
    BY <1>2, <2>3, <2>4 DEF Ota!ota_init, SlotsInv, SlotInv
  <2>5. CASE flag.ok # "no"
    <3>1. UNCHANGED <<flag, kept, rolled>>
      BY <1>2, <2>5 DEF Ota!ota_init
    <3> QED
      BY <2>1, <2>2, <2>3, <3>1, SlotsKept DEF SlotsInv, Ota!Writing
  <2> QED
    BY <2>3, <2>4, <2>5
<1>3. CASE Ota!Reboot
  <2>1. /\ UNCHANGED <<staged, part, rolled>> /\ ~up' /\ state' = "IDLE"
        /\ flag' \in kept /\ kept' = {flag'} /\ running' = Ota!SlotOf(flag')
        /\ \A t \in Caller : pc'[t] = "out" /\ work'[t] = "no"
    BY <1>3 DEF Ota!Reboot
  <2>2. BootSlot' = Ota!SlotOf(flag')
    BY DEF BootSlot, Ota!SlotOf
  <2>3. OtaInv'
    BY <2>1 DEF OtaInv, Control, Checked, Ota!Writing
  <2> QED
    BY <2>1, <2>2, <2>3 DEF SlotsInv, SlotInv, Ota!Writing
<1>4. CASE UNCHANGED Ota!vars
  <2>1. OtaInv'
    BY <1>4 DEF Ota!vars, Ota!disk, Ota!system, OtaInv, Control, Checked, Ota!Writing
  <2> QED
    BY <1>4, <2>1, SlotsKept DEF Ota!vars, Ota!disk, Ota!system, SlotsInv, Ota!Writing
<1> QED
  BY <1>1, <1>2, <1>3, <1>4 DEF Ota!Next

LEMMA OtaHolds ==
  ASSUME Ota!TypeOK, OtaInv, SlotsInv
  PROVE  Ota!FlashedWasVerified /\ (Caller # {} => Ota!RunningSlotUntouched /\ Ota!NextBootIsWhole)
<1>1. Ota!FlashedWasVerified
  BY DEF OtaInv, Checked, Ota!FlashedWasVerified
<1>2. ASSUME Caller # {} PROVE Ota!RunningSlotUntouched /\ Ota!NextBootIsWhole
  <2>1. Ota!RunningSlotUntouched
    <3> SUFFICES ASSUME ~rolled, NEW t \in Caller, Ota!Writing(t) PROVE job[t].dev # running
      BY DEF Ota!RunningSlotUntouched
    <3>1. Control(t) /\ SlotInv(t)
      BY DEF OtaInv, SlotsInv
    <3>2. state = "FLASHING"
      BY <3>1, Steps DEF Control, Ota!Writing, Ota!TypeOK, Ota!Step
    <3> QED
      BY <3>1, <3>2, Slots DEF SlotInv
  <2>2. Ota!NextBootIsWhole
    BY <1>2 DEF SlotsInv, SlotInv, Ota!NextBootIsWhole
  <2> QED
    BY <2>1, <2>2
<1> QED
  BY <1>1, <1>2

-----------------------------------------------------------------------------
(* The metadata of the slots.                                              *)

(* Adding one modulo n changes a number below n.                           *)
LEMMA NextDiffers ==
  ASSUME NEW n \in Nat, n > 1, NEW c \in 0..n - 1
  PROVE  (c + 1) % n \in 0..n - 1 /\ (c + 1) % n # c
<1>1. CASE c + 1 < n
  <2>1. (c + 1) % n = c + 1
    BY <1>1, SMT
  <2> QED
    BY <1>1, <2>1, SMT
<1>2. CASE c + 1 = n
  <2>1. (c + 1) % n = 0
    BY <1>2, SMT
  <2> QED
    BY <1>2, <2>1, SMT
<1> QED
  BY <1>1, <1>2, SMT

(***************************************************************************)
(* What is written to the file.                                            *)
(***************************************************************************)

(* Metadata with a checksum stays metadata, and the checksum no longer     *)
(* fits it: the CRC covers the field it is stored in.                      *)
LEMMA SealBreaks ==
  ASSUME Ab!AbAssumption, NEW m \in Ab!Meta
  PROVE  /\ Ab!Sealed(m) \in Ab!Meta /\ ~Ab!Loadable(Ab!Sealed(m))
         /\ Ab!Sealed(m).fail_count = m.fail_count
<1>1. CrcMod \in Nat /\ CrcMod > 1 /\ m.crc32 \in 0..CrcMod - 1
  BY DEF Ab!AbAssumption, Ab!Meta
<1>2. Ab!Crc(m) \in 0..CrcMod - 1
  BY <1>1, NextDiffers DEF Ab!Crc
<1>3. Ab!Sealed(m) \in Ab!Meta /\ Ab!Sealed(m).crc32 = Ab!Crc(m) /\ Ab!Sealed(m).fail_count = m.fail_count
  BY <1>2 DEF Ab!Sealed, Ab!Meta
<1>4. Ab!Crc(Ab!Sealed(m)) # Ab!Crc(m)
  BY <1>1, <1>2, <1>3, NextDiffers DEF Ab!Crc
<1> QED
  BY <1>3, <1>4 DEF Ab!Loadable

(* No file is ever one that ab_meta_load accepts.                          *)
FileInv == file.kind = "full" => ~Ab!Loadable(file.meta)

(* What ab_meta_save leaves in RAM and on the file.                        *)
LEMMA SaveKeeps ==
  ASSUME Ab!AbAssumption, NEW m \in Ab!Meta, Ab!ab_meta_save(m),
         file \in [kind : {"absent", "short", "full"}, meta : Ab!Meta], FileInv
  PROVE  /\ g_meta' \in Ab!Meta /\ g_meta'.fail_count = m.fail_count
         /\ file' \in [kind : {"absent", "short", "full"}, meta : Ab!Meta] /\ FileInv'
<1>1. /\ Ab!Sealed(m) \in Ab!Meta /\ ~Ab!Loadable(Ab!Sealed(m))
      /\ Ab!Sealed(m).fail_count = m.fail_count
  BY SealBreaks
<1>2. file' = file \/ file' = Ab!File("short", Ab!Sealed(m)) \/ file' = Ab!File("full", Ab!Sealed(m))
  BY DEF Ab!ab_meta_save
<1> QED
  BY <1>1, <1>2 DEF Ab!ab_meta_save, Ab!File, FileInv

(***************************************************************************)
(* What the operations make of the metadata.                               *)
(***************************************************************************)

(* Metadata whose failures have not been compared with the limit yet.      *)
Uncompared == [active_slot : Ab!Slot, boot_count : 0..AbBoots, fail_count : Nat,
               last_known_good_slot : Ab!Slot, fails : [Ab!Slot -> 0..MaxFails],
               crc32 : 0..(CrcMod - 1)]

(* Metadata over any sets.                                                 *)
MetaOver(S, B, N, F, R) == [active_slot : S, boot_count : B, fail_count : N,
                            last_known_good_slot : S, fails : F, crc32 : R]

LEMMA MetaSets ==
  /\ Ab!Meta = MetaOver(Ab!Slot, 0..AbBoots, 0..(AB_MAX_FAIL_COUNT - 1),
                     [Ab!Slot -> 0..MaxFails], 0..(CrcMod - 1))
  /\ Uncompared = MetaOver(Ab!Slot, 0..AbBoots, Nat, [Ab!Slot -> 0..MaxFails], 0..(CrcMod - 1))
  BY DEF Ab!Meta, Uncompared, MetaOver

LEMMA MetaIsUncompared == ASSUME Ab!AbAssumption PROVE Ab!Meta \subseteq Uncompared
  BY DEF Ab!AbAssumption, Ab!Meta, Uncompared

LEMMA DefaultType ==
  ASSUME Ab!AbAssumption PROVE Ab!Default \in Ab!Meta /\ Ab!Default.fail_count = 0
  BY SMT DEF Ab!AbAssumption, Ab!Default, Ab!Meta, Ab!Slot

(* A switch leaves no failures on the account of the new slot.             *)
LEMMA SwitchedType ==
  ASSUME Ab!AbAssumption, NEW m \in Uncompared
  PROVE  Ab!Switched(m) \in Ab!Meta /\ Ab!Switched(m).fail_count = 0
<1>1. /\ 0 \in 0..AB_MAX_FAIL_COUNT - 1 /\ 0 \in 0..AbBoots
      /\ Ab!Other(m.active_slot) \in Ab!Slot
  BY SMT DEF Ab!AbAssumption, Uncompared, Ab!Slot, Ab!Other
<1>2. ASSUME NEW s \in Ab!Slot, NEW n \in 0..AB_MAX_FAIL_COUNT - 1, NEW b \in 0..AbBoots
      PROVE  LET w == [m EXCEPT !.active_slot = s, !.fail_count = n, !.boot_count = b]
             IN  w \in Ab!Meta /\ w.fail_count = n
  <2> DEFINE B == 0..AbBoots
             N == 0..(AB_MAX_FAIL_COUNT - 1)
             F == [Ab!Slot -> 0..MaxFails]
             R == 0..(CrcMod - 1)
  <2>1. Ab!Meta = MetaOver(Ab!Slot, B, N, F, R) /\ m \in MetaOver(Ab!Slot, B, Nat, F, R)
    BY MetaSets
  <2>2. b \in B /\ n \in N
    OBVIOUS
  <2> HIDE DEF B, N, F, R
  <2> QED
    BY <2>1, <2>2 DEF MetaOver
<1> QED
  BY <1>1, <1>2 DEF Ab!Switched

(* One more failure of the active slot.                                    *)
LEMMA ChargedType ==
  ASSUME Ab!AbAssumption, NEW m \in Ab!Meta, m.fails[m.active_slot] < MaxFails
  PROVE  /\ Ab!Charged(m) \in Uncompared /\ Ab!Charged(m).fail_count = m.fail_count + 1
         /\ ~Ab!OutOfTries(Ab!Charged(m)) => Ab!Charged(m) \in Ab!Meta
<1>1. /\ m.active_slot \in Ab!Slot /\ m.fails \in [Ab!Slot -> 0..MaxFails]
      /\ m.fail_count \in Nat /\ MaxFails \in Nat /\ AB_MAX_FAIL_COUNT \in Nat
  BY DEF Ab!AbAssumption, Ab!Meta
<1>2. m.fails[m.active_slot] + 1 \in 0..MaxFails
  BY <1>1, SMT
<1>3. [m.fails EXCEPT ![m.active_slot] = @ + 1] \in [Ab!Slot -> 0..MaxFails]
  BY <1>1, <1>2
<1>4. Ab!Charged(m) = [m EXCEPT !.fail_count = m.fail_count + 1,
                             !.fails = [m.fails EXCEPT ![m.active_slot] = @ + 1]]
  BY DEF Ab!Charged, Ab!Meta
<1>5. Ab!Charged(m) \in Uncompared /\ Ab!Charged(m).fail_count = m.fail_count + 1
  <2>1. ASSUME NEW n \in Nat, NEW f \in [Ab!Slot -> 0..MaxFails]
        PROVE  LET w == [m EXCEPT !.fail_count = n, !.fails = f]
               IN  w \in Uncompared /\ w.fail_count = n
    <3> DEFINE B == 0..AbBoots
               F == [Ab!Slot -> 0..MaxFails]
               R == 0..(CrcMod - 1)
    <3>1. Uncompared = MetaOver(Ab!Slot, B, Nat, F, R) /\ m \in MetaOver(Ab!Slot, B, Nat, F, R)
      BY MetaIsUncompared, MetaSets
    <3>2. f \in F
      OBVIOUS
    <3> HIDE DEF B, F, R
    <3> QED
      BY <3>1, <3>2 DEF MetaOver
  <2>2. m.fail_count + 1 \in Nat
    BY <1>1, SMT
  <2> DEFINE n == m.fail_count + 1
             f == [m.fails EXCEPT ![m.active_slot] = @ + 1]
  <2>3. /\ n \in Nat /\ f \in [Ab!Slot -> 0..MaxFails]
        /\ Ab!Charged(m) = [m EXCEPT !.fail_count = n, !.fails = f]
    BY <1>3, <1>4, <2>2
  <2>4. Ab!Charged(m) \in Uncompared /\ Ab!Charged(m).fail_count = n
    <3> HIDE DEF n, f
    <3> QED
      BY <2>1, <2>3
  <2> QED
    BY <2>4
<1>6. ASSUME ~Ab!OutOfTries(Ab!Charged(m)) PROVE m.fail_count + 1 \in 0..AB_MAX_FAIL_COUNT - 1
  BY <1>1, <1>5, <1>6, SMT DEF Ab!OutOfTries
<1> QED
  BY <1>3, <1>4, <1>5, <1>6 DEF Ab!Meta

(* A counter below its bound may be counted up.                            *)
LEMMA CountUp ==
  ASSUME NEW n \in Nat, NEW k \in 0..n, k < n PROVE k + 1 \in 0..n
  BY SMT

(***************************************************************************)
(* The invariant: the types, a file that is never accepted, and the count. *)
(***************************************************************************)

AbInv == Ab!TypeOK /\ FileInv /\ Ab!CountsActiveSlot

(* After a save of m, the counter is that of m.                            *)
LEMMA SaveInv ==
  ASSUME Ab!AbAssumption, AbInv, NEW m \in Ab!Meta, Ab!ab_meta_save(m),
         g_initialized' \in BOOLEAN, since' = m.fail_count,
         streak' \in Nat, ab_restarts' = ab_restarts
  PROVE  AbInv'
<1>1. /\ g_meta' \in Ab!Meta /\ g_meta'.fail_count = m.fail_count
      /\ file' \in [kind : {"absent", "short", "full"}, meta : Ab!Meta] /\ FileInv'
  BY SaveKeeps DEF AbInv, Ab!TypeOK
<1>2. since' \in Nat
  BY DEF Ab!AbAssumption, Ab!Meta
<1> QED
  BY <1>1, <1>2 DEF AbInv, Ab!TypeOK, Ab!CountsActiveSlot

LEMMA AbStarts == ASSUME Ab!AbAssumption PROVE Ab!Init => AbInv
<1> SUFFICES ASSUME Ab!Init PROVE AbInv
    OBVIOUS
<1>1. Ab!Default \in Ab!Meta /\ 0 \in 0..AbRestarts
  BY DefaultType, SMT DEF Ab!AbAssumption
<1> QED
  BY <1>1 DEF Ab!Init, AbInv, Ab!TypeOK, Ab!File, FileInv, Ab!CountsActiveSlot

LEMMA AbGoesOn == ASSUME Ab!AbAssumption PROVE AbInv /\ [Ab!Next]_(Ab!vars) => AbInv'
<1> SUFFICES ASSUME AbInv, [Ab!Next]_(Ab!vars) PROVE AbInv'
    OBVIOUS
<1> USE Ab!AbAssumption
<1>t. /\ g_meta \in Ab!Meta /\ g_meta \in Uncompared
      /\ streak \in Nat /\ since \in Nat /\ g_initialized \in BOOLEAN
  BY MetaIsUncompared DEF AbInv, Ab!TypeOK
<1>c. g_initialized => since = g_meta.fail_count
  BY DEF AbInv, Ab!CountsActiveSlot
<1>1. CASE Ab!ab_init
  \* No file is usable, so the metadata starts from the default again.
  <2>1. ~Ab!Usable(file)
    BY DEF AbInv, FileInv, Ab!Usable
  <2>2. Ab!ab_meta_save(Ab!Sealed(Ab!Default)) /\ since' = 0
    BY <1>1, <2>1 DEF Ab!ab_init
  <2>3. Ab!Sealed(Ab!Default) \in Ab!Meta /\ Ab!Sealed(Ab!Default).fail_count = 0
    BY DefaultType, SealBreaks
  <2> QED
    BY <1>1, <1>t, <2>2, <2>3, SaveInv DEF Ab!ab_init
<1>2. CASE Ab!Restart
  <2>1. ab_restarts' \in 0..AbRestarts
    BY <1>2, CountUp DEF Ab!Restart, AbInv, Ab!TypeOK, Ab!AbAssumption
  <2> QED
    BY <1>2, <2>1, DefaultType
       DEF Ab!Restart, AbInv, Ab!TypeOK, FileInv, Ab!CountsActiveSlot
<1>3. CASE Ab!ab_boot_attempt
  <2> DEFINE m == [g_meta EXCEPT !.boot_count = @ + 1]
  <2>1. m \in Ab!Meta /\ m.fail_count = g_meta.fail_count
    <3>1. g_meta.boot_count + 1 \in 0..AbBoots
      <4>1. g_meta.boot_count \in 0..AbBoots /\ g_meta.boot_count < AbBoots
        BY <1>3, <1>t DEF Ab!ab_boot_attempt, Ab!Meta
      <4> QED
        BY <4>1, CountUp DEF Ab!AbAssumption
    <3> QED
      BY <1>t, <3>1 DEF Ab!Meta
  <2>2. Ab!ab_meta_save(m) /\ since' = m.fail_count
    BY <1>3, <1>c, <2>1 DEF Ab!ab_boot_attempt
  <2> QED
    BY <1>3, <1>t, <2>1, <2>2, SaveInv DEF Ab!ab_boot_attempt
<1>4. CASE Ab!ab_boot_succeeded
  <2> DEFINE m == [g_meta EXCEPT !.fail_count = 0,
                                 !.last_known_good_slot = g_meta.active_slot]
  <2>1. m \in Ab!Meta /\ m.fail_count = 0
    <3>1. 0 \in 0..AB_MAX_FAIL_COUNT - 1
      BY SMT DEF Ab!AbAssumption
    <3> QED
      BY <1>t, <3>1 DEF Ab!Meta
  <2>2. Ab!ab_meta_save(m) /\ since' = m.fail_count
    BY <1>4, <2>1 DEF Ab!ab_boot_succeeded
  <2> QED
    BY <1>4, <1>t, <2>1, <2>2, SaveInv DEF Ab!ab_boot_succeeded
<1>5. CASE Ab!ab_boot_failed
  <2> DEFINE m == Ab!Charged(g_meta)
  <2>1. /\ m \in Uncompared /\ m.fail_count = g_meta.fail_count + 1
        /\ ~Ab!OutOfTries(m) => m \in Ab!Meta
    BY <1>5, <1>t, ChargedType DEF Ab!ab_boot_failed
  <2>2. /\ g_initialized' \in BOOLEAN /\ ab_restarts' = ab_restarts
        /\ since + 1 = m.fail_count /\ streak + 1 \in Nat
    BY <1>5, <1>t, <1>c, <2>1 DEF Ab!ab_boot_failed
  <2>3. CASE Ab!OutOfTries(m)
    BY <1>5, <2>1, <2>2, <2>3, SwitchedType, SaveInv DEF Ab!ab_boot_failed
  <2>4. CASE ~Ab!OutOfTries(m)
    BY <1>5, <2>1, <2>2, <2>4, SaveInv DEF Ab!ab_boot_failed
  <2> QED
    BY <2>3, <2>4
<1>6. ASSUME Ab!ab_meta_save(Ab!Switched(g_meta)), since' = 0, streak' = 0,
             g_initialized' = g_initialized, ab_restarts' = ab_restarts
      PROVE  AbInv'
  BY <1>6, <1>t, SwitchedType, SaveInv
<1>7. CASE Ab!ab_switch_slot
  BY <1>6, <1>7 DEF Ab!ab_switch_slot
<1>8. ASSUME NEW s \in Ab!Slot, Ab!ab_mark_bad(s) PROVE AbInv'
  <2>1. CASE s = g_meta.active_slot
    BY <1>6, <1>8, <2>1 DEF Ab!ab_mark_bad
  <2>2. CASE s # g_meta.active_slot
    <3>1. Ab!ab_meta_save(g_meta) /\ since' = g_meta.fail_count
      BY <1>8, <1>c, <2>2 DEF Ab!ab_mark_bad
    <3> QED
      BY <1>8, <1>t, <2>2, <3>1, SaveInv DEF Ab!ab_mark_bad
  <2> QED
    BY <2>1, <2>2
<1>9. CASE UNCHANGED Ab!vars
  BY <1>9 DEF Ab!vars, AbInv, Ab!TypeOK, FileInv, Ab!CountsActiveSlot
<1> QED
  BY <1>1, <1>2, <1>3, <1>4, <1>5, <1>7, <1>8, <1>9 DEF Ab!Next

-----------------------------------------------------------------------------
(* The record of a download.                                               *)

(* The counter of a context agrees with its bitmap.                        *)
Counts(c) == c.received = Cardinality(c.bitmap)

(* A record was begun for the firmware that is offered or an earlier one,  *)
(* has counted the starts that went on with it but for those whose save    *)
(* could not open the file, and names blocks that are stored as long as    *)
(* its own firmware is offered.                                            *)
Begun(c) ==
  c # Image!NoContext =>
    /\ c.attempt >= 1 /\ starts <= c.attempt + unsaved
    /\ c.fw_sha256 <= offered.id
    /\ c.fw_sha256 = offered.id => c.bitmap \subseteq stored

ResumeInv ==
  /\ Image!TypeOK
  /\ Counts(ctx) /\ Counts(record) /\ Begun(ctx) /\ Begun(record)
  /\ Image!Running => ctx.size = offered.size

LEMMA BlocksOf ==
  ASSUME NEW n \in Nat, NEW S \in SUBSET Image!BlocksIn(n)
  PROVE  IsFiniteSet(S) /\ Cardinality(S) \in Nat /\ Cardinality(S) <= n
<1>1. IsFiniteSet(0..n - 1) /\ Cardinality(0..n - 1) = n
  BY FS_Interval
<1>2. IsFiniteSet(S) /\ Cardinality(S) <= Cardinality(0..n - 1)
  BY <1>1, FS_Subset DEF Image!BlocksIn
<1> QED
  BY <1>1, <1>2, FS_CardinalityType

LEMMA CtxType ==
  ASSUME Image!ImageAssumption, Image!TypeOK
  PROVE  ctx \in Image!Contexts /\ ctx.size \in Nat /\ ctx.bitmap \in SUBSET Image!BlocksIn(ctx.size)
<1>1. ctx \in Image!Contexts /\ ctx.bitmap \subseteq Image!BlocksIn(ctx.size)
  BY DEF Image!TypeOK
<1>2. ctx.size \in Size \cup {0}
  BY <1>1 DEF Image!Contexts
<1>3. \A n \in Size \cup {0} : n \in Nat
  BY DEF Image!ImageAssumption
<1> QED
  BY <1>1, <1>2, <1>3

LEMMA NoContextOK ==
  ASSUME Image!ImageAssumption
  PROVE  /\ Image!NoContext \in Image!Contexts /\ Image!NoContext.bitmap = {} /\ Image!NoContext.size = 0
         /\ Image!NoContext.attempt = 0 /\ Counts(Image!NoContext)
<1>1. Cardinality({}) = 0
  BY FS_EmptySet
<1> QED
  BY <1>1 DEF Image!NoContext, Image!Contexts, Counts, Image!ImageAssumption

(* A new record of the firmware that is offered.                           *)
LEMMA FreshOK ==
  ASSUME Image!ImageAssumption, Image!TypeOK
  PROVE  /\ Image!Fresh \in Image!Contexts /\ Image!Fresh # Image!NoContext /\ Image!Fresh.bitmap = {} /\ Image!Fresh.attempt = 1
         /\ Image!Fresh.size = offered.size /\ Image!Fresh.fw_sha256 = offered.id /\ Counts(Image!Fresh)
<1>1. Cardinality({}) = 0
  BY FS_EmptySet
<1>2. offered.id \in 0..MaxChanges + 1 /\ offered.id >= 1 /\ offered.size \in Size
  BY DEF Image!TypeOK, Image!Firmware, Image!ImageAssumption
<1> QED
  BY <1>1, <1>2 DEF Image!Fresh, Image!Contexts, Counts, Image!ImageAssumption, Image!NoContext

LEMMA ResumeStarts == ASSUME Image!ImageAssumption, Image!ResumeInit PROVE ResumeInv
<1>1. offered \in Image!Firmware
  <2>1. offered.size \in Size
    BY DEF Image!ResumeInit, Image!ImageAssumption
  <2> QED
    BY <2>1 DEF Image!ResumeInit, Image!Firmware, Image!ImageAssumption
<1>2. Image!TypeOK
  <2>1. /\ ctx = Image!NoContext /\ record = Image!NoContext /\ saving = FALSE /\ stored = {}
        /\ starts = 0 /\ unsaved = 0
    BY DEF Image!ResumeInit
  <2>2. 0 \in 0..MaxUnsaved /\ 0 \in Nat
    BY DEF Image!ImageAssumption
  <2> QED
    BY <1>1, <2>1, <2>2, NoContextOK DEF Image!TypeOK
<1> QED
  BY <1>1, <1>2, NoContextOK
     DEF Image!ResumeInit, ResumeInv, Begun, Image!Running, Image!Firmware

(* What the beginning of a save leaves on file: nothing, or what was there,*)
(* and then one more save is counted that could not open the file.         *)
LEMMA SaveLeaves ==
  ASSUME Image!ImageAssumption, Image!TypeOK, NEW left, Image!SaveBegins(left)
  PROVE  /\ unsaved' \in 0..MaxUnsaved /\ unsaved' >= unsaved /\ saving' \in BOOLEAN
         /\ record' = Image!NoContext \/ (record' = left /\ unsaved' = unsaved + 1)
<1>1. MaxUnsaved \in Nat /\ unsaved \in 0..MaxUnsaved
  BY DEF Image!TypeOK, Image!ImageAssumption
<1>2. CASE record' = Image!NoContext /\ saving' = TRUE /\ UNCHANGED unsaved
  BY <1>1, <1>2
<1>3. CASE /\ unsaved < MaxUnsaved /\ unsaved' = unsaved + 1
           /\ record' = left /\ saving' = FALSE
  <2>1. unsaved' \in 0..MaxUnsaved /\ unsaved' >= unsaved
    BY <1>1, <1>3
  <2> QED
    BY <1>3, <2>1, Zenon
<1> QED
  BY <1>2, <1>3 DEF Image!SaveBegins

(* resume_init goes on with a record that counts one more attempt, or      *)
(* begins a new one; the file keeps the old one if it cannot be opened.    *)
LEMMA InitGoesOn ==
  ASSUME Image!ImageAssumption, ResumeInv, Image!resume_init
  PROVE  ResumeInv' /\ Image!AttemptsBounded
<1> USE DEF ResumeInv
<1>1. /\ unsaved' \in 0..MaxUnsaved /\ unsaved' >= unsaved /\ saving' \in BOOLEAN
      /\ record' = Image!NoContext \/ (record' = record /\ unsaved' = unsaved + 1)
      /\ UNCHANGED <<offered, stored>>
  BY SaveLeaves DEF Image!resume_init
<1>2. /\ unsaved \in Nat /\ unsaved' \in Nat /\ starts \in Nat /\ offered \in Image!Firmware
      /\ record \in Image!Contexts /\ record.attempt \in Nat
  BY <1>1, CtxType DEF Image!TypeOK, Image!Contexts, Image!ImageAssumption
<1>3. CASE /\ Image!Usable /\ Image!Attempts <= RESUME_MAX_ATTEMPTS
           /\ ctx' = [record EXCEPT !.attempt = Image!Attempts] /\ starts' = starts + 1
  <2>1. ctx' = [record EXCEPT !.attempt = record.attempt + 1] /\ record.attempt + 1 <= RESUME_MAX_ATTEMPTS
    BY <1>3 DEF Image!Attempts
  <2>2. record # Image!NoContext /\ record.size = offered.size /\ record.attempt >= 1
        /\ starts <= record.attempt + unsaved
    BY <1>3 DEF Image!Usable, Begun
  <2>3. /\ ctx' \in Image!Contexts /\ ctx'.size = record.size /\ ctx'.bitmap = record.bitmap
        /\ ctx'.received = record.received /\ ctx'.attempt = record.attempt + 1
        /\ ctx'.fw_sha256 = record.fw_sha256
    BY <2>1, <1>2 DEF Image!Contexts, Image!ImageAssumption
  <2>4. Image!TypeOK'
    BY <1>1, <1>2, <1>3, <2>3, NoContextOK DEF Image!TypeOK
  <2>5. Counts(ctx)' /\ Counts(record)'
    BY <1>1, <2>3, NoContextOK DEF Counts
  <2>6. Begun(ctx)' /\ Begun(record)'
    BY <1>1, <1>2, <1>3, <2>2, <2>3 DEF Begun
  <2>7. Image!AttemptsBounded
    BY <1>2, <1>3, <2>1, <2>2, <2>3 DEF Image!AttemptsBounded, Image!ImageAssumption
  <2> QED
    BY <1>1, <2>2, <2>3, <2>4, <2>5, <2>6, <2>7
<1>4. CASE ctx' = Image!Fresh /\ starts' = 1
  <2>1. Image!TypeOK'
    BY <1>1, <1>2, <1>4, FreshOK, NoContextOK DEF Image!TypeOK
  <2>2. Counts(ctx)' /\ Counts(record)'
    BY <1>1, <1>4, FreshOK, NoContextOK DEF Counts
  <2>3. Begun(ctx)' /\ Begun(record)'
    <3>1. offered.id \in Nat
      BY <1>2 DEF Image!Firmware, Image!ImageAssumption
    <3>2. Begun(ctx)'
      BY <1>1, <1>2, <1>4, <3>1, FreshOK DEF Begun
    <3>3. Begun(record)'
      BY <1>1, <1>2, <1>4 DEF Begun
    <3> QED
      BY <3>2, <3>3
  <2>4. Image!AttemptsBounded
    BY <1>2, <1>4, FreshOK DEF Image!AttemptsBounded, Image!ImageAssumption
  <2> QED
    BY <1>1, <1>4, <2>1, <2>2, <2>3, <2>4, FreshOK
<1> QED
  <2>1. \/ /\ Image!Usable /\ Image!Attempts <= RESUME_MAX_ATTEMPTS
           /\ ctx' = [record EXCEPT !.attempt = Image!Attempts] /\ starts' = starts + 1
        \/ ctx' = Image!Fresh /\ starts' = 1
    BY DEF Image!resume_init
  <2> QED
    BY <2>1, <1>3, <1>4

(* A block that is marked is in the map, and counted once.                 *)
LEMMA MarkGoesOn ==
  ASSUME Image!ImageAssumption, ResumeInv, NEW b \in Image!BlocksIn(ctx.size), Image!resume_mark_block_received(b)
  PROVE  ResumeInv'
<1> USE DEF ResumeInv
<1>1. /\ ctx' = [ctx EXCEPT !.bitmap = ctx.bitmap \cup {b}, !.received = Image!Counted(b)]
      /\ stored' = stored \cup {b} /\ Image!Running /\ UNCHANGED <<offered, starts>>
  BY DEF Image!resume_mark_block_received
<1>2. ctx.size \in Nat /\ ctx.bitmap \in SUBSET Image!BlocksIn(ctx.size) /\ ctx \in Image!Contexts /\ b \in Nat
  BY CtxType DEF Image!BlocksIn
<1>3. Image!Counted(b) = Cardinality(ctx.bitmap \cup {b})
  BY <1>2, BlocksOf, FS_AddElement DEF Image!Counted, Counts
<1>4. Image!Counted(b) \in Nat
  BY <1>2, <1>3, BlocksOf
<1>5. /\ ctx' \in Image!Contexts /\ ctx'.size = ctx.size /\ ctx'.bitmap = ctx.bitmap \cup {b}
      /\ ctx'.received = Image!Counted(b) /\ ctx'.attempt = ctx.attempt /\ ctx'.fw_sha256 = ctx.fw_sha256
  BY <1>1, <1>2, <1>4 DEF Image!Contexts
<1>6. /\ unsaved' \in 0..MaxUnsaved /\ unsaved' >= unsaved /\ saving' \in BOOLEAN
      /\ record' = Image!NoContext \/ (record' = record /\ unsaved' = unsaved + 1)
  BY SaveLeaves DEF Image!resume_mark_block_received
<1>7. Image!TypeOK'
  BY <1>1, <1>2, <1>5, <1>6, NoContextOK DEF Image!TypeOK
<1>8. Counts(ctx)' /\ Counts(record)'
  BY <1>1, <1>3, <1>5, <1>6, NoContextOK DEF Counts
<1>9. Begun(ctx)' /\ Begun(record)'
  <2>1. /\ starts \in Nat /\ unsaved \in Nat /\ unsaved' \in Nat
        /\ ctx.attempt \in Nat /\ record.attempt \in Nat
    BY <1>6 DEF Image!TypeOK, Image!Contexts, Image!ImageAssumption
  <2>2. Begun(ctx)'
    BY <2>1, <1>1, <1>5, <1>6 DEF Begun, Image!Running
  <2>3. Begun(record)'
    BY <2>1, <1>1, <1>6 DEF Begun
  <2> QED
    BY <2>2, <2>3
<1> QED
  BY <1>1, <1>5, <1>7, <1>8, <1>9

LEMMA ResumeGoesOn ==
  ASSUME Image!ImageAssumption, ResumeInv, [Image!ResumeNext]_(Image!resumevars)
  PROVE  ResumeInv' /\ Image!AttemptsBounded
<1> USE DEF ResumeInv
<1>1. CASE Image!resume_init
  BY <1>1, InitGoesOn
<1>2. ASSUME NEW b \in Image!BlocksIn(ctx.size), Image!resume_mark_block_received(b)
      PROVE  ResumeInv' /\ Image!AttemptsBounded
  BY <1>2, MarkGoesOn DEF Image!resume_mark_block_received, Image!AttemptsBounded
<1>3. CASE Image!SaveEnds
  <2>1. /\ record' \in {ctx, Image!NoContext} /\ saving' = FALSE
        /\ UNCHANGED <<ctx, offered, stored, starts, unsaved>>
    BY <1>3 DEF Image!SaveEnds
  <2>2. Image!TypeOK'
    BY <2>1, NoContextOK DEF Image!TypeOK
  <2>3. Counts(record)' /\ Begun(record)' /\ Counts(ctx)' /\ Begun(ctx)'
    BY <2>1, NoContextOK DEF Counts, Begun
  <2> QED
    BY <2>1, <2>2, <2>3 DEF Image!Running, Image!AttemptsBounded
<1>4. CASE Image!resume_reset
  <2>1. /\ ctx' = Image!NoContext /\ record' \in {Image!NoContext, record}
        /\ UNCHANGED <<saving, offered, stored, starts, unsaved>>
    BY <1>4 DEF Image!resume_reset
  <2>2. Image!TypeOK'
    BY <2>1, NoContextOK DEF Image!TypeOK
  <2> QED
    BY <2>1, <2>2, NoContextOK DEF Counts, Begun, Image!Running, Image!AttemptsBounded
<1>5. CASE Image!Crash
  <2>1. ctx' = Image!NoContext /\ saving' = FALSE /\ UNCHANGED <<record, offered, stored, starts, unsaved>>
    BY <1>5 DEF Image!Crash
  <2>2. Image!TypeOK'
    BY <2>1, NoContextOK DEF Image!TypeOK
  <2> QED
    BY <2>1, <2>2, NoContextOK DEF Counts, Begun, Image!Running, Image!AttemptsBounded
<1>6. CASE Image!NewFirmware
  <2>1. /\ ~Image!Running /\ stored' = {} /\ UNCHANGED <<ctx, record, saving, starts, unsaved>>
        /\ offered' \in Image!Firmware /\ offered'.id = offered.id + 1
    BY <1>6 DEF Image!NewFirmware, Image!TypeOK, Image!Firmware, Image!ImageAssumption
  <2>2. Image!TypeOK'
    BY <2>1 DEF Image!TypeOK
  <2>3. Begun(record)' /\ Begun(ctx)'
    <3>1. offered.id \in Int /\ record.fw_sha256 \in Int /\ ctx.fw_sha256 \in Int
      BY DEF Image!TypeOK, Image!Firmware, Image!Contexts
    <3> QED
      BY <3>1, <2>1 DEF Begun
  <2> QED
    BY <2>1, <2>2, <2>3 DEF Counts, Image!Running, Image!AttemptsBounded
<1>7. CASE UNCHANGED Image!resumevars
  BY <1>7 DEF Image!resumevars, Image!TypeOK, Counts, Begun, Image!Running,
              Image!AttemptsBounded
<1> QED
  BY <1>1, <1>2, <1>3, <1>4, <1>5, <1>6, <1>7 DEF Image!ResumeNext

(* Cardinality is the same operator inside and outside of the instance.    *)
LEMMA SameCardinality == \A S : Image!Cardinality(S) = Cardinality(S)
  BY DEF Image!Cardinality, Cardinality

LEMMA ResumeHolds ==
  ASSUME Image!ImageAssumption, ResumeInv
  PROVE  Image!CompleteIsNothingMissing /\ Image!ReceivedIsStored
<1>1. ctx.size \in Nat /\ ctx.bitmap \in SUBSET Image!BlocksIn(ctx.size)
  BY CtxType DEF ResumeInv
<1>2. Cardinality(ctx.bitmap) <= ctx.size
  BY <1>1, BlocksOf
<1>3. Image!CompleteIsNothingMissing
  BY <1>2, SameCardinality DEF ResumeInv, Counts, Image!CompleteIsNothingMissing
<1>4. Image!ReceivedIsStored
  BY DEF ResumeInv, Begun, Image!ReceivedIsStored, Image!Running
<1> QED
  BY <1>3, <1>4

-----------------------------------------------------------------------------
(* The boot loader of the M7.                                              *)

Intact == flash[0] = Boot!Sized("loader", 0) /\ flash[1] = Boot!Sized("old", 1)

(* Once something is erased, neither the loader nor an application can     *)
(* come back: the first page of the application is copied from a page of   *)
(* the staging area that is erased with it.                                *)
Ruined == /\ tried /\ flash[0] = Boot!Erased /\ flash[1] = Boot!Erased
          /\ boot_pc \in {"erase", "copy", "done", "stuck"}

BootInv ==
  /\ Boot!TypeOK /\ Boot!AttemptedOnce
  /\ Ruined \/ Intact
  /\ boot_pc = "erase" => /\ tried /\ at \in {1, 3, 5, 7} /\ (at = 1 <=> Intact)
                          /\ at \in {5, 7} => flash[2] = Boot!Erased
  /\ boot_pc = "copy" => Ruined /\ (at = 1 => flash[2] = Boot!Erased)

LEMMA Pages ==
  /\ Boot!Sized("loader", 0) # Boot!Erased /\ Boot!Sized("old", 1) # Boot!Erased
  /\ \A i \in {"loader", "old", "new", "erased"}, p \in 0..8 :
       Boot!Sized(i, p) \in [img : {"loader", "old", "new", "erased"}, part : 0..8]
  BY DEF Boot!Sized, Boot!Erased

LEMMA Sectors ==
  /\ Boot!PageOf(1 \div 2) = {0, 1} /\ Boot!PageOf(3 \div 2) = {2, 3}
  /\ Boot!PageOf(5 \div 2) = {4, 5} /\ Boot!PageOf(7 \div 2) = {6, 7}
<1>1. 1 \div 2 = 0 /\ 3 \div 2 = 1 /\ 5 \div 2 = 2 /\ 7 \div 2 = 3
  BY SMT
<1> QED
  BY <1>1 DEF Boot!PageOf

LEMMA BootStarts == ASSUME Boot!BootAssumption, Boot!Init PROVE BootInv
<1>1. flash[0] = Boot!Sized("loader", 0) /\ flash[1] = Boot!Sized("old", 1)
  <2>1. 0 \in 0..9 /\ 1 \in 0..9 /\ 1 # 0
    BY SMT
  <2>2. flash[0] = CASE 0 = 0 -> Boot!Sized("loader", 0) [] 0 = 1 -> Boot!Sized("old", 1) [] OTHER -> Boot!Erased
    BY <2>1, Zenon DEF Boot!Init
  <2>3. flash[1] = CASE 1 = 0 -> Boot!Sized("loader", 0) [] 1 = 1 -> Boot!Sized("old", 1) [] OTHER -> Boot!Erased
    BY <2>1, Zenon DEF Boot!Init
  <2> QED
    BY <2>1, <2>2, <2>3, Zenon
<1>2. \A p \in 0..9 : flash[p] \in {Boot!Sized("loader", 0), Boot!Sized("old", 1), Boot!Sized("erased", 0)}
  BY Zenon DEF Boot!Init, Boot!Erased
<1>3. flash \in [0..9 -> [img : {"loader", "old", "new", "erased"}, part : 0..8]]
  BY <1>2, Pages DEF Boot!Init
<1>4. at \in Boot!App /\ at = 1 /\ boot_pc = "app" /\ Intact
  BY <1>1 DEF Boot!Init, Boot!App, Intact
<1>5. stagings \in 0..MaxStagings
  BY DEF Boot!Init, Boot!BootAssumption
<1>6. Boot!TypeOK
  BY <1>3, <1>4, <1>5 DEF Boot!Init, Boot!TypeOK
<1>7. Boot!AttemptedOnce
  BY <1>4 DEF Boot!Init, Boot!AttemptedOnce
<1> QED
  BY <1>4, <1>6, <1>7 DEF BootInv

LEMMA BootGoesOn == ASSUME Boot!BootAssumption, BootInv, [Boot!Next]_(Boot!vars) PROVE BootInv'
<1> USE DEF BootInv
<1>1. CASE Boot!Stage
  <2>1. flash' \in [0..9 -> [img : {"loader", "old", "new", "erased"}, part : 0..8]]
    <3>1. \A p \in Boot!Staging : Boot!Sized("new", p - 1) \in [img : {"loader", "old", "new", "erased"}, part : 0..8]
      BY Pages, SMT DEF Boot!Staging
    <3> QED
      BY <1>1, <3>1 DEF Boot!Stage, Boot!TypeOK
  <2>2. flash'[0] = flash[0] /\ flash'[1] = flash[1]
    BY <1>1, SMT DEF Boot!Stage, Boot!Staging
  <2>3. Intact
    BY <1>1 DEF Boot!Stage, Ruined
  <2> QED
    BY <1>1, <2>1, <2>2, <2>3 DEF Boot!Stage, Boot!TypeOK, Boot!AttemptedOnce, Intact
<1>2. CASE Boot!Reset
  <2>1. boot_pc' \in {"stuck", "reset"} /\ (Ruined => boot_pc' = "stuck")
    BY <1>2 DEF Boot!Reset, Ruined
  <2> QED
    BY <1>2, <2>1 DEF Boot!Reset, Boot!TypeOK, Boot!AttemptedOnce, Intact, Ruined
<1>3. CASE Boot!Main
  BY <1>3 DEF Boot!Main, Boot!TypeOK, Boot!AttemptedOnce, Intact, Ruined
<1>4. CASE Boot!Verify
  <2>1. Intact /\ Intact' /\ at' = 1 /\ at' \in Boot!App
    BY <1>4 DEF Boot!Verify, Ruined, Intact, Boot!App
  <2>2. boot_pc' \in {"erase", "done", "stuck"} /\ (boot_pc' = "erase" => tried') /\ tried' \in BOOLEAN
    BY <1>4 DEF Boot!Verify, Boot!Passes, Boot!TypeOK
  <2> QED
    BY <1>4, <2>1, <2>2 DEF Boot!Verify, Boot!TypeOK, Boot!AttemptedOnce
<1>5. CASE Boot!Erase
  <2>1. CASE boot_pc' = "done" /\ UNCHANGED <<flash, at>>
    BY <1>5, <2>1 DEF Boot!Erase, Boot!TypeOK, Boot!AttemptedOnce, Intact, Ruined
  <2>2. CASE /\ flash' = [p \in 0..9 |-> IF p \in Boot!PageOf(at \div 2) THEN Boot!Erased ELSE flash[p]]
             /\ at' = (IF at + 2 \in Boot!App THEN at + 2 ELSE 1)
             /\ boot_pc' = IF at + 2 \in Boot!App THEN "erase" ELSE "copy"
    <3>1. flash' \in [0..9 -> [img : {"loader", "old", "new", "erased"}, part : 0..8]]
      BY <2>2, Pages DEF Boot!TypeOK, Boot!Erased
    <3>2. boot_pc = "erase" /\ tried /\ tried' /\ UNCHANGED ota_flag
      BY <1>5 DEF Boot!Erase
    <3>3. CASE at = 1
      <4>1. at' = 3 /\ boot_pc' = "erase" /\ flash'[0] = Boot!Erased /\ flash'[1] = Boot!Erased
        BY <2>2, <3>3, Sectors, SMT DEF Boot!App
      <4> QED
        BY <3>1, <3>2, <4>1, Pages
           DEF Boot!TypeOK, Boot!AttemptedOnce, Ruined, Intact, Boot!App
    <3>4. CASE at \in {3, 5, 7}
      <4>1. flash'[0] = flash[0] /\ flash'[1] = flash[1]
        BY <2>2, <3>4, Sectors
      <4>2. /\ at = 3 => at' = 5 /\ boot_pc' = "erase" /\ flash'[2] = Boot!Erased
            /\ at = 5 => at' = 7 /\ boot_pc' = "erase" /\ flash'[2] = flash[2]
            /\ at = 7 => at' = 1 /\ boot_pc' = "copy" /\ flash'[2] = flash[2]
        BY <2>2, Sectors, SMT DEF Boot!App
      <4>3. Ruined
        BY <3>2, <3>4
      <4> QED
        BY <3>1, <3>2, <3>4, <4>1, <4>2, <4>3, Pages
           DEF Boot!TypeOK, Boot!AttemptedOnce, Ruined, Intact, Boot!App
    <3> QED
      BY <3>2, <3>3, <3>4
  <2> QED
    BY <1>5, <2>1, <2>2 DEF Boot!Erase
<1>6. CASE Boot!Write
  <2>1. at \in Boot!App /\ at + 1 \in 0..9 /\ Ruined /\ (at = 1 => flash[2] = Boot!Erased)
    BY <1>6, SMT DEF Boot!Write, Boot!TypeOK, Boot!App
  <2>2. CASE boot_pc' = "done" /\ UNCHANGED <<flash, at>>
    BY <1>6, <2>1, <2>2 DEF Boot!Write, Boot!TypeOK, Boot!AttemptedOnce, Ruined
  <2>3. CASE /\ flash' = [flash EXCEPT ![at] = flash[at + 1]]
             /\ at' = IF at + 1 \in Boot!App THEN at + 1 ELSE at
             /\ boot_pc' = IF at + 1 \in Boot!App THEN "copy" ELSE "done"
    <3>1. flash' \in [0..9 -> [img : {"loader", "old", "new", "erased"}, part : 0..8]]
      BY <2>1, <2>3 DEF Boot!TypeOK
    <3>2. flash'[0] = flash[0] /\ flash'[1] = Boot!Erased
      BY <2>1, <2>3, SMT DEF Ruined, Boot!App, Boot!TypeOK
    <3>3. at' \in Boot!App /\ (boot_pc' = "copy" => at' # 1)
      BY <2>1, <2>3, SMT DEF Boot!App
    <3> QED
      BY <1>6, <2>1, <2>3, <3>1, <3>2, <3>3
         DEF Boot!Write, Boot!TypeOK, Boot!AttemptedOnce, Ruined
  <2> QED
    BY <1>6, <2>2, <2>3 DEF Boot!Write
<1>7. CASE Boot!Lost
  BY <1>7 DEF Boot!Lost, Boot!TypeOK, Boot!AttemptedOnce, Intact, Ruined
<1>8. CASE Boot!Jump
  BY <1>8, Pages DEF Boot!Jump, Boot!Cleared, Boot!TypeOK, Boot!AttemptedOnce, Intact,
                     Ruined
<1>9. CASE UNCHANGED Boot!vars
  BY <1>9 DEF Boot!vars, Boot!TypeOK, Boot!AttemptedOnce, Intact, Ruined
<1> QED
  BY <1>1, <1>2, <1>3, <1>4, <1>5, <1>6, <1>7, <1>8, <1>9 DEF Boot!Next

LEMMA BootHolds == ASSUME BootInv PROVE Boot!EraseNeedsProof
  BY DEF BootInv, Boot!EraseNeedsProof, Intact, Ruined

-----------------------------------------------------------------------------
(* The upgrade of the gauge.                                               *)

(* What matched was taken as it was sent; the phases after the transfer    *)
(* have every block, and those after the comparison a matching one.        *)
Taken == \A b \in 1..sent : b \in computed_ok => gauge[b] = "new" /\ (b < Blocks \/ whole)

Order == /\ upg_phase \in {"VERIFY", "EXIT_ROM", "COMPLETE"} => sent = Blocks
         /\ upg_phase \in {"EXIT_ROM", "COMPLETE"} => Gauge!AllMatch
         /\ upg_phase = "COMPLETE" => ~rom
         /\ upg_phase # "FAILED" => retries <= MAX_RETRIES

(* The time-out bounds each half of the upgrade, up to the last call.      *)
Timed ==
  /\ upg_phase = "ENTER_ROM" =>
       /\ start_age < UPGRADE_TIMEOUT => busy_for <= start_age
       /\ busy_for <= UPGRADE_TIMEOUT - 1 + upg_gap
  /\ upg_phase \in {"TRANSFER", "VERIFY", "EXIT_ROM"} =>
       /\ start_age < UPGRADE_TIMEOUT => busy_for <= UPGRADE_TIMEOUT - 1 + start_age
       /\ busy_for <= 2 * (UPGRADE_TIMEOUT - 1) + upg_gap

GaugeInv == Gauge!TypeOK /\ Taken /\ Order /\ Timed

LEMMA GaugeStarts == ASSUME Gauge!UpgradeAssumption, Gauge!Init PROVE GaugeInv
<1>1. 0 \in 0..UPGRADE_TIMEOUT /\ 0 \in 0..Blocks /\ 0 \in 0..MAX_RETRIES + 1 /\ 0 \in 0..Gauge!BusyMax
      /\ 0 \in 0..MaxGap /\ 0 <= MAX_RETRIES /\ 1..0 = {}
  BY DEF Gauge!UpgradeAssumption, Gauge!BusyMax
<1>2. Gauge!TypeOK
  BY <1>1 DEF Gauge!Init, Gauge!TypeOK, Gauge!Phase
<1> QED
  BY <1>1, <1>2 DEF Gauge!Init, GaugeInv, Taken, Order, Timed

LEMMA TaskGoesOn ==
  ASSUME Gauge!UpgradeAssumption, GaugeInv, Gauge!UPGRADE_Task PROVE GaugeInv'
<1> USE DEF GaugeInv
<1>1. CASE Gauge!TimedOut
  <2>1. upg_phase' = "FAILED" /\ upg_gap' = 0
        /\ UNCHANGED <<start_age, sent, retries, computed_ok, whole, rom, gauge, busy_for>>
    BY <1>1 DEF Gauge!UPGRADE_Task
  <2> QED
    BY <2>1 DEF Gauge!TypeOK, Gauge!Phase, Taken, Order, Timed, Gauge!UpgradeAssumption
<1>2. CASE ~Gauge!TimedOut
  <2>1. upg_gap' = 0 /\ busy_for' = busy_for /\ (Gauge!EnterRom \/ Gauge!Transfer \/ Gauge!Verify \/ Gauge!ExitRom)
    BY <1>2 DEF Gauge!UPGRADE_Task
  <2>2. upg_phase # "COMPLETE" => start_age < UPGRADE_TIMEOUT
    BY <1>2 DEF Gauge!TimedOut, Gauge!TypeOK, Gauge!UpgradeAssumption
  <2>3. ASSUME Gauge!Retry, upg_phase \notin {"FAILED", "IDLE", "COMPLETE"}
        PROVE  /\ retries' \in 0..MAX_RETRIES + 1 /\ upg_phase' \in {upg_phase, "FAILED"}
               /\ upg_phase' # "FAILED" => retries' <= MAX_RETRIES
               /\ UNCHANGED <<start_age, sent, computed_ok, whole>>
    BY <2>3 DEF Gauge!Retry, Order, Gauge!TypeOK, Gauge!UpgradeAssumption
  <2>4. CASE Gauge!EnterRom
    <3>1. /\ upg_phase = "ENTER_ROM" /\ upg_phase' \in {"ENTER_ROM", "FAILED", "TRANSFER"}
          /\ upg_phase' \in {"ENTER_ROM", "FAILED"} => start_age' = start_age
          /\ upg_phase' = "TRANSFER" => start_age' = 0
          /\ retries' \in 0..MAX_RETRIES + 1 /\ UNCHANGED <<sent, computed_ok, whole, gauge>>
          /\ upg_phase' # "FAILED" => retries' <= MAX_RETRIES
      <4>1. CASE Gauge!Retry
        BY <2>3, <2>4, <4>1 DEF Gauge!EnterRom
      <4>2. CASE ~Gauge!Retry
        <5>1. 0 \in 0..MAX_RETRIES + 1 /\ 0 <= MAX_RETRIES
          BY DEF Gauge!UpgradeAssumption
        <5> QED
          BY <2>4, <4>2, <5>1 DEF Gauge!EnterRom
      <4> QED
        BY <4>1, <4>2
    <3>2. rom' \in BOOLEAN
      BY <2>4 DEF Gauge!EnterRom, Gauge!TypeOK
    <3>3. Taken' /\ Order'
      BY <3>1 DEF Taken, Order
    <3>4. Timed'
      BY <2>1, <2>2, <3>1 DEF Timed, Gauge!TypeOK, Gauge!UpgradeAssumption
    <3> QED
      BY <2>1, <3>1, <3>2, <3>3, <3>4 DEF Gauge!TypeOK, Gauge!Phase, Gauge!UpgradeAssumption
  <2>5. CASE Gauge!Transfer
    <3>1. /\ UNCHANGED <<rom, whole, start_age>> /\ upg_phase = "TRANSFER"
          /\ upg_phase' \in {"TRANSFER", "FAILED", "VERIFY"} /\ retries' \in 0..MAX_RETRIES + 1
          /\ upg_phase' # "FAILED" => retries' <= MAX_RETRIES
      BY <2>3, <2>5 DEF Gauge!Transfer, Order, Gauge!TypeOK, Gauge!UpgradeAssumption
    <3>2. \/ UNCHANGED <<sent, computed_ok, gauge>> /\ (upg_phase' = "VERIFY" => sent = Blocks)
          \/ /\ sent < Blocks /\ sent' = sent /\ computed_ok' = computed_ok /\ upg_phase' # "VERIFY"
             /\ \E content \in {"new", "bad"} : gauge' = [gauge EXCEPT ![sent + 1] = content]
          \/ /\ sent < Blocks /\ sent' = sent + 1 /\ upg_phase' # "VERIFY"
             /\ \E content \in {"new", "bad"} :
                  /\ gauge' = [gauge EXCEPT ![sent + 1] = content]
                  /\ computed_ok' = IF Gauge!Matches(sent + 1, content) THEN computed_ok \cup {sent + 1}
                                    ELSE computed_ok \ {sent + 1}
      BY <2>3, <2>5 DEF Gauge!Transfer
    <3>3. Timed'
      BY <2>1, <2>2, <3>1 DEF Timed, Gauge!TypeOK, Gauge!UpgradeAssumption
    <3>4. Order'
      BY <3>1, <3>2 DEF Order
    <3>5. Taken' /\ sent' \in 0..Blocks /\ computed_ok' \subseteq 1..Blocks
          /\ gauge' \in [1..Blocks -> {"old", "new", "bad"}]
      <4>1. CASE UNCHANGED <<sent, computed_ok, gauge>>
        BY <3>1, <4>1 DEF Taken, Gauge!TypeOK
      <4>2. CASE /\ sent < Blocks /\ sent' = sent /\ computed_ok' = computed_ok
                 /\ \E content \in {"new", "bad"} : gauge' = [gauge EXCEPT ![sent + 1] = content]
        BY <3>1, <4>2 DEF Taken, Gauge!TypeOK, Gauge!UpgradeAssumption
      <4>3. ASSUME NEW content \in {"new", "bad"}, sent < Blocks, sent' = sent + 1,
                   gauge' = [gauge EXCEPT ![sent + 1] = content],
                   computed_ok' = IF Gauge!Matches(sent + 1, content) THEN computed_ok \cup {sent + 1}
                                  ELSE computed_ok \ {sent + 1}
            PROVE  Taken' /\ sent' \in 0..Blocks /\ computed_ok' \subseteq 1..Blocks
                   /\ gauge' \in [1..Blocks -> {"old", "new", "bad"}]
        <5>1. sent' \in 0..Blocks /\ computed_ok' \subseteq 1..Blocks
              /\ gauge' \in [1..Blocks -> {"old", "new", "bad"}] /\ sent + 1 \in 1..Blocks
          BY <4>3 DEF Gauge!TypeOK, Gauge!UpgradeAssumption
        <5>2. ASSUME NEW b \in 1..sent', b \in computed_ok'
              PROVE  gauge'[b] = "new" /\ (b < Blocks \/ whole)
          <6>1. CASE b = sent + 1
            BY <4>3, <5>1, <5>2, <6>1 DEF Gauge!Matches, Gauge!TypeOK
          <6>2. CASE b # sent + 1
            <7>1. b \in 1..sent /\ b \in computed_ok /\ gauge'[b] = gauge[b]
              BY <4>3, <5>1, <5>2, <6>2 DEF Gauge!TypeOK
            <7> QED
              BY <7>1 DEF Taken
          <6> QED
            BY <6>1, <6>2
        <5> QED
          BY <3>1, <5>1, <5>2 DEF Taken
      <4> QED
        BY <3>2, <4>1, <4>2, <4>3
    <3> QED
      BY <2>1, <3>1, <3>3, <3>4, <3>5 DEF Gauge!TypeOK, Gauge!Phase, Gauge!UpgradeAssumption
  <2>6. CASE Gauge!Verify
    <3>1. /\ upg_phase = "VERIFY" /\ upg_phase' = IF Gauge!AllMatch THEN "EXIT_ROM" ELSE "FAILED"
          /\ UNCHANGED <<start_age, sent, retries, computed_ok, whole, rom, gauge>>
      BY <2>6 DEF Gauge!Verify
    <3>2. Taken' /\ Order'
      BY <3>1 DEF Taken, Order, Gauge!AllMatch
    <3>3. Timed'
      BY <2>1, <2>2, <3>1 DEF Timed, Gauge!TypeOK, Gauge!UpgradeAssumption
    <3> QED
      BY <2>1, <3>1, <3>2, <3>3 DEF Gauge!TypeOK, Gauge!Phase, Gauge!UpgradeAssumption
  <2>7. CASE Gauge!ExitRom
    <3>1. /\ upg_phase = "EXIT_ROM" /\ upg_phase' \in {"EXIT_ROM", "FAILED", "COMPLETE"}
          /\ retries' \in 0..MAX_RETRIES + 1 /\ rom' \in BOOLEAN /\ (upg_phase' = "COMPLETE" => ~rom')
          /\ upg_phase' # "FAILED" => retries' <= MAX_RETRIES
          /\ UNCHANGED <<start_age, sent, computed_ok, whole, gauge>>
      BY <2>3, <2>7 DEF Gauge!ExitRom, Order, Gauge!TypeOK, Gauge!UpgradeAssumption
    <3>2. Taken' /\ Order'
      BY <3>1 DEF Taken, Order, Gauge!AllMatch
    <3>3. Timed'
      BY <2>1, <2>2, <3>1 DEF Timed, Gauge!TypeOK, Gauge!UpgradeAssumption
    <3> QED
      BY <2>1, <3>1, <3>2, <3>3 DEF Gauge!TypeOK, Gauge!Phase, Gauge!UpgradeAssumption
  <2> QED
    BY <2>1, <2>4, <2>5, <2>6, <2>7
<1> QED
  BY <1>1, <1>2

LEMMA GaugeGoesOn == ASSUME Gauge!UpgradeAssumption, GaugeInv, [Gauge!Next]_(Gauge!vars) PROVE GaugeInv'
<1> USE DEF GaugeInv
<1>1. CASE Gauge!UPGRADE_Start
  <2>1. Gauge!TypeOK'
    BY <1>1 DEF Gauge!UPGRADE_Start, Gauge!TypeOK, Gauge!Phase, Gauge!BusyMax,
                Gauge!UpgradeAssumption
  <2>2. Taken' /\ Order' /\ Timed'
    BY <1>1 DEF Gauge!UPGRADE_Start, Taken, Order, Timed, Gauge!UpgradeAssumption
  <2> QED
    BY <2>1, <2>2
<1>2. CASE Gauge!UPGRADE_Task
  BY <1>2, TaskGoesOn
<1>3. CASE Gauge!UPGRADE_Reset
  <2>1. Gauge!TypeOK'
    BY <1>3 DEF Gauge!UPGRADE_Reset, Gauge!TypeOK, Gauge!Phase, Gauge!UpgradeAssumption
  <2>2. Taken' /\ Order' /\ Timed'
    BY <1>3 DEF Gauge!UPGRADE_Reset, Taken, Order, Timed, Gauge!UpgradeAssumption
  <2> QED
    BY <2>1, <2>2
<1>4. CASE Gauge!Tick
  <2>1. Gauge!TypeOK'
    <3>1. start_age' \in 0..UPGRADE_TIMEOUT /\ upg_gap' \in 0..MaxGap
      BY <1>4 DEF Gauge!Tick, Gauge!TypeOK, Gauge!UpgradeAssumption
    <3>2. Gauge!BusyMax \in Nat
      BY DEF Gauge!BusyMax, Gauge!UpgradeAssumption
    <3>3. busy_for' \in 0..Gauge!BusyMax
      BY <1>4, <3>2 DEF Gauge!Tick, Gauge!TypeOK
    <3> QED
      BY <1>4, <3>1, <3>3 DEF Gauge!Tick, Gauge!TypeOK
  <2>2. Taken' /\ Order'
    BY <1>4 DEF Gauge!Tick, Taken, Order, Gauge!AllMatch
  <2>3. Timed'
    <3> SUFFICES ASSUME Gauge!Busy PROVE Timed'
      BY <1>4 DEF Gauge!Tick, Timed, Gauge!Busy
    <3>1. /\ upg_gap' = upg_gap + 1 /\ upg_phase' = upg_phase
          /\ busy_for' \in {busy_for, busy_for + 1} /\ busy_for' <= busy_for + 1
          /\ start_age < UPGRADE_TIMEOUT => start_age' = start_age + 1
          /\ start_age' < UPGRADE_TIMEOUT => start_age < UPGRADE_TIMEOUT
      BY <1>4 DEF Gauge!Tick, Gauge!TypeOK, Gauge!UpgradeAssumption, Gauge!BusyMax
    <3>2. busy_for \in Nat /\ upg_gap \in Nat /\ start_age \in Nat /\ UPGRADE_TIMEOUT \in Nat \ {0}
      BY DEF Gauge!TypeOK, Gauge!UpgradeAssumption, Gauge!BusyMax
    <3> HIDE DEF GaugeInv
    <3>3. Timed
      BY DEF GaugeInv
    <3> QED
      BY <3>1, <3>2, <3>3 DEF Timed
  <2> QED
    BY <2>1, <2>2, <2>3
<1>5. CASE UNCHANGED Gauge!vars
  BY <1>5 DEF Gauge!vars, Gauge!TypeOK, Taken, Order, Gauge!AllMatch, Timed
<1> QED
  BY <1>1, <1>2, <1>3, <1>4, <1>5 DEF Gauge!Next

LEMMA GaugeHolds ==
  ASSUME Gauge!UpgradeAssumption, GaugeInv PROVE Gauge!SuccessIsWhole /\ Gauge!BusyTimeBounded
<1>1. Gauge!SuccessIsWhole
  <2> SUFFICES ASSUME upg_phase = "COMPLETE" 
               PROVE  ~rom /\ whole /\ \A b \in 1..Blocks : gauge[b] = "new"
    BY DEF Gauge!SuccessIsWhole
  <2>1. ~rom /\ \A b \in 1..Blocks : gauge[b] = "new" /\ (b < Blocks \/ whole)
    BY DEF GaugeInv, Taken, Order, Gauge!AllMatch
  <2>2. Blocks \in 1..Blocks /\ ~(Blocks < Blocks)
    BY DEF Gauge!UpgradeAssumption
  <2> QED
    BY <2>1, <2>2
<1>2. Gauge!BusyTimeBounded
  BY DEF Gauge!BusyTimeBounded, Gauge!Busy, GaugeInv, Gauge!TypeOK, Timed,
         Gauge!UpgradeAssumption
<1> QED
  BY <1>1, <1>2

-----------------------------------------------------------------------------
(* The boot variables of the RK3566.                                       *)

(* Between the two writes of the mark the application runs, and nothing is *)
(* confirmed.                                                              *)
RkInv == Rk!TypeOK /\ Rk!ConfirmedStays /\ (marking = "flag" => rk_up /\ ~confirmed)

LEMMA RkStarts == ASSUME Rk!Init PROVE RkInv
  BY DEF Rk!Init, RkInv, Rk!TypeOK, Rk!ConfirmedStays, Rk!Slot

(* What a write of one variable leaves.                                    *)
LEMMA Writes ==
  ASSUME Rk!TypeOK
  PROVE  /\ \A s \in Rk!Slot, tool \in BOOLEAN : Rk!rk_boot_set_slot(s, tool) =>
              /\ env' \in [bootslot : Rk!Slot, bootcount : Nat, upgrade_available : {0, 1}]
              /\ env'.upgrade_available = env.upgrade_available
         /\ \A tool \in BOOLEAN : Rk!rk_boot_set_bootcount(0, tool) =>
              /\ env' \in [bootslot : Rk!Slot, bootcount : Nat, upgrade_available : {0, 1}]
              /\ env'.upgrade_available = env.upgrade_available
         /\ \A on \in {0, 1}, tool \in BOOLEAN : Rk!rk_boot_set_upgrade_available(on, tool) =>
              /\ env' \in [bootslot : Rk!Slot, bootcount : Nat, upgrade_available : {0, 1}]
              /\ env'.upgrade_available = IF tool THEN on ELSE env.upgrade_available
  BY DEF Rk!TypeOK, Rk!rk_boot_set_slot, Rk!rk_boot_set_bootcount,
         Rk!rk_boot_set_upgrade_available,
         Rk!rk_boot_env_write

LEMMA RkGoesOn == ASSUME RkInv, [Rk!Next]_(Rk!rkvars) PROVE RkInv'
<1> USE DEF RkInv
<1>1. CASE Rk!rk_boot_mark_successful
  <2>1. CASE /\ marking = "none" /\ ~confirmed /\ UNCHANGED <<confirmed, slot, rk_up, good, activated>>
             /\ \E tool \in BOOLEAN :
                  Rk!rk_boot_set_bootcount(0, tool) /\ marking' = IF tool THEN "flag" ELSE "none"
    <3>1. PICK tool \in BOOLEAN :
            Rk!rk_boot_set_bootcount(0, tool) /\ marking' = IF tool THEN "flag" ELSE "none"
      BY <2>1
    <3>2. Rk!TypeOK'
      BY <2>1, <3>1, Writes DEF Rk!TypeOK
    <3> QED
      BY <1>1, <2>1, <3>2 DEF Rk!ConfirmedStays, Rk!rk_boot_mark_successful
  <2>2. CASE /\ marking = "flag" /\ marking' = "none" /\ UNCHANGED <<slot, rk_up, good, activated>>
             /\ \E tool \in BOOLEAN : Rk!Cleared(tool) /\ confirmed' = tool
    BY <2>2, Writes DEF Rk!TypeOK, Rk!ConfirmedStays, Rk!Cleared
  <2> QED
    BY <1>1, <2>1, <2>2 DEF Rk!rk_boot_mark_successful
<1>2. CASE Rk!Stage
  <2>1. PICK tool \in BOOLEAN : Rk!rk_boot_set_upgrade_available(1, tool) /\ confirmed' = ~tool
    BY <1>2 DEF Rk!Stage
  <2>2. good' \subseteq Rk!Slot
    BY <1>2 DEF Rk!Stage, Rk!TypeOK, Rk!Other, Rk!Slot
  <2>3. /\ env' \in [bootslot : Rk!Slot, bootcount : Nat, upgrade_available : {0, 1}]
        /\ env'.upgrade_available = IF tool THEN 1 ELSE env.upgrade_available
    BY <2>1, Writes
  <2>4. Rk!TypeOK'
    BY <1>2, <2>1, <2>2, <2>3 DEF Rk!Stage, Rk!TypeOK
  <2> QED
    BY <1>2, <2>1, <2>3, <2>4 DEF Rk!Stage, Rk!TypeOK, Rk!ConfirmedStays
<1>3. CASE Rk!Activate
  <2>1. activated' \in BOOLEAN /\ \E s \in Rk!Slot, tool \in BOOLEAN : Rk!rk_boot_set_slot(s, tool)
    BY <1>3 DEF Rk!Activate, Rk!rk_boot_switch_slot, Rk!rk_boot_set_slot
  <2> QED
    BY <1>3, <2>1, Writes DEF Rk!Activate, Rk!TypeOK, Rk!ConfirmedStays
<1>4. CASE Rk!Crash
  BY <1>4 DEF Rk!Crash, Rk!TypeOK, Rk!ConfirmedStays
<1>5. CASE Rk!Boot
  <2>1. PICK count \in {env.bootcount, env.bootcount + 1}, back \in BOOLEAN :
          /\ back => env.upgrade_available = 1
          /\ env' = IF back THEN [bootslot |-> Rk!Other(env.bootslot), bootcount |-> 0,
                                  upgrade_available |-> 0]
                    ELSE [env EXCEPT !.bootcount = count]
          /\ confirmed' = (confirmed \/ back)
    BY <1>5 DEF Rk!Boot
  <2>2. /\ env' \in [bootslot : Rk!Slot, bootcount : Nat, upgrade_available : {0, 1}]
        /\ env'.upgrade_available = IF back THEN 0 ELSE env.upgrade_available
    BY <2>1 DEF Rk!TypeOK, Rk!Other, Rk!Slot
  <2>3. slot' \in Rk!Slot /\ rk_up' \in BOOLEAN /\ UNCHANGED <<good, marking>> /\ confirmed' \in BOOLEAN
        /\ activated' = FALSE
    BY <1>5, <2>1, <2>2 DEF Rk!Boot, Rk!TypeOK
  <2>4. Rk!TypeOK'
    <3>1. slot' \in Rk!Slot /\ good' \subseteq Rk!Slot /\ marking' \in {"none", "flag"}
      BY <2>3 DEF Rk!TypeOK
    <3> QED
      BY <2>2, <2>3, <3>1, Zenon DEF Rk!TypeOK
  <2>5. Rk!ConfirmedStays'
    <3>1. CASE back
      BY <2>2, <3>1 DEF Rk!ConfirmedStays
    <3>2. CASE ~back
      <4>1. confirmed' = confirmed /\ env'.upgrade_available = env.upgrade_available
        BY <2>1, <2>2, <3>2, Zenon DEF Rk!TypeOK
      <4> QED
        BY <2>3, <4>1 DEF Rk!ConfirmedStays
    <3> QED
      BY <3>1, <3>2
  <2>6. marking' = "none"
    BY <1>5, <2>3 DEF Rk!Boot, Rk!TypeOK
  <2> QED
    BY <2>1, <2>3, <2>4, <2>5, <2>6
<1>6. CASE UNCHANGED Rk!rkvars
  BY <1>6 DEF Rk!rkvars, Rk!TypeOK, Rk!ConfirmedStays
<1> QED
  BY <1>1, <1>2, <1>3, <1>4, <1>5, <1>6 DEF Rk!Next

-----------------------------------------------------------------------------
(* The difference of two images: numbers.                                  *)

(* The library's induction takes an operator; this one a set.              *)
LEMMA SetInduction ==
  ASSUME NEW S, 0 \in S, \A n \in Nat : n \in S => n + 1 \in S
  PROVE  Nat \subseteq S
<1> DEFINE T == Nat \ S
           R == OpToRel(<, Nat)
<1> SUFFICES ASSUME T # {} PROVE FALSE
  OBVIOUS
<1>1. PICK x \in T : \A y \in T : ~(<<y, x>> \in R)
  <2>1. IsWellFoundedOn(R, Nat)
    BY NatLessThanWellFounded
  <2> HIDE DEF R
  <2> QED
    BY <2>1, WFMin
<1>2. x # 0 /\ x - 1 \in Nat /\ x - 1 < x
  OBVIOUS
<1>3. <<x - 1, x>> \in R
  BY <1>2 DEF OpToRel
<1>4. x - 1 \in S
  BY <1>1, <1>2, <1>3
<1>5. (x - 1) + 1 \in S
  BY <1>2, <1>4
<1>6. x \in Nat /\ x \notin S
  OBVIOUS
<1>7. (x - 1) + 1 = x
  BY <1>6
<1> QED
  BY <1>5, <1>6, <1>7

LEMMA Least ==
  ASSUME NEW S \in SUBSET Nat, S # {}
  PROVE  \E x \in S : \A y \in S : x <= y
<1> DEFINE R == OpToRel(<, Nat)
<1>1. PICK x \in S : \A y \in S : ~(<<y, x>> \in R)
  <2>1. IsWellFoundedOn(R, Nat)
    BY NatLessThanWellFounded
  <2> HIDE DEF R
  <2> QED
    BY <2>1, WFMin
<1>2. ASSUME NEW y \in S PROVE x <= y
  <2>1. ~(y < x)
    BY <1>1 DEF OpToRel
  <2> QED
    BY <2>1
<1> QED
  BY <1>2

LEMMA Greatest ==
  ASSUME NEW S \in SUBSET Nat, S # {}, NEW n \in Nat, \A x \in S : x <= n
  PROVE  \E x \in S : \A y \in S : y <= x
<1> DEFINE T == {n - x : x \in S}
<1>1. T \in SUBSET Nat /\ T # {}
  <2>1. \A x \in S : n - x \in Nat /\ n - x \in T
    OBVIOUS
  <2> QED
    BY <2>1
<1>2. PICK t \in T : \A u \in T : t <= u
  BY <1>1, Least
<1>3. PICK x \in S : t = n - x
  BY <1>2
<1>4. ASSUME NEW y \in S PROVE y <= x
  <2>1. n - y \in T
    OBVIOUS
  <2>2. n - x <= n - y
    BY <1>2, <1>3, <2>1
  <2> QED
    BY <2>2
<1> QED
  BY <1>4

-----------------------------------------------------------------------------
(* The order of the suffixes.  A suffix goes on behind the end with symbols*)
(* below every byte; two of them are compared by their first k symbols.    *)
Symbol(buf, p) == IF p < Len(buf) THEN buf[p + 1] ELSE -1
Same(buf, k, i, j)   == \A e \in 0..k - 1 : Symbol(buf, i + e) = Symbol(buf, j + e)
Before(buf, k, i, j) ==
  \E d \in 0..k - 1 : Symbol(buf, i + d) < Symbol(buf, j + d) /\ Same(buf, d, i, j)

LEMMA Symbols ==
  ASSUME NEW buf \in Seq(Nat), NEW p \in Nat
  PROVE  /\ Symbol(buf, p) \in Int /\ Symbol(buf, p) >= -1
         /\ p >= Len(buf) => Symbol(buf, p) = -1
         /\ p < Len(buf) => Symbol(buf, p) \in Nat /\ Symbol(buf, p) = buf[p + 1]
<1>1. p < Len(buf) => p + 1 \in 1..Len(buf)
  OBVIOUS
<1>2. p < Len(buf) => buf[p + 1] \in Nat
  BY <1>1
<1> QED
  BY <1>2 DEF Symbol

(* Twice as many symbols are compared by comparing twice as many.          *)
LEMMA SameTwice ==
  ASSUME NEW buf \in Seq(Nat), NEW k \in Nat, NEW m \in Nat, NEW i \in Nat, NEW j \in Nat
  PROVE  Same(buf, k + m, i, j) <=> Same(buf, k, i, j) /\ Same(buf, m, i + k, j + k)
<1>1. ASSUME Same(buf, k + m, i, j) PROVE Same(buf, k, i, j) /\ Same(buf, m, i + k, j + k)
  <2>1. Same(buf, k, i, j)
    BY <1>1 DEF Same
  <2>2. ASSUME NEW e \in 0..m - 1 PROVE Symbol(buf, (i + k) + e) = Symbol(buf, (j + k) + e)
    <3>1. k + e \in 0..(k + m) - 1 /\ (i + k) + e = i + (k + e) /\ (j + k) + e = j + (k + e)
      OBVIOUS
    <3> QED
      BY <1>1, <3>1 DEF Same
  <2> QED
    BY <2>1, <2>2 DEF Same
<1>2. ASSUME Same(buf, k, i, j), Same(buf, m, i + k, j + k) PROVE Same(buf, k + m, i, j)
  <2>1. ASSUME NEW e \in 0..(k + m) - 1 PROVE Symbol(buf, i + e) = Symbol(buf, j + e)
    <3>1. CASE e < k
      BY <1>2, <3>1 DEF Same
    <3>2. CASE e >= k
      <4>1. e - k \in 0..m - 1 /\ (i + k) + (e - k) = i + e /\ (j + k) + (e - k) = j + e
        BY <3>2
      <4>2. Symbol(buf, (i + k) + (e - k)) = Symbol(buf, (j + k) + (e - k))
        BY <1>2, <4>1 DEF Same
      <4> QED
        BY <4>1, <4>2
    <3> QED
      BY <3>1, <3>2
  <2> QED
    BY <2>1 DEF Same
<1> QED
  BY <1>1, <1>2

LEMMA BeforeTwice ==
  ASSUME NEW buf \in Seq(Nat), NEW k \in Nat, NEW m \in Nat, NEW i \in Nat, NEW j \in Nat
  PROVE  Before(buf, k + m, i, j) <=>
           \/ Before(buf, k, i, j)
           \/ Same(buf, k, i, j) /\ Before(buf, m, i + k, j + k)
<1>1. ASSUME Before(buf, k + m, i, j), ~Before(buf, k, i, j)
      PROVE  Same(buf, k, i, j) /\ Before(buf, m, i + k, j + k)
  <2>1. PICK d \in 0..(k + m) - 1 :
          Symbol(buf, i + d) < Symbol(buf, j + d) /\ Same(buf, d, i, j)
    BY <1>1 DEF Before
  <2>2. d >= k
    BY <1>1, <2>1 DEF Before
  <2>3. PICK x \in 0..m - 1 : x = d - k
    BY <2>2
  <2>4. x \in Nat /\ d = k + x /\ (i + k) + x = i + d /\ (j + k) + x = j + d
    BY <2>2, <2>3
  <2>5. Same(buf, k, i, j) /\ Same(buf, x, i + k, j + k)
    <3>1. Same(buf, k + x, i, j)
      BY <2>1, <2>4
    <3> QED
      BY <2>4, <3>1, SameTwice
  <2> QED
    BY <2>1, <2>4, <2>5 DEF Before
<1>2. ASSUME Before(buf, k, i, j) PROVE Before(buf, k + m, i, j)
  <2>1. \A d \in 0..k - 1 : d \in 0..(k + m) - 1
    OBVIOUS
  <2> QED
    BY <1>2, <2>1 DEF Before
<1>3. ASSUME Same(buf, k, i, j), Before(buf, m, i + k, j + k) PROVE Before(buf, k + m, i, j)
  <2>1. PICK d \in 0..m - 1 : /\ Symbol(buf, (i + k) + d) < Symbol(buf, (j + k) + d)
                              /\ Same(buf, d, i + k, j + k)
    BY <1>3 DEF Before
  <2>2. d \in Nat /\ k + d \in 0..(k + m) - 1
        /\ (i + k) + d = i + (k + d) /\ (j + k) + d = j + (k + d)
    OBVIOUS
  <2>3. Same(buf, k + d, i, j)
    BY <1>3, <2>1, <2>2, SameTwice
  <2> QED
    BY <2>1, <2>2, <2>3 DEF Before
<1> QED
  BY <1>1, <1>2, <1>3

(* Behind the end nothing is left to compare: suffixes are different.      *)
LEMMA SuffixesDiffer ==
  ASSUME NEW buf \in Seq(Nat), NEW k \in Nat, k >= Len(buf),
         NEW i \in Image!Positions(buf), NEW j \in Image!Positions(buf), Same(buf, k, i, j)
  PROVE  i = j
<1> USE DEF Image!Positions
<1>1. ASSUME NEW p \in Image!Positions(buf), NEW q \in Image!Positions(buf), p < q,
             Same(buf, k, p, q)
      PROVE  FALSE
  <2> DEFINE e == Len(buf) - q
  <2>1. e \in 0..k - 1 /\ e \in Nat /\ q + e = Len(buf) /\ p + e < Len(buf) /\ p + e \in Nat
    BY <1>1
  <2>2. Symbol(buf, p + e) = Symbol(buf, q + e)
    BY <1>1, <2>1 DEF Same
  <2>3. Symbol(buf, q + e) = -1 /\ Symbol(buf, p + e) \in Nat
    BY <2>1, Symbols
  <2> QED
    BY <2>2, <2>3
<1>2. Same(buf, k, j, i)
  BY DEF Same
<1>3. i \in Nat /\ j \in Nat
  OBVIOUS
<1>4. CASE i < j
  BY <1>1, <1>4
<1>5. CASE j < i
  BY <1>1, <1>2, <1>5
<1> QED
  BY <1>3, <1>4, <1>5

-----------------------------------------------------------------------------
(* The ranks of one round.                                                 *)

LEMMA SameRange == \A f : Image!Range(f) = Range(f)
  BY DEF Image!Range, Range

Pairs == Int \X Int
Under(Q, p) == {q \in Q : Image!Below(q, p)}

LEMMA BelowOrders ==
  ASSUME NEW p \in Pairs, NEW q \in Pairs, NEW r \in Pairs
  PROVE  /\ ~Image!Below(p, p)
         /\ Image!Below(p, q) \/ Image!Below(q, p) \/ p = q
         /\ Image!Below(p, q) /\ Image!Below(q, r) => Image!Below(p, r)
<1>1. /\ p = <<p[1], p[2]>> /\ q = <<q[1], q[2]>>
      /\ p[1] \in Int /\ p[2] \in Int /\ q[1] \in Int /\ q[2] \in Int
      /\ r[1] \in Int /\ r[2] \in Int
  BY DEF Pairs
<1> HIDE DEF Pairs
<1>2. p[1] = q[1] /\ p[2] = q[2] => p = q
  BY <1>1
<1> QED
  BY <1>1, <1>2 DEF Image!Below

(* The number of pairs below one orders them as Below does.                *)
LEMMA UnderCounts ==
  ASSUME NEW Q \in SUBSET Pairs, IsFiniteSet(Q), NEW p \in Q, NEW q \in Q
  PROVE  /\ Cardinality(Under(Q, p)) \in Nat /\ Cardinality(Under(Q, p)) < Cardinality(Q)
         /\ Cardinality(Under(Q, p)) < Cardinality(Under(Q, q)) <=> Image!Below(p, q)
         /\ Cardinality(Under(Q, p)) = Cardinality(Under(Q, q)) <=> p = q
<1>1. \A S \in SUBSET Q : IsFiniteSet(S) /\ Cardinality(S) \in Nat /\ Cardinality(S) <= Cardinality(Q)
  BY FS_Subset, FS_CardinalityType
<1>2. \A r \in Q : r \in Pairs
  OBVIOUS
<1>3. \A r \in Q : Under(Q, r) \in SUBSET Q /\ r \notin Under(Q, r)
  BY <1>2, BelowOrders DEF Under
<1>4. ASSUME NEW S \in SUBSET Q, NEW T \in SUBSET S, S # T
      PROVE  Cardinality(T) < Cardinality(S)
  <2>1. IsFiniteSet(S) /\ Cardinality(S) \in Nat /\ Cardinality(T) \in Nat
    BY <1>1
  <2>2. Cardinality(T) <= Cardinality(S) /\ (Cardinality(S) = Cardinality(T) => S = T)
    BY <2>1, FS_Subset
  <2> QED
    BY <1>4, <2>1, <2>2
<1>5. ASSUME NEW r \in Q, NEW s \in Q, Image!Below(r, s)
      PROVE  Cardinality(Under(Q, r)) < Cardinality(Under(Q, s))
  <2>1. r \in Under(Q, s)
    BY <1>5 DEF Under
  <2>2. Under(Q, r) \in SUBSET Under(Q, s)
    BY <1>2, <1>5, BelowOrders DEF Under
  <2> QED
    BY <1>3, <1>4, <2>1, <2>2
<1>6. \A r \in Q : Cardinality(Under(Q, r)) \in Nat
  BY <1>1, <1>3
<1>7. Cardinality(Under(Q, p)) < Cardinality(Q)
  <2>1. Under(Q, p) # Q
    BY <1>3
  <2> QED
    BY <1>3, <1>4, <2>1
<1>8. Image!Below(p, q) \/ Image!Below(q, p) \/ p = q
  BY <1>2, BelowOrders
<1>9. Image!Below(p, q) => Cardinality(Under(Q, p)) < Cardinality(Under(Q, q))
  BY <1>5
<1>10. Image!Below(q, p) => Cardinality(Under(Q, q)) < Cardinality(Under(Q, p))
  BY <1>5
<1>11. p = q => ~Image!Below(p, q) /\ Cardinality(Under(Q, p)) = Cardinality(Under(Q, q))
  BY <1>2, BelowOrders
<1>12. ~(Image!Below(p, q) /\ p = q)
  BY <1>11
<1> QED
  BY <1>6, <1>7, <1>8, <1>9, <1>10, <1>11

LEMMA Reranked ==
  ASSUME NEW n \in Nat, NEW rank \in [0..n - 1 -> Nat], NEW k \in Nat
  PROVE  LET pair == Image!Pair(rank, k)
             new_rank == Image!Rerank(rank, k)
         IN /\ new_rank \in [0..n - 1 -> 0..n - 1]
            /\ \A i, j \in 0..n - 1 :
                 /\ new_rank[i] < new_rank[j] <=> Image!Below(pair[i], pair[j])
                 /\ new_rank[i] = new_rank[j] <=> pair[i] = pair[j]
<1> DEFINE pair == Image!Pair(rank, k)
           new_rank == Image!Rerank(rank, k)
           P == 0..n - 1
           Q == Range(pair)
<1>1. pair \in [P -> Pairs]
  BY DEF Image!Pair, Pairs
<1>2. IsFiniteSet(P) /\ Cardinality(P) = n
  BY FS_Interval
<1>3. IsFiniteSet(Q) /\ Cardinality(Q) \in Nat /\ Cardinality(Q) <= n /\ Q \in SUBSET Pairs
  <2> HIDE DEF pair, P
  <2>1. Q \in SUBSET Pairs /\ pair \in Surjection(P, Q)
    BY <1>1, Fun_RangeProperties
  <2>2. IsFiniteSet(Q) /\ Cardinality(Q) <= Cardinality(P)
    BY <1>2, <2>1, FS_Surjection
  <2> QED
    BY <1>2, <2>1, <2>2, FS_CardinalityType
<1>4. \A i \in P : pair[i] \in Q
  BY <1>1 DEF Range
<1>5. new_rank = [i \in P |-> Cardinality(Under(Q, pair[i]))]
  <2>1. DOMAIN rank = P
    OBVIOUS
  <2>2. \A S : Image!Cardinality(S) = Cardinality(S)
    BY DEF Image!Cardinality, Cardinality
  <2> HIDE DEF P
  <2> QED
    BY <2>1, <2>2, SameRange DEF Image!Rerank, Under
<1> HIDE DEF pair, new_rank, Q
<1>6. ASSUME NEW i \in P PROVE new_rank[i] \in 0..n - 1
  <2>1. Cardinality(Under(Q, pair[i])) \in Nat /\ Cardinality(Under(Q, pair[i])) < Cardinality(Q)
    BY <1>3, <1>4, UnderCounts
  <2> QED
    BY <1>3, <1>5, <2>1
<1>7. \A i, j \in P : /\ new_rank[i] < new_rank[j] <=> Image!Below(pair[i], pair[j])
                      /\ new_rank[i] = new_rank[j] <=> pair[i] = pair[j]
  BY <1>3, <1>4, <1>5, UnderCounts
<1>8. new_rank \in [P -> 0..n - 1]
  BY <1>5, <1>6
<1> QED
  BY <1>7, <1>8 DEF pair, new_rank

-----------------------------------------------------------------------------
(* After every round the ranks are the order of the suffixes by their first*)
(* k symbols.                                                              *)
Orders(buf, d) ==
  \A i, j \in Image!Positions(buf) :
    /\ d.rank[i] < d.rank[j] <=> Before(buf, d.k, i, j)
    /\ d.rank[i] = d.rank[j] <=> Same(buf, d.k, i, j)
RankOK(buf, d) ==
  /\ d.k \in Nat \ {0} /\ d.rank \in [Image!Positions(buf) -> Nat]
  /\ d.k > 1 => d.rank \in [Image!Positions(buf) -> 0..Len(buf) - 1]
  /\ Orders(buf, d)

LEMMA FirstRanks ==
  ASSUME NEW buf \in Seq(Nat)
  PROVE  RankOK(buf, [k |-> 1, rank |-> [i \in Image!Positions(buf) |-> Image!At(buf, i)]])
<1> DEFINE d == [k |-> 1, rank |-> [i \in Image!Positions(buf) |-> Image!At(buf, i)]]
<1>1. ASSUME NEW i \in Image!Positions(buf)
      PROVE  /\ i \in Nat /\ d.rank[i] = Symbol(buf, i + 0) /\ d.rank[i] \in Nat
  BY Symbols DEF Image!Positions, Image!At
<1>2. \A i, j \in Image!Positions(buf) : Same(buf, 0, i, j)
  BY DEF Same
<1>3. Orders(buf, d)
  <2> SUFFICES ASSUME NEW i \in Image!Positions(buf), NEW j \in Image!Positions(buf)
               PROVE  /\ d.rank[i] < d.rank[j] <=> Before(buf, 1, i, j)
                      /\ d.rank[i] = d.rank[j] <=> Same(buf, 1, i, j)
    BY DEF Orders
  <2>1. \A e \in 0..1 - 1 : e = 0
    OBVIOUS
  <2>2. 0 \in 0..1 - 1
    OBVIOUS
  <2>3. Before(buf, 1, i, j) <=> Symbol(buf, i + 0) < Symbol(buf, j + 0)
    BY <1>2, <2>1, <2>2 DEF Before
  <2>4. Same(buf, 1, i, j) <=> Symbol(buf, i + 0) = Symbol(buf, j + 0)
    BY <2>1, <2>2 DEF Same
  <2> HIDE DEF d
  <2> QED
    BY <1>1, <2>3, <2>4
<1>4. d.rank \in [Image!Positions(buf) -> Nat] /\ d.k = 1
  BY <1>1
<1> HIDE DEF d
<1>5. RankOK(buf, d)
  BY <1>3, <1>4 DEF RankOK
<1> QED
  BY <1>5 DEF d

(* The second parts of the pairs order what follows the first k symbols.   *)
Rest(rank, p) == IF p \in DOMAIN rank THEN rank[p] ELSE -1

LEMMA SecondParts ==
  ASSUME NEW buf \in Seq(Nat), NEW d, RankOK(buf, d), NEW p \in Nat, NEW q \in Nat
  PROVE  /\ Rest(d.rank, p) \in Int /\ Rest(d.rank, q) \in Int
         /\ Rest(d.rank, p) < Rest(d.rank, q) <=> Before(buf, d.k, p, q)
         /\ Rest(d.rank, p) = Rest(d.rank, q) <=> Same(buf, d.k, p, q)
<1> DEFINE P == Image!Positions(buf)
<1>1. d.k \in Nat \ {0} /\ d.rank \in [P -> Nat] /\ DOMAIN d.rank = P
  BY DEF RankOK
<1>2. \A x \in Nat : x \in P <=> x < Len(buf)
  BY DEF Image!Positions
<1>3. 0 \in 0..d.k - 1 /\ p + 0 = p /\ q + 0 = q
  BY <1>1
<1>4. \A x \in Nat : /\ x \in P => Symbol(buf, x) \in Nat
                     /\ x \notin P => \A e \in 0..d.k - 1 : Symbol(buf, x + e) = -1
  <2>1. ASSUME NEW x \in Nat, x \notin P, NEW e \in 0..d.k - 1 PROVE Symbol(buf, x + e) = -1
    <3>1. x + e \in Nat /\ x + e >= Len(buf)
      BY <1>2, <2>1
    <3> QED
      BY <3>1, Symbols
  <2> QED
    BY <1>2, <2>1, Symbols
<1>5. \A x, e \in Nat : Symbol(buf, x + e) \in Int /\ Symbol(buf, x + e) >= -1
  BY Symbols
<1>6. \A x \in Nat : /\ x \in P => Rest(d.rank, x) \in Nat /\ Rest(d.rank, x) = d.rank[x]
                     /\ x \notin P => Rest(d.rank, x) = -1
  BY <1>1 DEF Rest
<1>7. CASE p \in P /\ q \in P
  BY <1>1, <1>6, <1>7 DEF RankOK, Orders
<1> HIDE DEF P
<1>8. CASE p \notin P /\ q \in P
  <2>1. Symbol(buf, p + 0) = -1 /\ Symbol(buf, q + 0) \in Nat
    BY <1>3, <1>4, <1>8
  <2>2. ~Same(buf, d.k, p, q)
    BY <1>3, <2>1 DEF Same
  <2>3. Same(buf, 0, p, q)
    BY DEF Same
  <2>4. Before(buf, d.k, p, q)
    BY <1>3, <2>1, <2>3 DEF Before
  <2> QED
    BY <1>6, <1>8, <2>2, <2>4
<1>9. CASE p \in P /\ q \notin P
  <2>1. Symbol(buf, p + 0) \in Nat /\ \A e \in 0..d.k - 1 : Symbol(buf, q + e) = -1
    BY <1>3, <1>4, <1>9
  <2>2. ~Same(buf, d.k, p, q)
    BY <1>3, <2>1 DEF Same
  <2>3. \A e \in 0..d.k - 1 : ~(Symbol(buf, p + e) < Symbol(buf, q + e))
    BY <1>1, <1>5, <2>1
  <2>4. ~Before(buf, d.k, p, q)
    BY <2>3 DEF Before
  <2> QED
    BY <1>6, <1>9, <2>2, <2>4
<1>10. CASE p \notin P /\ q \notin P
  <2>1. \A e \in 0..d.k - 1 : Symbol(buf, p + e) = -1 /\ Symbol(buf, q + e) = -1
    BY <1>4, <1>10
  <2>2. Same(buf, d.k, p, q)
    BY <2>1 DEF Same
  <2>3. \A e \in 0..d.k - 1 : ~(Symbol(buf, p + e) < Symbol(buf, q + e))
    BY <2>1
  <2>4. ~Before(buf, d.k, p, q)
    BY <2>3 DEF Before
  <2> QED
    BY <1>6, <1>10, <2>2, <2>4
<1> QED
  BY <1>7, <1>8, <1>9, <1>10

LEMMA NextRanks ==
  ASSUME NEW buf \in Seq(Nat), NEW d, RankOK(buf, d)
  PROVE  RankOK(buf, [k |-> 2 * d.k, rank |-> Image!Rerank(d.rank, d.k)])
<1> DEFINE P == Image!Positions(buf)
           n == Len(buf)
           new_rank == Image!Rerank(d.rank, d.k)
           pair == Image!Pair(d.rank, d.k)
<1>1. d.k \in Nat /\ d.k # 0 /\ d.rank \in [0..n - 1 -> Nat] /\ P = 0..n - 1 /\ n \in Nat
  BY DEF RankOK, Image!Positions
<1>2. /\ new_rank \in [0..n - 1 -> 0..n - 1]
      /\ \A i, j \in 0..n - 1 :
           /\ new_rank[i] < new_rank[j] <=> Image!Below(pair[i], pair[j])
           /\ new_rank[i] = new_rank[j] <=> pair[i] = pair[j]
  BY <1>1, Reranked
<1>3. ASSUME NEW i \in P, NEW j \in P
      PROVE  /\ Image!Below(pair[i], pair[j]) <=>
                  \/ d.rank[i] < d.rank[j]
                  \/ d.rank[i] = d.rank[j] /\ Rest(d.rank, i + d.k) < Rest(d.rank, j + d.k)
             /\ pair[i] = pair[j] <=>
                  d.rank[i] = d.rank[j] /\ Rest(d.rank, i + d.k) = Rest(d.rank, j + d.k)
  <2>1. /\ pair[i] = <<d.rank[i], Rest(d.rank, i + d.k)>>
        /\ pair[j] = <<d.rank[j], Rest(d.rank, j + d.k)>>
    BY <1>1 DEF Image!Pair, Rest
  <2> HIDE DEF pair
  <2> QED
    BY <2>1 DEF Image!Below
<1> HIDE DEF pair, new_rank
<1>4. ASSUME NEW i \in P, NEW j \in P
      PROVE  /\ new_rank[i] < new_rank[j] <=> Before(buf, d.k + d.k, i, j)
             /\ new_rank[i] = new_rank[j] <=> Same(buf, d.k + d.k, i, j)
  <2>1. i \in Nat /\ j \in Nat /\ i + d.k \in Nat /\ j + d.k \in Nat
    BY <1>1
  <2>2. /\ Rest(d.rank, i + d.k) < Rest(d.rank, j + d.k) <=> Before(buf, d.k, i + d.k, j + d.k)
        /\ Rest(d.rank, i + d.k) = Rest(d.rank, j + d.k) <=> Same(buf, d.k, i + d.k, j + d.k)
    BY <2>1, SecondParts
  <2>3. /\ d.rank[i] < d.rank[j] <=> Before(buf, d.k, i, j)
        /\ d.rank[i] = d.rank[j] <=> Same(buf, d.k, i, j)
    BY DEF RankOK, Orders
  <2>4. /\ Before(buf, d.k + d.k, i, j) <=>
             \/ Before(buf, d.k, i, j)
             \/ Same(buf, d.k, i, j) /\ Before(buf, d.k, i + d.k, j + d.k)
        /\ Same(buf, d.k + d.k, i, j) <=>
             Same(buf, d.k, i, j) /\ Same(buf, d.k, i + d.k, j + d.k)
    BY <1>1, <2>1, SameTwice, BeforeTwice
  <2>5. /\ new_rank[i] < new_rank[j] <=> Image!Below(pair[i], pair[j])
        /\ new_rank[i] = new_rank[j] <=> pair[i] = pair[j]
    BY <1>1, <1>2
  <2> QED
    BY <1>3, <2>2, <2>3, <2>4, <2>5, Zenon
<1> DEFINE e == [k |-> 2 * d.k, rank |-> new_rank]
<1>5. e.k = d.k + d.k /\ e.k \in Nat \ {0} /\ e.rank = new_rank
  BY <1>1
<1> HIDE DEF e
<1>6. Orders(buf, e)
  <2> SUFFICES ASSUME NEW i \in P, NEW j \in P
               PROVE  /\ e.rank[i] < e.rank[j] <=> Before(buf, e.k, i, j)
                      /\ e.rank[i] = e.rank[j] <=> Same(buf, e.k, i, j)
    BY DEF Orders
  <2>1. /\ new_rank[i] < new_rank[j] <=> Before(buf, d.k + d.k, i, j)
        /\ new_rank[i] = new_rank[j] <=> Same(buf, d.k + d.k, i, j)
    BY <1>4
  <2> QED
    BY <1>5, <2>1
<1>7. e.rank \in [P -> 0..n - 1] /\ e.rank \in [P -> Nat]
  BY <1>1, <1>2, <1>5
<1>8. RankOK(buf, e)
  BY <1>5, <1>6, <1>7 DEF RankOK
<1> QED
  BY <1>8 DEF e, new_rank

-----------------------------------------------------------------------------
(* The rounds of build_sa.                                                 *)
Round(buf, f, r) ==
  IF r = 0 THEN [k |-> 1, rank |-> [i \in Image!Positions(buf) |-> Image!At(buf, i)]]
  ELSE IF Image!Ranked(f[r - 1], Len(buf)) THEN f[r - 1]
       ELSE [k |-> 2 * f[r - 1].k, rank |-> Image!Rerank(f[r - 1].rank, f[r - 1].k)]

LEMMA RoundsDefined ==
  ASSUME NEW buf \in Seq(Nat)
  PROVE  Image!Rounds(buf) = [r \in 0..Len(buf) |-> Round(buf, Image!Rounds(buf), r)]
<1> DEFINE S == {n \in Nat : \E f : f = [r \in 0..n |-> Round(buf, f, r)]}
<1>1. 0 \in S
  <2> DEFINE g == [r \in 0..0 |-> Round(buf, <<>>, 0)]
  <2>1. \A r \in 0..0 : r = 0
    OBVIOUS
  <2>2. \A h : Round(buf, h, 0) = Round(buf, <<>>, 0)
    BY DEF Round
  <2>3. g = [r \in 0..0 |-> Round(buf, g, r)]
    <3> HIDE DEF g
    <3>1. \A r \in 0..0 : Round(buf, g, r) = Round(buf, <<>>, 0)
      BY <2>1, <2>2
    <3> QED
      BY <3>1 DEF g
  <2> HIDE DEF g
  <2> QED
    BY <2>3
<1>2. ASSUME NEW n \in Nat, n \in S PROVE n + 1 \in S
  <2>1. PICK f : f = [r \in 0..n |-> Round(buf, f, r)]
    BY <1>2
  <2> DEFINE g == [r \in 0..(n + 1) |-> IF r \in 0..n THEN f[r] ELSE Round(buf, f, r)]
  <2>2. ASSUME NEW r \in 0..(n + 1) PROVE g[r] = Round(buf, g, r)
    <3>1. Round(buf, g, r) = Round(buf, f, r)
      <4>1. r # 0 => r - 1 \in 0..n
        OBVIOUS
      <4>2. r # 0 => g[r - 1] = f[r - 1]
        BY <4>1
      <4> HIDE DEF g
      <4> QED
        BY <4>2 DEF Round
    <3>2. r \in 0..n => f[r] = Round(buf, f, r)
      BY <2>1
    <3> QED
      BY <3>1, <3>2
  <2>3. g = [r \in 0..(n + 1) |-> Round(buf, g, r)]
    <3>1. g = [r \in 0..(n + 1) |-> g[r]]
      OBVIOUS
    <3> HIDE DEF g
    <3> QED
      BY <2>2, <3>1, Zenon
  <2> HIDE DEF g
  <2> QED
    BY <2>3
<1>3. Len(buf) \in S
  <2> HIDE DEF S
  <2> QED
    BY <1>1, <1>2, SetInduction
<1>4. PICK f : f = [r \in 0..Len(buf) |-> Round(buf, f, r)]
  BY <1>3
<1> QED
  BY <1>4, Zenon DEF Image!Rounds, Round

(* The last round has ranks that are in order, and all different.          *)
LEMMA RoundsRank ==
  ASSUME NEW buf \in Seq(Nat)
  PROVE  \A r \in Nat : r <= Len(buf) =>
           /\ RankOK(buf, Image!Rounds(buf)[r])
           /\ Image!Ranked(Image!Rounds(buf)[r], Len(buf)) \/ Image!Rounds(buf)[r].k > r
<1> DEFINE R(r) == Image!Rounds(buf)[r]
           Good(r) == RankOK(buf, R(r)) /\ (Image!Ranked(R(r), Len(buf)) \/ R(r).k > r)
           S == {r \in Nat : r <= Len(buf) => Good(r)}
<1>1. 0 \in S
  <2>1. R(0) = [k |-> 1, rank |-> [i \in Image!Positions(buf) |-> Image!At(buf, i)]]
    <3>1. 0 \in 0..Len(buf)
      OBVIOUS
    <3>2. R(0) = Round(buf, Image!Rounds(buf), 0)
      BY <3>1, RoundsDefined
    <3> QED
      BY <3>2 DEF Round
  <2>2. RankOK(buf, R(0))
    BY <2>1, FirstRanks
  <2>3. R(0).k > 0
    BY <2>1
  <2> QED
    BY <2>2, <2>3
<1>2. ASSUME NEW r \in Nat, r \in S PROVE r + 1 \in S
  <2> SUFFICES ASSUME r + 1 <= Len(buf) PROVE Good(r + 1)
    OBVIOUS
  <2>1. Good(r)
    BY <1>2
  <2>2. r + 1 \in 0..Len(buf) /\ r + 1 # 0 /\ (r + 1) - 1 = r
    OBVIOUS
  <2>3. R(r + 1) = Round(buf, Image!Rounds(buf), r + 1)
    BY <2>2, RoundsDefined
  <2>4. R(r + 1) = IF Image!Ranked(R(r), Len(buf)) THEN R(r)
                   ELSE [k |-> 2 * R(r).k, rank |-> Image!Rerank(R(r).rank, R(r).k)]
    BY <2>2, <2>3 DEF Round
  <2>5. CASE Image!Ranked(R(r), Len(buf))
    BY <2>1, <2>4, <2>5
  <2>6. CASE ~Image!Ranked(R(r), Len(buf))
    <3> HIDE DEF R
    <3>1. R(r + 1) = [k |-> 2 * R(r).k, rank |-> Image!Rerank(R(r).rank, R(r).k)]
      BY <2>4, <2>6
    <3>2. RankOK(buf, R(r + 1))
      BY <2>1, <3>1, NextRanks
    <3>3. R(r).k > r /\ R(r).k \in Nat
      BY <2>1, <2>6 DEF RankOK
    <3>4. R(r + 1).k > r + 1
      BY <3>1, <3>3
    <3> QED
      BY <3>2, <3>4
  <2> QED
    BY <2>5, <2>6
<1> HIDE DEF S
<1>3. Nat \subseteq S
  BY <1>1, <1>2, SetInduction
<1> QED
  BY <1>3 DEF S

(* As long as nothing was sorted, the ranks are the bytes.                 *)
LEMMA FirstRound ==
  ASSUME NEW buf \in Seq(Nat), NEW r \in 0..Len(buf), ~(Image!Rounds(buf)[r].k > 1),
         NEW i \in Image!Positions(buf)
  PROVE  Image!Rounds(buf)[r].rank[i] = Image!At(buf, i)
<1> DEFINE R(n) == Image!Rounds(buf)[n]
           S == {n \in Nat : n <= Len(buf) => R(n).k > 1 \/ R(n) = R(0)}
<1>1. R(0) = [k |-> 1, rank |-> [j \in Image!Positions(buf) |-> Image!At(buf, j)]]
  <2>1. 0 \in 0..Len(buf)
    OBVIOUS
  <2>2. R(0) = Round(buf, Image!Rounds(buf), 0)
    BY <2>1, RoundsDefined
  <2> QED
    BY <2>2 DEF Round
<1>2. 0 \in S
  OBVIOUS
<1>3. ASSUME NEW n \in Nat, n \in S PROVE n + 1 \in S
  <2> SUFFICES ASSUME n + 1 <= Len(buf) PROVE R(n + 1).k > 1 \/ R(n + 1) = R(0)
    OBVIOUS
  <2>1. n + 1 \in 0..Len(buf) /\ n + 1 # 0 /\ (n + 1) - 1 = n /\ n <= Len(buf)
    OBVIOUS
  <2>2. R(n + 1) = Round(buf, Image!Rounds(buf), n + 1)
    BY <2>1, RoundsDefined
  <2>3. R(n + 1) = IF Image!Ranked(R(n), Len(buf)) THEN R(n)
                   ELSE [k |-> 2 * R(n).k, rank |-> Image!Rerank(R(n).rank, R(n).k)]
    BY <2>1, <2>2 DEF Round
  <2>4. R(n).k \in Nat \ {0} /\ (R(n).k > 1 \/ R(n) = R(0))
    <3>1. RankOK(buf, R(n))
      BY <2>1, RoundsRank
    <3> HIDE DEF R
    <3> QED
      BY <1>3, <2>1, <3>1 DEF RankOK
  <2> HIDE DEF R
  <2>5. CASE Image!Ranked(R(n), Len(buf))
    BY <2>3, <2>4, <2>5
  <2>6. CASE ~Image!Ranked(R(n), Len(buf))
    <3>1. R(n + 1).k = 2 * R(n).k
      BY <2>3, <2>6
    <3> QED
      BY <2>4, <3>1
  <2> QED
    BY <2>5, <2>6
<1>4. r \in Nat /\ r <= Len(buf) /\ Nat \subseteq S
  <2> HIDE DEF S
  <2> QED
    BY <1>2, <1>3, SetInduction
<1>5. R(r) = R(0)
  BY <1>4
<1> QED
  BY <1>1, <1>5

LEMMA LastRanks ==
  ASSUME NEW buf \in Seq(Nat), Len(buf) # 0
  PROVE  LET d == Image!Rounds(buf)[Len(buf)]
         IN /\ RankOK(buf, d)
            /\ \A i, j \in Image!Positions(buf) : d.rank[i] = d.rank[j] => i = j
            /\ Len(buf) > 1 => d.rank \in [Image!Positions(buf) -> 0..Len(buf) - 1]
<1> DEFINE d == Image!Rounds(buf)[Len(buf)]
           P == Image!Positions(buf)
<1>1. RankOK(buf, d) /\ (Image!Ranked(d, Len(buf)) \/ d.k > Len(buf)) /\ Len(buf) \in Nat
  BY RoundsRank
<1>2. d.k \in Nat /\ d.rank \in [P -> Nat] /\ (d.k > 1 => d.rank \in [P -> 0..Len(buf) - 1])
  BY <1>1 DEF RankOK
<1> HIDE DEF d
<1>3. CASE d.k >= Len(buf)
  <2>1. ASSUME NEW i \in P, NEW j \in P, d.rank[i] = d.rank[j] PROVE i = j
    <3>1. Same(buf, d.k, i, j)
      BY <1>1, <2>1 DEF RankOK, Orders
    <3> QED
      BY <1>2, <1>3, <3>1, SuffixesDiffer
  <2>2. Len(buf) > 1 => d.k > 1
    BY <1>2, <1>3
  <2> QED
    BY <1>1, <1>2, <2>1, <2>2 DEF d
<1>4. CASE d.k > 1 /\ Image!IsInjective(d.rank)
  <2>1. \A i, j \in P : d.rank[i] = d.rank[j] => i = j
    BY <1>2, <1>4 DEF Image!IsInjective
  <2> QED
    BY <1>1, <1>2, <1>4, <2>1 DEF d
<1> QED
  BY <1>1, <1>2, <1>3, <1>4 DEF Image!Ranked

-----------------------------------------------------------------------------
(* The suffix array.                                                       *)
Sorts(buf, rank, sa) == \A i \in 2..Len(buf) : rank[sa[i - 1]] <= rank[sa[i]]

LEMMA SortExists ==
  ASSUME NEW buf \in Seq(Nat), Len(buf) # 0, NEW rank \in [Image!Positions(buf) -> Nat],
         \A i, j \in Image!Positions(buf) : rank[i] = rank[j] => i = j,
         Len(buf) > 1 => rank \in [Image!Positions(buf) -> 0..Len(buf) - 1]
  PROVE  \E sa \in Image!Bijection(1..Len(buf), Image!Positions(buf)) : Sorts(buf, rank, sa)
<1> DEFINE n == Len(buf)
           P == Image!Positions(buf)
<1>0. n \in Nat \ {0} /\ P = 0..n - 1
  BY DEF Image!Positions
<1>1. ASSUME NEW sa \in [1..n -> P], \A i, j \in 1..n : sa[i] = sa[j] => i = j,
             \A p \in P : \E i \in 1..n : sa[i] = p
      PROVE  sa \in Image!Bijection(1..n, P)
  BY <1>1 DEF Image!Bijection, Image!Injection, Image!Surjection, Image!IsInjective
<1>2. CASE n = 1
  <2> DEFINE sa == [i \in 1..n |-> 0]
  <2>1. sa \in [1..n -> P] /\ (\A i, j \in 1..n : i = j) /\ \A p \in P : p = 0
    BY <1>0, <1>2
  <2>2. \A p \in P : \E i \in 1..n : sa[i] = p
    BY <1>2, <2>1
  <2>3. Sorts(buf, rank, sa)
    BY <1>2 DEF Sorts
  <2> HIDE DEF sa
  <2> QED
    BY <1>1, <2>1, <2>2, <2>3
<1>3. CASE n > 1
  <2>1. \A m \in 0..n - 1 : \E p \in P : rank[p] = m
    <3>1. rank \in Injection(P, 0..n - 1)
      BY <1>3, Fun_IsInj
    <3>2. IsFiniteSet(0..n - 1)
      BY <1>0, FS_Interval
    <3>3. rank \in Surjection(P, 0..n - 1)
      BY <1>0, <3>1, <3>2, FS_Injection
    <3> QED
      BY <3>3 DEF Surjection
  <2> DEFINE sa == [i \in 1..n |-> CHOOSE p \in P : rank[p] = i - 1]
  <2>2. ASSUME NEW i \in 1..n PROVE sa[i] \in P /\ rank[sa[i]] = i - 1
    <3>1. i - 1 \in 0..n - 1
      BY <1>0
    <3>2. \E p \in P : rank[p] = i - 1
      BY <2>1, <3>1
    <3> QED
      BY <3>2
  <2>3. sa \in [1..n -> P]
    <3>1. sa = [i \in 1..n |-> sa[i]]
      OBVIOUS
    <3> HIDE DEF sa
    <3> QED
      BY <2>2, <3>1
  <2> HIDE DEF sa
  <2>4. \A i, j \in 1..n : sa[i] = sa[j] => i = j
    <3> SUFFICES ASSUME NEW i \in 1..n, NEW j \in 1..n, sa[i] = sa[j] PROVE i = j
      OBVIOUS
    <3>1. i - 1 = j - 1
      BY <2>2
    <3> QED
      BY <1>0, <3>1
  <2>5. ASSUME NEW p \in P PROVE \E i \in 1..n : sa[i] = p
    <3>1. PICK m \in 0..n - 1 : rank[p] = m
      BY <1>3
    <3>2. m + 1 \in 1..n /\ (m + 1) - 1 = m
      BY <1>0
    <3>3. sa[m + 1] \in P /\ rank[sa[m + 1]] = m
      BY <2>2, <3>2
    <3>4. sa[m + 1] = p
      BY <3>1, <3>3
    <3> QED
      BY <3>2, <3>4
  <2>6. Sorts(buf, rank, sa)
    <3> SUFFICES ASSUME NEW i \in 2..n PROVE rank[sa[i - 1]] <= rank[sa[i]]
      BY DEF Sorts
    <3>1. i \in 1..n /\ i - 1 \in 1..n
      BY <1>0
    <3>2. rank[sa[i]] = i - 1 /\ rank[sa[i - 1]] = (i - 1) - 1
      BY <2>2, <3>1
    <3> QED
      BY <1>0, <3>2
  <2> QED
    BY <1>1, <2>3, <2>4, <2>5, <2>6
<1> QED
  BY <1>0, <1>2, <1>3

(* The array has every suffix once, in the order of what they begin with.  *)
LEMMA SuffixArray ==
  ASSUME NEW buf \in Seq(Nat), Len(buf) # 0
  PROVE  /\ Image!build_sa(buf) \in [1..Len(buf) -> Image!Positions(buf)]
         /\ \A p \in Image!Positions(buf) : \E i \in 1..Len(buf) : Image!build_sa(buf)[i] = p
         /\ \A i \in 2..Len(buf) : \E k \in Nat :
              Before(buf, k, Image!build_sa(buf)[i - 1], Image!build_sa(buf)[i])
<1> DEFINE n == Len(buf)
           P == Image!Positions(buf)
           d == Image!Rounds(buf)[n]
           sa == Image!build_sa(buf)
<1>1. /\ RankOK(buf, d)
      /\ \A i, j \in P : d.rank[i] = d.rank[j] => i = j
      /\ n > 1 => d.rank \in [P -> 0..n - 1]
  BY LastRanks
<1>2. d.rank \in [P -> Nat] /\ d.k \in Nat /\ n \in Nat
  BY <1>1 DEF RankOK
<1>3. sa = CHOOSE a \in Image!Bijection(1..n, P) : Sorts(buf, d.rank, a)
  BY DEF Image!build_sa, Sorts
<1> HIDE DEF d, sa
<1>4. \E a \in Image!Bijection(1..n, P) : Sorts(buf, d.rank, a)
  BY <1>1, <1>2, SortExists
<1>5. sa \in Image!Bijection(1..n, P) /\ Sorts(buf, d.rank, sa)
  BY <1>3, <1>4
<1>6. /\ sa \in [1..n -> P] /\ \A p \in P : \E i \in 1..n : sa[i] = p
      /\ \A i, j \in 1..n : sa[i] = sa[j] => i = j
  BY <1>5 DEF Image!Bijection, Image!Injection, Image!Surjection, Image!IsInjective
<1>7. ASSUME NEW i \in 2..n PROVE \E k \in Nat : Before(buf, k, sa[i - 1], sa[i])
  <2>1. i \in 1..n /\ i - 1 \in 1..n /\ i - 1 # i
    BY <1>2
  <2>2. sa[i] \in P /\ sa[i - 1] \in P /\ sa[i - 1] # sa[i]
    BY <1>6, <2>1
  <2>3. d.rank[sa[i - 1]] <= d.rank[sa[i]] /\ d.rank[sa[i - 1]] # d.rank[sa[i]]
    BY <1>1, <1>5, <2>2 DEF Sorts
  <2>4. d.rank[sa[i - 1]] < d.rank[sa[i]]
    BY <1>2, <2>2, <2>3
  <2> QED
    BY <1>1, <1>2, <2>2, <2>4 DEF RankOK, Orders
<1> QED
  BY <1>6, <1>7 DEF sa

Suffix(p) == SubSeq(old, p + 1, Len(old))
Less(s, t) ==
  \/ Image!IsStrictPrefix(s, t)
  \/ \E i \in DOMAIN s \cap DOMAIN t : s[i] < t[i] /\ SubSeq(s, 1, i - 1) = SubSeq(t, 1, i - 1)

LEMMA BeforeIsLess ==
  ASSUME old \in Seq(Nat), NEW p \in Image!Positions(old), NEW q \in Image!Positions(old),
         NEW k \in Nat, Before(old, k, p, q)
  PROVE  Less(Suffix(p), Suffix(q))
<1> DEFINE n == Len(old)
<1>1. n \in Nat /\ p \in 0..n - 1 /\ q \in 0..n - 1
  BY DEF Image!Positions
<1>2. \A x \in 0..n - 1 : /\ Suffix(x) \in Seq(Nat) /\ Len(Suffix(x)) = n - x
                          /\ DOMAIN Suffix(x) = 1..n - x
                          /\ \A e \in 1..n - x : Suffix(x)[e] = Symbol(old, x + (e - 1))
  <2> SUFFICES ASSUME NEW x \in 0..n - 1
               PROVE  /\ Suffix(x) \in Seq(Nat) /\ Len(Suffix(x)) = n - x
                      /\ DOMAIN Suffix(x) = 1..n - x
                      /\ \A e \in 1..n - x : Suffix(x)[e] = Symbol(old, x + (e - 1))
    OBVIOUS
  <2>1. \A i \in x + 1..n : i \in 1..n /\ old[i] \in Nat
    BY <1>1
  <2>2. /\ Suffix(x) \in Seq(Nat) /\ Len(Suffix(x)) = n - x
        /\ \A e \in 1..n - x : Suffix(x)[e] = old[x + e]
    <3>1. n - (x + 1) + 1 = n - x /\ x + 1 \in Int /\ n \in Int /\ x + 1 <= n
      BY <1>1
    <3>2. /\ SubSeq(old, x + 1, n) \in Seq(Nat)
          /\ Len(SubSeq(old, x + 1, n)) = IF x + 1 <= n THEN n - (x + 1) + 1 ELSE 0
          /\ \A e \in 1..n - (x + 1) + 1 : SubSeq(old, x + 1, n)[e] = old[(x + 1) + e - 1]
      BY <2>1, <3>1, SubSeqProperties
    <3>3. \A e \in 1..n - x : (x + 1) + e - 1 = x + e
      BY <1>1
    <3> QED
      BY <3>1, <3>2, <3>3 DEF Suffix
  <2>3. \A e \in 1..n - x : x + (e - 1) \in Nat /\ x + (e - 1) < n /\ (x + (e - 1)) + 1 = x + e
    BY <1>1
  <2>4. \A e \in 1..n - x : Symbol(old, x + (e - 1)) = old[x + e]
    BY <2>3, Symbols
  <2> HIDE DEF Suffix
  <2>5. DOMAIN Suffix(x) = 1..n - x
    BY <2>2
  <2>6. \A e \in 1..n - x : Suffix(x)[e] = Symbol(old, x + (e - 1))
    BY <2>2, <2>4, Zenon
  <2> QED
    BY <2>2, <2>5, <2>6, Zenon
<1> DEFINE s == Suffix(p)
           t == Suffix(q)
<1>3. PICK d \in 0..k - 1 : Symbol(old, p + d) < Symbol(old, q + d) /\ Same(old, d, p, q)
  BY DEF Before
<1>4. /\ s \in Seq(Nat) /\ Len(s) = n - p /\ t \in Seq(Nat) /\ Len(t) = n - q
      /\ DOMAIN s = 1..n - p /\ DOMAIN t = 1..n - q
  BY <1>1, <1>2
<1>5. d \in Nat /\ p + d \in Nat /\ q + d \in Nat
  BY <1>1
<1>6. Symbol(old, p + d) >= -1 /\ Symbol(old, p + d) \in Int /\ Symbol(old, q + d) \in Int
  BY <1>5, Symbols
<1>7. q + d < n
  <2>1. Symbol(old, q + d) # -1
    BY <1>3, <1>6
  <2>2. q + d >= n => Symbol(old, q + d) = -1
    BY <1>5, Symbols
  <2> QED
    BY <1>1, <1>5, <2>1, <2>2
<1>8. p + d <= n
  <2> SUFFICES ASSUME p + d > n PROVE FALSE
    BY <1>1, <1>5
  <2>1. PICK e \in 0..d - 1 : e = n - p
    <3>1. n - p \in 0..d - 1
      BY <1>1, <1>5
    <3> QED
      BY <3>1
  <2>2. e \in Nat /\ p + e = n /\ q + e < n /\ p + e \in Nat /\ q + e \in Nat
    BY <1>1, <1>5, <1>7, <2>1
  <2>3. Symbol(old, p + e) = -1 /\ Symbol(old, q + e) \in Nat
    BY <2>2, Symbols
  <2>4. Symbol(old, p + e) = Symbol(old, q + e)
    BY <1>3 DEF Same
  <2> QED
    BY <2>3, <2>4
<1>9. \A e \in 1..d : s[e] = t[e] /\ e \in 1..n - p /\ e \in 1..n - q
  <2> SUFFICES ASSUME NEW e \in 1..d
               PROVE  s[e] = t[e] /\ e \in 1..n - p /\ e \in 1..n - q
    OBVIOUS
  <2>1. e \in 1..n - p /\ e \in 1..n - q /\ e - 1 \in 0..d - 1
    BY <1>1, <1>5, <1>7, <1>8
  <2>2. s[e] = Symbol(old, p + (e - 1)) /\ t[e] = Symbol(old, q + (e - 1))
    BY <1>1, <1>2, <2>1
  <2>3. Symbol(old, p + (e - 1)) = Symbol(old, q + (e - 1))
    BY <1>3, <2>1 DEF Same
  <2> QED
    BY <2>1, <2>2, <2>3
<1> HIDE DEF s, t
<1>10. SubSeq(s, 1, d) = SubSeq(t, 1, d)
  <2>1. \A u \in {s, t} : (\A e \in 1..d : u[e] \in Nat)
    BY <1>4, <1>9
  <2>2. \A u \in {s, t} : /\ SubSeq(u, 1, d) \in Seq(Nat) /\ Len(SubSeq(u, 1, d)) = d
                          /\ \A e \in 1..d : SubSeq(u, 1, d)[e] = u[e]
    <3> SUFFICES ASSUME NEW u \in {s, t}
                 PROVE  /\ SubSeq(u, 1, d) \in Seq(Nat) /\ Len(SubSeq(u, 1, d)) = d
                        /\ \A e \in 1..d : SubSeq(u, 1, d)[e] = u[e]
      OBVIOUS
    <3>1. /\ SubSeq(u, 1, d) \in Seq(Nat)
          /\ Len(SubSeq(u, 1, d)) = IF 1 <= d THEN d - 1 + 1 ELSE 0
          /\ \A e \in 1..d - 1 + 1 : SubSeq(u, 1, d)[e] = u[1 + e - 1]
      BY <1>5, <2>1, SubSeqProperties
    <3>2. d - 1 + 1 = d /\ \A e \in 1..d : 1 + e - 1 = e
      BY <1>5
    <3> QED
      BY <1>5, <3>1, <3>2
  <2>3. \A e \in 1..d : SubSeq(s, 1, d)[e] = SubSeq(t, 1, d)[e]
    BY <1>9, <2>2
  <2> QED
    BY <2>2, <2>3, SeqEqual
<1>11. CASE p + d < n
  <2>1. PICK e \in 1..n - p : e = d + 1
    BY <1>1, <1>5, <1>11
  <2>2. e \in 1..n - q /\ e - 1 = d
    BY <1>1, <1>5, <1>7, <2>1
  <2>3. s[e] = Symbol(old, p + (e - 1)) /\ t[e] = Symbol(old, q + (e - 1))
    BY <1>1, <1>2, <2>2 DEF s, t
  <2>4. s[e] < t[e] /\ SubSeq(s, 1, e - 1) = SubSeq(t, 1, e - 1)
    BY <1>3, <1>10, <2>2, <2>3
  <2> QED
    BY <1>4, <2>2, <2>4 DEF Less, s, t
<1>12. CASE p + d = n
  <2>1. Len(s) = d /\ Len(t) > d
    <3>1. n - p = d /\ n - q > d
      BY <1>1, <1>5, <1>7, <1>12
    <3> QED
      BY <1>4, <3>1
  <2>2. SubSeq(s, 1, Len(s)) = SubSeq(t, 1, Len(s)) /\ Len(s) <= Len(t) /\ s # t
    BY <1>4, <1>5, <1>10, <2>1
  <2> QED
    BY <2>2 DEF Less, Image!IsStrictPrefix, Image!IsPrefix, s, t
<1> QED
  BY <1>1, <1>5, <1>8, <1>11, <1>12

LEMMA SuffixesSorted ==
  ASSUME old \in Seq(Nat), Len(old) # 0
  PROVE  Image!SuffixesAreSorted
<1> DEFINE sa == Image!build_sa(old)
<1>1. /\ sa \in [1..Len(old) -> Image!Positions(old)]
      /\ \A i \in 2..Len(old) : \E k \in Nat : Before(old, k, sa[i - 1], sa[i])
  BY SuffixArray
<1> HIDE DEF sa
<1>2. Len(sa) = Len(old) /\ Len(old) \in Nat
  BY <1>1
<1>3. ASSUME NEW i \in 1..Len(sa) - 1 PROVE Less(Suffix(sa[i]), Suffix(sa[i + 1]))
  <2>1. PICK j \in 2..Len(old) : j = i + 1
    BY <1>2
  <2>2. j - 1 = i /\ i \in 1..Len(old) /\ j \in 1..Len(old)
    BY <1>2, <2>1
  <2>3. \E k \in Nat : Before(old, k, sa[i], sa[j])
    BY <1>1, <2>2
  <2>4. sa[i] \in Image!Positions(old) /\ sa[j] \in Image!Positions(old)
    BY <1>1, <2>2
  <2> QED
    BY <2>1, <2>3, <2>4, BeforeIsLess
<1> QED
  BY <1>3 DEF sa, Image!SuffixesAreSorted, Less, Suffix

-----------------------------------------------------------------------------
(* The longest match.                                                      *)
ImagesOK == /\ old \in Seq(Byte) /\ new \in Seq(Byte) /\ Len(old) # 0
          /\ Len(old) <= MaxSize /\ Len(new) <= MaxSize

LEMMA BytesAreNumbers ==
  ASSUME Image!ImageAssumption, ImagesOK
  PROVE  old \in Seq(Nat) /\ new \in Seq(Nat) /\ MaxSize \in Nat /\ DIFF_MIN_MATCH \in Nat \ {0}
<1>1. \A b \in Byte : b \in Nat
  BY DEF Image!ImageAssumption
<1>2. MaxSize \in Nat /\ DIFF_MIN_MATCH \in Nat \ {0}
  BY DEF Image!ImageAssumption
<1>3. ASSUME NEW s \in Seq(Byte) PROVE s \in Seq(Nat)
  <2>1. s \in [1..Len(s) -> Byte] /\ Len(s) \in Nat
    OBVIOUS
  <2>2. s \in [1..Len(s) -> Nat]
    BY <1>1, <2>1
  <2> QED
    BY <2>1, <2>2
<1> QED
  BY <1>2, <1>3 DEF ImagesOK

Agree(pos, p, n) == /\ p + n <= Len(old) /\ pos + n <= Len(new)
                    /\ \A i \in 0..n - 1 : Image!At(old, p + i) = Image!At(new, pos + i)

LEMMA CommonLongest ==
  ASSUME ImagesOK, NEW pos \in 0..Len(new), NEW p \in Image!Positions(old)
  PROVE  /\ Image!Common(pos, p) \in 0..Len(old) /\ Agree(pos, p, Image!Common(pos, p))
         /\ \A n \in 0..Len(old) : Agree(pos, p, n) => n <= Image!Common(pos, p)
<1> DEFINE agree == {n \in 0..Len(old) : Agree(pos, p, n)}
<1>1. Len(old) \in Nat /\ Len(new) \in Nat /\ p \in Nat /\ p < Len(old) /\ pos \in Nat /\ pos <= Len(new)
  BY DEF ImagesOK, Image!Positions
<1>2. 0 \in agree
  <2>1. \A i \in 0..0 - 1 : FALSE
    OBVIOUS
  <2> QED
    BY <1>1, <2>1 DEF Agree
<1>3. agree \in SUBSET Nat /\ \A n \in agree : n <= Len(old)
  BY <1>1
<1>4. Image!Common(pos, p) = CHOOSE n \in agree : \A m \in agree : m <= n
  BY DEF Image!Common, Agree
<1>5. \E n \in agree : \A m \in agree : m <= n
  <2> HIDE DEF agree
  <2> QED
    BY <1>1, <1>2, <1>3, Greatest
<1>6. Image!Common(pos, p) \in agree /\ \A m \in agree : m <= Image!Common(pos, p)
  <2> HIDE DEF agree
  <2> QED
    BY <1>4, <1>5
<1> QED
  BY <1>6

LEMMA FirstLongest ==
  ASSUME NEW n \in Nat \ {0}, NEW len \in [1..n -> Nat], NEW bound \in Nat,
         \A i \in 1..n : len[i] <= bound
  PROVE  \E i \in 1..n : /\ \A j \in 1..n : len[j] <= len[i]
                         /\ \A j \in 1..i - 1 : len[j] < len[i]
<1> DEFINE L == {len[i] : i \in 1..n}
<1>1. L \in SUBSET Nat /\ \A x \in L : x <= bound
  OBVIOUS
<1>2. L # {}
  <2>1. 1 \in 1..n
    OBVIOUS
  <2>2. len[1] \in L
    BY <2>1
  <2> QED
    BY <2>2
<1>3. PICK longest \in L : \A x \in L : x <= longest
  <2> HIDE DEF L
  <2> QED
    BY <1>1, <1>2, Greatest
<1> DEFINE At == {i \in 1..n : len[i] = longest}
<1>4. At \in SUBSET Nat /\ At # {}
  BY <1>3
<1>5. PICK i \in At : \A j \in At : i <= j
  <2> HIDE DEF At
  <2> QED
    BY <1>4, Least
<1>6. i \in 1..n /\ len[i] = longest /\ i \in Nat
  OBVIOUS
<1>7. \A j \in 1..n : len[j] <= len[i]
  BY <1>3, <1>6
<1>8. ASSUME NEW j \in 1..i - 1 PROVE len[j] < len[i]
  <2>1. j \in 1..n /\ j < i
    BY <1>6
  <2>2. len[j] # longest
    <3>1. j \in At => i <= j
      BY <1>5
    <3>2. len[j] = longest => j \in At
      BY <2>1
    <3> QED
      BY <1>6, <2>1, <3>1, <3>2
  <2>3. len[j] \in Nat /\ len[i] \in Nat /\ len[j] <= len[i]
    BY <1>6, <1>7, <2>1
  <2> QED
    BY <1>6, <2>2, <2>3
<1> QED
  BY <1>6, <1>7, <1>8

LEMMA LongestMatch ==
  ASSUME Image!ImageAssumption, ImagesOK, NEW pos \in 0..Len(new)
  PROVE  LET m == Image!find_longest_match(pos)
         IN /\ m.len \in Nat /\ pos + m.len <= Len(new)
            /\ m.pos \in Image!Positions(old)
            /\ \A p \in Image!Positions(old) : Image!Common(pos, p) <= m.len
<1> DEFINE n == Len(old)
           P == Image!Positions(old)
           sa == Image!build_sa(old)
           len == [i \in DOMAIN sa |-> Image!Common(pos, sa[i])]
           IsFirst(i) == /\ \A j \in DOMAIN sa : len[j] <= len[i]
                         /\ \A j \in 1..i - 1 : len[j] < len[i]
           first == CHOOSE i \in DOMAIN sa : IsFirst(i)
<1>1. n \in Nat \ {0} /\ old \in Seq(Nat)
  BY BytesAreNumbers DEF ImagesOK
<1>2. /\ sa \in [1..n -> P] /\ DOMAIN sa = 1..n
      /\ \A p \in P : \E i \in 1..n : sa[i] = p
  BY <1>1, SuffixArray
<1>3. Image!find_longest_match(pos) =
        [len |-> len[first], pos |-> IF len[first] = 0 THEN 0 ELSE sa[first]]
  BY DEF Image!find_longest_match
<1> HIDE DEF sa
<1>4. len \in [1..n -> Nat] /\ \A i \in 1..n : len[i] <= n /\ len[i] = Image!Common(pos, sa[i])
  <2>1. ASSUME NEW i \in 1..n PROVE len[i] \in Nat /\ len[i] <= n /\ len[i] = Image!Common(pos, sa[i])
    <3>1. len[i] = Image!Common(pos, sa[i]) /\ sa[i] \in P
      BY <1>2
    <3>2. Image!Common(pos, sa[i]) \in 0..n
      BY <3>1, CommonLongest
    <3> QED
      BY <1>1, <3>1, <3>2
  <2>2. len = [i \in 1..n |-> len[i]]
    BY <1>2
  <2> HIDE DEF len
  <2> QED
    BY <2>1, <2>2
<1> HIDE DEF len
<1>5. \E i \in DOMAIN sa : IsFirst(i)
  BY <1>1, <1>2, <1>4, FirstLongest
<1>6. first \in 1..n /\ IsFirst(first)
  <2> HIDE DEF IsFirst
  <2> QED
    BY <1>2, <1>5
<1>7. len[first] \in Nat /\ len[first] = Image!Common(pos, sa[first]) /\ sa[first] \in P
  BY <1>2, <1>4, <1>6
<1>8. pos + len[first] <= Len(new)
  BY <1>7, CommonLongest DEF Agree
<1>9. 0 \in P
  BY <1>1 DEF Image!Positions
<1>10. ASSUME NEW p \in P PROVE Image!Common(pos, p) <= len[first]
  <2>1. PICK i \in 1..n : sa[i] = p
    BY <1>2
  <2>2. len[i] <= len[first] /\ len[i] = Image!Common(pos, p)
    BY <1>2, <1>4, <1>6, <2>1
  <2> QED
    BY <2>2
<1> HIDE DEF first, P
<1> QED
  BY <1>3, <1>7, <1>8, <1>9, <1>10 DEF P

(* What diff_compute takes for a match ends within the new image; for an   *)
(* unchanged image it is all of it.                                        *)
LEMMA MatchFits ==
  ASSUME Image!ImageAssumption, ImagesOK, NEW pos \in 0..Len(new), pos < Len(new)
  PROVE  /\ Image!Match(pos).len \in 1..Len(new) - pos /\ Image!Match(pos).pos \in Nat
         /\ old = new /\ pos = 0 /\ Len(new) >= DIFF_MIN_MATCH => Image!Match(pos).len = Len(new)
<1> DEFINE m == Image!find_longest_match(pos)
<1>1. /\ m.len \in Nat /\ pos + m.len <= Len(new) /\ m.pos \in Image!Positions(old)
      /\ \A p \in Image!Positions(old) : Image!Common(pos, p) <= m.len
  BY LongestMatch
<1>2. DIFF_MIN_MATCH \in Nat \ {0} /\ Len(old) \in Nat \ {0} /\ Len(new) \in Nat
  BY BytesAreNumbers DEF ImagesOK
<1>3. Image!Match(pos) = IF m.len < DIFF_MIN_MATCH THEN [len |-> 1, pos |-> Len(old)] ELSE m
  BY DEF Image!Match
<1> HIDE DEF m
<1>4. Image!Match(pos).len \in 1..Len(new) - pos /\ Image!Match(pos).pos \in Nat
  BY <1>1, <1>2, <1>3 DEF Image!Positions
<1>5. ASSUME old = new, pos = 0, Len(new) >= DIFF_MIN_MATCH PROVE Image!Match(pos).len = Len(new)
  <2>1. 0 \in Image!Positions(old)
    BY <1>2 DEF Image!Positions
  <2>2. Agree(0, 0, Len(old)) /\ Len(old) \in 0..Len(old)
    BY <1>2, <1>5 DEF Agree
  <2>3. Image!Common(0, 0) \in 0..Len(old) /\ Len(old) <= Image!Common(0, 0)
    BY <1>5, <2>1, <2>2, CommonLongest
  <2>4. Image!Common(0, 0) <= m.len
    BY <1>1, <1>5, <2>1
  <2>5. m.len = Len(new)
    BY <1>1, <1>2, <1>5, <2>3, <2>4
  <2> QED
    BY <1>2, <1>3, <1>5, <2>5
<1> QED
  BY <1>4, <1>5

-----------------------------------------------------------------------------
(* The patch.  Where each of its entries ends in the new image: one behind *)
(* the other, up to what was scanned; the image made so far ends with the  *)
(* last entry applied.                                                     *)
Entry == [copy_len : 1..MaxSize, extra_len : {0}, seek_offset : Int]
EntryEnds(ends) ==
  /\ ends \in [0..Len(ctrl) -> Nat] /\ ends[0] = 0 /\ ends[Len(ctrl)] = scan
  /\ \A i \in 1..Len(ctrl) : ends[i] = ends[i - 1] + ctrl[i].copy_len
  /\ \A i, j \in 0..Len(ctrl) : i < j => ends[i] < ends[j]
  /\ Len(result) = ends[ctrl_ptr]

Whole ==
  /\ ctrl # <<>> => Len(ctrl) = 1 /\ ctrl[1].copy_len = Len(new)
  /\ ctrl_ptr = 1 => result = new

DiffType ==
  /\ ImagesOK
  /\ stage \in {"sort", "diff", "patch", "done", "overrun"} /\ scan \in 0..Len(new) /\ last_scan = scan
  /\ last_match \in Int /\ ctrl \in Seq(Entry) /\ delta = <<>>
  /\ ctrl_ptr \in 0..Len(ctrl) /\ old_pos \in 0..Len(old) /\ result \in Seq(Nat)

DiffInv ==
  /\ DiffType
  /\ \E ends : EntryEnds(ends)
  /\ ctrl_ptr = 0 => old_pos = 0 /\ result = <<>>
  /\ stage \in {"sort", "diff"} => ctrl_ptr = 0 /\ (scan = 0 => ctrl = <<>>)
  /\ stage \in {"patch", "done"} => scan = Len(new)
  /\ Image!OverrunsOnlyLarge
  /\ stage = "done" => Len(result) >= Len(new)
  /\ old = new /\ Len(new) >= DIFF_MIN_MATCH => Whole

LEMMA DiffStarts == ASSUME Image!ImageAssumption, Image!DiffInit PROVE DiffInv
<1>1. \A s \in Image!BoundedSeq(Byte, MaxSize) : s \in Seq(Byte) /\ Len(s) <= MaxSize
  <2> SUFFICES ASSUME NEW s \in Image!BoundedSeq(Byte, MaxSize)
               PROVE  s \in Seq(Byte) /\ Len(s) <= MaxSize
    OBVIOUS
  <2>1. PICK m \in 0..MaxSize : s \in [1..m -> Byte]
    BY DEF Image!BoundedSeq, Image!SeqOf
  <2> QED
    BY <2>1 DEF Image!ImageAssumption
<1>2. ImagesOK
  <2>1. old \in Seq(Byte) /\ new \in Seq(Byte) /\ Len(old) <= MaxSize /\ Len(new) <= MaxSize
        /\ old # <<>>
    BY <1>1 DEF Image!DiffInit
  <2> QED
    BY <2>1 DEF ImagesOK
<1>3. /\ stage = "sort" /\ scan = 0 /\ last_scan = 0 /\ last_match = 0
      /\ ctrl = <<>> /\ delta = <<>> /\ ctrl_ptr = 0 /\ old_pos = 0 /\ result = <<>>
  BY DEF Image!DiffInit, Image!Start
<1>4. DiffType
  BY <1>2, <1>3 DEF DiffType, ImagesOK
<1>5. EntryEnds([i \in 0..0 |-> 0])
  BY <1>3 DEF EntryEnds
<1> QED
  BY <1>3, <1>4, <1>5 DEF DiffInv, Whole, Image!OverrunsOnlyLarge

LEMMA ComputeGoesOn ==
  ASSUME Image!ImageAssumption, DiffInv, Image!diff_compute PROVE DiffInv'
<1> DEFINE m == Image!Match(scan)
           c == [copy_len |-> m.len, extra_len |-> scan - last_scan,
                 seek_offset |-> m.pos - last_match]
<1>1. /\ stage = "diff" /\ scan < Len(new)
      /\ ctrl' = Append(ctrl, c) /\ delta' = delta \o SubSeq(new, last_scan + 1, scan)
      /\ scan' = scan + m.len /\ last_scan' = scan + m.len /\ last_match' = m.pos + m.len
      /\ UNCHANGED <<old, new, stage, ctrl_ptr, old_pos, result>>
  BY DEF Image!diff_compute
<1>2. ImagesOK /\ DiffType /\ scan \in 0..Len(new) /\ last_scan = scan /\ delta = <<>>
      /\ ctrl \in Seq(Entry) /\ last_match \in Int /\ Len(new) \in Nat /\ Len(new) <= MaxSize
      /\ MaxSize \in Nat
  BY BytesAreNumbers DEF DiffInv, DiffType, ImagesOK
<1>3. /\ m.len \in 1..Len(new) - scan /\ m.pos \in Nat
      /\ old = new /\ scan = 0 /\ Len(new) >= DIFF_MIN_MATCH => m.len = Len(new)
  BY <1>1, <1>2, MatchFits
<1>4. c \in Entry /\ c.copy_len = m.len
  <2>1. m.len \in 1..MaxSize /\ scan - last_scan = 0 /\ m.pos - last_match \in Int
    BY <1>2, <1>3
  <2> HIDE DEF m
  <2> QED
    BY <2>1 DEF Entry
<1> HIDE DEF m, c
<1>5. SubSeq(new, last_scan + 1, scan) = <<>>
  BY <1>2, SubSeqEmpty
<1>6. delta' = <<>>
  BY <1>1, <1>2, <1>5
<1>7. /\ ctrl' \in Seq(Entry) /\ Len(ctrl') = Len(ctrl) + 1 /\ Len(ctrl) \in Nat
      /\ ctrl'[Len(ctrl) + 1] = c /\ \A i \in 1..Len(ctrl) : ctrl'[i] = ctrl[i]
  BY <1>1, <1>2, <1>4
<1>8. scan' \in 0..Len(new) /\ scan' \in Nat /\ scan < scan' /\ scan \in Nat
  BY <1>1, <1>2, <1>3
<1>9. DiffType'
  <2>1. ImagesOK' /\ stage' \in {"sort", "diff", "patch", "done", "overrun"}
    BY <1>1, <1>2 DEF DiffType, ImagesOK
  <2>2. scan' \in 0..Len(new') /\ last_scan' = scan' /\ last_match' \in Int
    BY <1>1, <1>3, <1>8
  <2>3. old_pos' \in 0..Len(old') /\ result' \in Seq(Nat) /\ ctrl_ptr' \in 0..Len(ctrl')
    <3>1. old_pos \in 0..Len(old) /\ result \in Seq(Nat) /\ ctrl_ptr \in 0..Len(ctrl)
      BY <1>2 DEF DiffType
    <3> QED
      BY <1>1, <1>7, <3>1
  <2> QED
    BY <1>6, <1>7, <2>1, <2>2, <2>3 DEF DiffType
<1>10. PICK ends : EntryEnds(ends)
  BY DEF DiffInv
<1>11. \E e : EntryEnds(e)'
  <2> DEFINE e == [i \in 0..Len(ctrl) + 1 |-> IF i \in 0..Len(ctrl) THEN ends[i] ELSE scan']
             l == Len(ctrl)
  <2>0. l \in Nat /\ l + 1 \notin 0..l /\ l + 1 \in 0..l + 1 /\ l \in 0..l /\ 0 \in 0..l
    BY <1>7
  <2>1. \A i \in 0..l : e[i] = ends[i] /\ e[i] \in Nat
    BY <1>7, <1>10 DEF EntryEnds
  <2>2. e[l + 1] = scan' /\ e[l] = scan /\ e[0] = 0
    BY <1>10, <2>0 DEF EntryEnds
  <2>3. e \in [0..l + 1 -> Nat]
    BY <1>8, <2>1
  <2> HIDE DEF e
  <2>4. ASSUME NEW i \in 1..l + 1 PROVE e[i] = e[i - 1] + ctrl'[i].copy_len
    <3>1. CASE i \in 1..l
      <4>1. i \in 0..l /\ i - 1 \in 0..l /\ ctrl'[i] = ctrl[i]
        BY <1>7, <3>1
      <4> QED
        BY <1>10, <2>1, <3>1, <4>1 DEF EntryEnds
    <3>2. CASE i = l + 1
      <4>1. i - 1 = l
        BY <2>0, <3>2
      <4> QED
        BY <1>1, <1>4, <1>7, <2>2, <3>2, <4>1
    <3> QED
      BY <2>0, <3>1, <3>2
  <2>5. ASSUME NEW i \in 0..l + 1, NEW j \in 0..l + 1, i < j PROVE e[i] < e[j]
    <3>1. CASE j \in 0..l
      <4>1. i \in 0..l
        BY <2>0, <2>5, <3>1
      <4> QED
        BY <1>10, <2>1, <2>5, <3>1, <4>1 DEF EntryEnds
    <3>2. CASE j = l + 1
      <4>1. i \in 0..l /\ (i = l \/ i < l)
        BY <2>0, <2>5, <3>2
      <4>2. ends[i] <= ends[l] /\ ends[l] = scan
        BY <1>8, <1>10, <2>0, <4>1 DEF EntryEnds
      <4> QED
        BY <1>8, <2>1, <2>2, <3>2, <4>1, <4>2
    <3> QED
      BY <2>0, <3>1, <3>2
  <2>6. Len(result)' = e[ctrl_ptr']
    <3>1. ctrl_ptr \in 0..l
      BY <1>2 DEF DiffType
    <3> QED
      BY <1>1, <1>10, <2>1, <3>1 DEF EntryEnds
  <2>7. /\ e \in [0..Len(ctrl') -> Nat] /\ e[0] = 0 /\ e[Len(ctrl')] = scan'
        /\ \A i \in 1..Len(ctrl') : e[i] = e[i - 1] + ctrl'[i].copy_len
        /\ \A i, j \in 0..Len(ctrl') : i < j => e[i] < e[j]
        /\ Len(result') = e[ctrl_ptr']
    BY <1>7, <2>2, <2>3, <2>4, <2>5, <2>6
  <2> QED
    BY <2>7 DEF EntryEnds
<1>12. ctrl_ptr' = 0 /\ old_pos' = 0 /\ result' = <<>> /\ stage' = "diff" /\ scan' # 0
  BY <1>1, <1>8 DEF DiffInv
<1>13. old' = new' /\ Len(new') >= DIFF_MIN_MATCH => Whole'
  <2> SUFFICES ASSUME old = new, Len(new) >= DIFF_MIN_MATCH
               PROVE  Len(ctrl') = 1 /\ ctrl'[1].copy_len = Len(new)
    BY <1>1, <1>12 DEF Whole
  <2>1. Whole
    BY DEF DiffInv
  <2>2. ctrl = <<>>
    <3> SUFFICES ASSUME ctrl # <<>> PROVE FALSE
      OBVIOUS
    <3>1. Len(ctrl) = 1 /\ ctrl[1].copy_len = Len(new)
      BY <2>1 DEF Whole
    <3>2. ends[1] = ends[1 - 1] + ctrl[1].copy_len /\ ends[1 - 1] = 0 /\ ends[1] = scan
      BY <1>10, <3>1 DEF EntryEnds
    <3>3. scan = Len(new)
      BY <1>2, <3>1, <3>2
    <3> QED
      BY <1>1, <1>2, <3>3
  <2>3. Len(ctrl) = 0
    BY <2>2
  <2>4. scan = 0
    BY <1>10, <2>3 DEF EntryEnds
  <2> QED
    BY <1>3, <1>4, <1>7, <2>3, <2>4
<1> QED
  BY <1>9, <1>11, <1>12, <1>13 DEF DiffInv, Image!OverrunsOnlyLarge

(* What an entry copies fits; no entry is missing; and when one entry is   *)
(* the whole of an unchanged image, so is the copy.                        *)
LEMMA ApplyGoesOn ==
  ASSUME Image!ImageAssumption, DiffInv, Image!diff_apply PROVE DiffInv'
<1> DEFINE l == Len(ctrl)
           c == ctrl[ctrl_ptr + 1]
           copied == Image!Copied(c.copy_len)
           sought == old_pos + c.copy_len + c.seek_offset
<1>1. /\ stage = "patch" /\ Len(result) < Len(new)
      /\ UNCHANGED <<old, new, scan, last_scan, last_match, ctrl, delta>>
  BY DEF Image!diff_apply
<1>2. ImagesOK /\ DiffType /\ ctrl \in Seq(Entry) /\ delta = <<>> /\ result \in Seq(Nat)
      /\ old_pos \in 0..Len(old) /\ ctrl_ptr \in 0..l /\ l \in Nat /\ scan = Len(new)
      /\ Len(new) \in Nat /\ Len(result) \in Nat
  BY <1>1 DEF DiffInv, DiffType, ImagesOK
<1>3. PICK ends : EntryEnds(ends)
  BY DEF DiffInv
<1>4. ctrl_ptr # l
  BY <1>1, <1>2, <1>3 DEF EntryEnds
<1>5. /\ result' = result \o copied \o SubSeq(delta, 1, c.extra_len)
      /\ old_pos' = IF sought < 0 \/ sought > Len(old) THEN Len(old) ELSE sought
      /\ ctrl_ptr' = ctrl_ptr + 1 /\ UNCHANGED stage
  BY <1>4 DEF Image!diff_apply
<1>6. /\ ctrl_ptr + 1 \in 1..l /\ ctrl_ptr + 1 \in 0..l /\ (ctrl_ptr + 1) - 1 = ctrl_ptr
      /\ ctrl_ptr \in Nat
  BY <1>2, <1>4
<1>7. c \in Entry /\ c.copy_len \in 1..MaxSize /\ c.copy_len \in Nat /\ c.extra_len = 0
      /\ c.seek_offset \in Int
  <2>1. c \in Entry
    BY <1>2, <1>6
  <2> HIDE DEF c
  <2> QED
    BY <2>1 DEF Entry
<1> HIDE DEF c
<1>8. ends[ctrl_ptr + 1] = Len(result) + c.copy_len /\ Len(result) + c.copy_len <= Len(new)
  <2>1. ends[ctrl_ptr + 1] = ends[ctrl_ptr] + c.copy_len /\ ends[ctrl_ptr] = Len(result)
    BY <1>3, <1>6 DEF EntryEnds, c
  <2>2. ends[ctrl_ptr + 1] <= ends[l] /\ ends[l] = Len(new)
    <3>1. l \in 0..l /\ (ctrl_ptr + 1 = l \/ ctrl_ptr + 1 < l)
      BY <1>2, <1>6
    <3>2. ends[l] = Len(new) /\ ends[l] \in Nat /\ ends[ctrl_ptr + 1] \in Nat
      BY <1>2, <1>3, <1>6, <3>1 DEF EntryEnds
    <3> QED
      BY <1>3, <1>6, <3>1, <3>2 DEF EntryEnds
  <2> QED
    BY <2>1, <2>2
<1>9. /\ copied \in Seq(Nat) /\ Len(copied) = c.copy_len
      /\ \A i \in 1..c.copy_len : old_pos + i - 1 < Len(old) => copied[i] = old[old_pos + i]
  <2>1. Image!Room(c.copy_len) = c.copy_len
    BY <1>2, <1>7, <1>8 DEF Image!Room
  <2>2. copied = [i \in 1..c.copy_len |->
                    IF old_pos + i - 1 < Len(old) THEN Image!At(old, old_pos + i - 1) ELSE 0]
    BY <2>1 DEF Image!Copied
  <2>3. ASSUME NEW i \in 1..c.copy_len, old_pos + i - 1 < Len(old)
        PROVE  Image!At(old, old_pos + i - 1) = old[old_pos + i] /\ old[old_pos + i] \in Nat
    <3>1. old_pos + i - 1 + 1 = old_pos + i /\ old_pos + i \in 1..Len(old) /\ old \in Seq(Nat)
      BY <1>2, <1>7, <2>3, BytesAreNumbers
    <3> QED
      BY <3>1 DEF Image!At
  <2> HIDE DEF copied
  <2>4. copied \in [1..c.copy_len -> Nat]
    BY <2>2, <2>3
  <2> QED
    BY <1>7, <2>2, <2>3, <2>4
<1> HIDE DEF copied
<1>10. SubSeq(delta, 1, c.extra_len) = <<>>
  BY <1>7, SubSeqEmpty
<1>11. result' = result \o copied /\ result' \in Seq(Nat)
       /\ Len(result') = Len(result) + c.copy_len
  <2>1. result' = (result \o copied) \o <<>>
    BY <1>5, <1>10
  <2>2. result \o copied \in Seq(Nat) /\ Len(result \o copied) = Len(result) + Len(copied)
    BY <1>2, <1>9, ConcatProperties
  <2>3. (result \o copied) \o <<>> = result \o copied
    BY <2>2, ConcatEmptySeq
  <2> QED
    BY <1>9, <2>1, <2>2, <2>3
<1>12. old_pos' \in 0..Len(old) /\ Len(old) \in Nat
  <2>1. sought \in Int /\ Len(old) \in Nat
    BY <1>2, <1>7 DEF ImagesOK
  <2> HIDE DEF sought
  <2> QED
    BY <1>5, <2>1
<1>13. DiffType'
  <2>1. ImagesOK' /\ stage' \in {"sort", "diff", "patch", "done", "overrun"} /\ scan' \in 0..Len(new')
        /\ last_scan' = scan' /\ last_match' \in Int /\ ctrl' \in Seq(Entry) /\ delta' = <<>>
    BY <1>1, <1>2, <1>5 DEF DiffType, ImagesOK
  <2> QED
    BY <1>1, <1>5, <1>6, <1>11, <1>12, <2>1 DEF DiffType
<1>14. EntryEnds(ends)'
  <2>1. Len(result') = ends[ctrl_ptr']
    BY <1>5, <1>8, <1>11
  <2> QED
    BY <1>1, <1>3, <2>1 DEF EntryEnds
<1>15. old = new /\ Len(new) >= DIFF_MIN_MATCH => Whole'
  <2> SUFFICES ASSUME old = new, Len(new) >= DIFF_MIN_MATCH PROVE Whole'
    OBVIOUS
  <2>1. Whole
    BY DEF DiffInv
  <2>2. Len(ctrl) = 1 /\ ctrl[1].copy_len = Len(new)
    BY <1>6, <2>1 DEF Whole
  <2>3. ctrl_ptr = 0 /\ c.copy_len = Len(new)
    BY <1>2, <1>4, <2>2 DEF c
  <2>4. old_pos = 0 /\ result = <<>>
    BY <2>3 DEF DiffInv
  <2>5. result' = copied /\ Len(copied) = Len(new)
    BY <1>9, <1>11, <2>3, <2>4
  <2>6. \A i \in 1..Len(new) : copied[i] = new[i]
    <3> SUFFICES ASSUME NEW i \in 1..Len(new) PROVE copied[i] = new[i]
      OBVIOUS
    <3>1. old_pos + i - 1 < Len(old) /\ old_pos + i = i
      BY <1>2, <2>4
    <3> QED
      BY <1>9, <2>3, <3>1
  <2>7. new \in Seq(Nat)
    BY <1>2, BytesAreNumbers
  <2>8. copied = new
    BY <1>9, <2>5, <2>6, <2>7, SeqEqual
  <2> QED
    BY <1>1, <1>5, <2>2, <2>5, <2>8 DEF Whole
<1>16. ctrl_ptr' # 0 /\ stage' = "patch" /\ scan' = Len(new')
  BY <1>1, <1>2, <1>5, <1>6
<1> QED
  BY <1>1, <1>13, <1>14, <1>15, <1>16 DEF DiffInv, Image!OverrunsOnlyLarge

(* An image that is not longer than the counters is sorted within them: a  *)
(* rank is a byte, or after the first round a number below the length.     *)
LEMMA SortsWithinCounters ==
  ASSUME Image!ImageAssumption, ImagesOK, Image!Overruns(old)
  PROVE  Len(old) > SaCounters
<1> DEFINE R(r) == Image!Rounds(old)[r]
<1>1. old \in Seq(Nat) /\ Len(old) \in Nat /\ SaCounters \in Nat
  BY BytesAreNumbers DEF Image!ImageAssumption, ImagesOK
<1>2. Image!Rounds(old) = [r \in 0..Len(old) |-> Round(old, Image!Rounds(old), r)]
  BY <1>1, RoundsDefined
<1>3. PICK r \in 0..Len(old), i \in Image!Positions(old) : R(r).rank[i] >= SaCounters
  <2>1. DOMAIN Image!Rounds(old) = 0..Len(old)
    BY <1>2
  <2> QED
    BY <2>1 DEF Image!Overruns
<1>4. RankOK(old, R(r))
  BY <1>1, RoundsRank
<1>5. CASE R(r).k > 1
  <2> HIDE DEF R
  <2>1. R(r).rank[i] \in 0..Len(old) - 1
    BY <1>4, <1>5 DEF RankOK
  <2> QED
    BY <1>1, <1>3, <2>1
<1>6. CASE ~(R(r).k > 1)
  <2>1. R(r).rank[i] = Image!At(old, i)
    BY <1>1, <1>6, FirstRound
  <2>2. Image!At(old, i) \in Byte
    <3>1. i + 1 \in 1..Len(old)
      BY <1>1 DEF Image!Positions
    <3> QED
      BY <3>1 DEF Image!At, ImagesOK
  <2>3. Image!At(old, i) \in 0..SaCounters - 1
    BY <2>2 DEF Image!ImageAssumption
  <2>4. Image!At(old, i) >= SaCounters
    BY <1>3, <2>1
  <2> QED
    BY <1>1, <2>3, <2>4
<1> QED
  BY <1>5, <1>6

LEMMA DiffGoesOn ==
  ASSUME Image!ImageAssumption, DiffInv, [Image!DiffNext]_(Image!diffvars) PROVE DiffInv'
<1>1. CASE Image!diff_compute
  BY <1>1, ComputeGoesOn
<1>2. CASE Image!diff_apply
  BY <1>2, ApplyGoesOn
<1>3. CASE Image!Finish
  <2>1. stage' = "patch" /\ scan >= Len(new) /\ stage = "diff"
        /\ UNCHANGED <<old, new, scan, last_scan, last_match, ctrl, delta,
                       ctrl_ptr, old_pos, result>>
    BY <1>3 DEF Image!Finish
  <2>2. scan = Len(new)
    BY <2>1 DEF DiffInv, DiffType, ImagesOK
  <2> QED
    BY <2>1, <2>2 DEF DiffInv, DiffType, ImagesOK, EntryEnds, Whole, Image!OverrunsOnlyLarge
<1>4. CASE Image!Applied
  <2>1. stage' = "done" /\ Len(result) >= Len(new) /\ stage = "patch"
        /\ UNCHANGED <<old, new, scan, last_scan, last_match, ctrl, delta,
                       ctrl_ptr, old_pos, result>>
    BY <1>4 DEF Image!Applied
  <2> QED
    BY <2>1 DEF DiffInv, DiffType, ImagesOK, EntryEnds, Whole, Image!OverrunsOnlyLarge
<1>5. CASE UNCHANGED Image!diffvars
  BY <1>5 DEF Image!diffvars, DiffInv, DiffType, ImagesOK, EntryEnds, Whole, Image!OverrunsOnlyLarge
<1>6. CASE Image!SortOld
  <2>1. /\ stage = "sort" /\ stage' = IF Image!Overruns(old) THEN "overrun" ELSE "diff"
        /\ UNCHANGED <<old, new, scan, last_scan, last_match, ctrl, delta,
                       ctrl_ptr, old_pos, result>>
    BY <1>6 DEF Image!SortOld
  <2>2. Image!Overruns(old) => Len(old) > SaCounters
    BY SortsWithinCounters DEF DiffInv, DiffType
  <2>3. stage' \in {"diff", "overrun"} /\ Image!OverrunsOnlyLarge'
    BY <2>1, <2>2 DEF Image!OverrunsOnlyLarge
  <2> HIDE DEF Image!Overruns
  <2> QED
    BY <2>1, <2>3 DEF DiffInv, DiffType, ImagesOK, EntryEnds, Whole
<1> QED
  BY <1>1, <1>2, <1>3, <1>4, <1>5, <1>6 DEF Image!DiffNext

LEMMA DiffHolds == ASSUME Image!ImageAssumption, DiffInv PROVE PatchesApply
<1>1. DiffType /\ ImagesOK
  BY DEF DiffInv, DiffType
<1>2. Image!PatchTypeOK
  <2>1. \A e \in Image!Range(ctrl) : e \in Entry
    BY <1>1 DEF DiffType, Image!Range
  <2>2. \A e \in Entry : e.copy_len \in 1..MaxSize /\ e.extra_len \in 0..MaxSize
    BY DEF Entry, Image!ImageAssumption
  <2> QED
    BY <1>1, <2>1, <2>2 DEF DiffType, Image!PatchTypeOK
<1>3. Image!SuffixesAreSorted
  BY <1>1, BytesAreNumbers, SuffixesSorted DEF ImagesOK
<1>4. Image!OwnPatchApplies
  <2> SUFFICES ASSUME stage = "done"
               PROVE  /\ Len(result) = Len(new) /\ ctrl_ptr = Len(ctrl)
                      /\ old = new /\ Len(new) >= DIFF_MIN_MATCH => result = new
    BY <1>1 DEF DiffType, Image!OwnPatchApplies
  <2>1. PICK ends : EntryEnds(ends)
    BY DEF DiffInv
  <2>2. ctrl_ptr \in 0..Len(ctrl) /\ Len(ctrl) \in Nat /\ Len(ctrl) \in 0..Len(ctrl)
    BY <1>1 DEF DiffType
  <2>3. /\ ends[ctrl_ptr] = Len(result) /\ ends[Len(ctrl)] = Len(new)
        /\ Len(result) >= Len(new) /\ ends[ctrl_ptr] \in Nat /\ ends[Len(ctrl)] \in Nat
    BY <2>1, <2>2 DEF EntryEnds, DiffInv
  <2>4. ctrl_ptr = Len(ctrl)
    <3> SUFFICES ASSUME ctrl_ptr # Len(ctrl) PROVE FALSE
      OBVIOUS
    <3>1. ctrl_ptr < Len(ctrl)
      BY <2>2
    <3>2. ends[ctrl_ptr] < ends[Len(ctrl)]
      BY <2>1, <2>2, <3>1 DEF EntryEnds
    <3> QED
      BY <2>3, <3>2
  <2>5. ASSUME old = new, Len(new) >= DIFF_MIN_MATCH PROVE result = new
    <3>1. Whole
      BY <2>5 DEF DiffInv
    <3>2. ctrl # <<>>
      <4> SUFFICES ASSUME ctrl = <<>> PROVE FALSE
        OBVIOUS
      <4>1. Len(ctrl) = 0
        OBVIOUS
      <4>2. Len(new) = 0
        BY <2>1, <2>3, <4>1 DEF EntryEnds
      <4> QED
        BY <2>5, <4>2 DEF Image!ImageAssumption
    <3> QED
      BY <2>4, <3>1, <3>2 DEF Whole
  <2> QED
    BY <2>3, <2>4, <2>5
<1> QED
  BY <1>2, <1>3, <1>4 DEF PatchesApply, DiffInv

-----------------------------------------------------------------------------
(* The bench.                                                              *)

Inv == /\ Ota!TypeOK /\ OtaInv /\ SlotsInv
       /\ AbInv /\ ResumeInv /\ DiffInv /\ BootInv /\ GaugeInv /\ RkInv

LEMMA Setup ==
  /\ OneCaller /\ Caller # {}
  /\ Ota!OtaAssumption /\ Ab!AbAssumption /\ Image!ImageAssumption
  /\ Boot!BootAssumption /\ Gauge!UpgradeAssumption
  BY SetupAssumption DEF OneCaller

LEMMA Starts == ASSUME Init PROVE Inv
<1>1. Ota!TypeOK /\ OtaInv /\ SlotsInv
  BY Setup, InitType, OtaStarts DEF Init
<1>2. AbInv /\ ResumeInv /\ DiffInv
  BY Setup, AbStarts, ResumeStarts, DiffStarts DEF Init, Image!Init
<1>3. BootInv /\ GaugeInv /\ RkInv
  BY Setup, BootStarts, GaugeStarts, RkStarts DEF Init
<1> QED
  BY <1>1, <1>2, <1>3 DEF Inv

(* A step of the bench is a step of one component and a stutter of the     *)
(* others.                                                                 *)
LEMMA Interleaved ==
  ASSUME [Next]_vars
  PROVE  /\ [Ota!Next]_(Ota!vars) /\ [Ab!Next]_(Ab!vars) /\ [Image!ResumeNext]_(Image!resumevars)
         /\ [Image!DiffNext]_(Image!diffvars)
         /\ [Boot!Next]_(Boot!vars) /\ [Gauge!Next]_(Gauge!vars) /\ [Rk!Next]_(Rk!rkvars)
<1>1. /\ Ota!Next \/ UNCHANGED otavars
      /\ Ab!Next \/ UNCHANGED abvars
      /\ Image!ResumeNext \/ UNCHANGED resumevars
      /\ Image!DiffNext \/ UNCHANGED diffvars
      /\ Boot!Next \/ UNCHANGED bootvars
      /\ Gauge!Next \/ UNCHANGED gaugevars
      /\ Rk!Next \/ UNCHANGED rkvars
  BY DEF Next, Parked, vars
<1> QED
  BY <1>1 DEF otavars, abvars, resumevars, diffvars, bootvars, gaugevars, rkvars, Ota!vars,
              Ota!disk, Ota!system, Ab!vars, Image!resumevars, Image!diffvars, Boot!vars,
              Gauge!vars, Rk!rkvars

LEMMA GoesOn == ASSUME Inv, [Next]_vars PROVE Inv'
<1> USE DEF Inv
<1>1. Ota!TypeOK' /\ OtaInv' /\ SlotsInv'
  BY Setup, Interleaved, NextType, OtaGoesOn
<1>2. AbInv'
  BY Setup, Interleaved, AbGoesOn
<1>3. ResumeInv' /\ DiffInv'
  BY Setup, Interleaved, ResumeGoesOn, DiffGoesOn
<1>4. BootInv' /\ RkInv'
  BY Setup, Interleaved, BootGoesOn, RkGoesOn
<1>5. GaugeInv'
  BY Setup, Interleaved, GaugeGoesOn
<1> QED
  BY <1>1, <1>2, <1>3, <1>4, <1>5

LEMMA Holds == ASSUME Inv PROVE TypeOK /\ ImagesHold /\ RecordsHold /\ PatchesApply
<1> USE DEF Inv
<1>1. TypeOK
  BY DEF TypeOK, AbInv, ResumeInv, BootInv, GaugeInv, RkInv
<1>2. ImagesHold
  BY Setup, OtaHolds, BootHolds, GaugeHolds DEF ImagesHold
<1>3. RecordsHold
  BY Setup, ResumeHolds DEF RecordsHold, AbInv, RkInv
<1>4. PatchesApply
  BY Setup, DiffHolds
<1> QED
  BY <1>1, <1>2, <1>3, <1>4

LEMMA Always == Spec => []Inv
  BY Starts, GoesOn, PTL DEF Spec

(* Every variable of the updates stays in its type, for every limit and    *)
(* bound: fail_count of ab_partition.c below the limit at which it         *)
(* switches, a bitmap within the size of the download.                     *)
THEOREM UpdatesTyped == Spec => []TypeOK
<1>1. Inv => TypeOK
  BY Holds
<1> QED
  BY Always, <1>1, PTL

(* Nothing but a verified image is ever flashed, the running slot is left  *)
(* alone and every power loss leaves a whole image to boot, until a        *)
(* rollback; the M7's boot loader erases only for an image that passes;    *)
(* a gauge that reports success has every block.                           *)
THEOREM ImagesAlwaysHold == Spec => []ImagesHold
<1>1. Inv => ImagesHold
  BY Holds
<1> QED
  BY Always, <1>1, PTL

(* What the records say is what happened: the failures in a row of the     *)
(* active slot, the blocks received, the confirmation of an upgrade.       *)
THEOREM RecordsAlwaysHold == Spec => []RecordsHold
<1>1. Inv => RecordsHold
  BY Holds
<1> QED
  BY Always, <1>1, PTL

(* The patch diff_upgrade.c makes of any two images, of whatever size, is  *)
(* applied by its own patcher: no entry is refused, none is left over, the *)
(* image comes out with the size announced, and an unchanged image comes   *)
(* out as it was.  The doubling sort of build_sa puts the suffixes of      *)
(* every image in order and keeps to its counters, unless the image has    *)
(* more bytes than there are counters.                                     *)
THEOREM PatchesAlwaysApply == Spec => []PatchesApply
<1>1. Inv => PatchesApply
  BY Holds
<1> QED
  BY Always, <1>1, PTL

(* The starts that go on with one download exceed RESUME_MAX_ATTEMPTS by   *)
(* no more than the saves that could not open the record, over all restarts*)
(* of the process; the boot loader tries an update once; and the time a    *)
(* gauge is busy is bounded.                                               *)
THEOREM AttemptsAreBounded == Spec => AttemptsBounded
<1>1. Inv /\ [Next]_vars => Image!AttemptsBounded
  BY Setup, Interleaved, ResumeGoesOn DEF Inv
<1>2. Inv => Boot!AttemptedOnce /\ Gauge!BusyTimeBounded
  BY Setup, GaugeHolds DEF Inv, BootInv
<1> QED
  BY Always, <1>1, <1>2, PTL DEF Spec, AttemptsBounded
=============================================================================
