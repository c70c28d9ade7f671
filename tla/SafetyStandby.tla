--------------------------- MODULE SafetyStandby ----------------------------
(***************************************************************************)
(* The safety watchdog together with the dock standby, in the one place    *)
(* where they meet: Enter_Dock_Standby (l1_m4/Core/lpwr_stop2.c) writes    *)
(* its commands for the M7 to offset 60 of SRAM3, which is where           *)
(* Safety_Monitor reads m7_heartbeat_cnt.                                  *)
(***************************************************************************)
EXTENDS SafetyWd

CONSTANT MaxStandbys   \* bound: times the M4 enters standby

VARIABLES asleep,      \* between Signal_M7_DeepSleep and Signal_M7_Wake
          standbys

StandbyInit == Init /\ asleep = FALSE /\ standbys = 0

WriteCommand == /\ m7_heartbeat_cnt' \in 0..HbMod - 1 /\ m7_heartbeat_cnt' # m7_heartbeat_cnt
                /\ UNCHANGED <<boot, m4vars, outvars, wdgvars, hsem0, m7, heartbeat, lag>>

(* vDockTask writes 0xDEADBEEF.  The safety task, of a higher priority,    *)
(* goes on until the core stops.                                           *)
Signal_M7_DeepSleep == /\ boot = "run" /\ ~asleep /\ asleep' = TRUE
                       /\ standbys < MaxStandbys /\ standbys' = standbys + 1
                       /\ WriteCommand

(* After the wake-up it writes 0xCAFEBABE, and takes and releases HSEM(0). *)
Signal_M7_Wake == boot = "run" /\ asleep /\ asleep' = FALSE /\ WriteCommand /\ UNCHANGED standbys

StandbyNext ==
  \/ Next /\ asleep' = (asleep /\ boot' = "run") /\ UNCHANGED standbys
  \/ Signal_M7_DeepSleep \/ Signal_M7_Wake

StandbySpec == /\ StandbyInit /\ [][StandbyNext]_<<vars, asleep, standbys>>
               /\ Fairness
=============================================================================
