# Verification of the H747-Elite robot controller

This directory holds TLA+ models of the control code of H747-Elite, the TLC
configurations that check them, and TLAPS proofs about the safety watchdog, the
reliable UART layer, the updates, the battery, the tasks of the M4 and the connections of
the RK3566.
Every definition is translated from the C and C++ source; `PROJECT.json` maps it
to its lines.  The repository's documents are only used to learn what a component
promises; where the code does something else, the model follows the code and the
section [Disagreements](#disagreements-between-code-and-documents) says so.

Contents: [the system](#the-system), [modules](#modules-and-code),
[runs](#what-the-runs-check), [fairness](#fairness), [proofs](#what-is-proved),
[what is not modelled](#what-is-not-modelled),
[disagreements](#disagreements-between-code-and-documents),
[what is left to do](#what-is-left-to-do).

Check a run with `tlc -config X.cfg M.tla`, the proofs with `tlapm M.tla` for the
modules `SafetyWd_proofs`, `Qos_proofs`, `Ota_proofs`, `Bms_proofs`, `Tasks_proofs`,
`Net_proofs`, `Ipc_proofs` and `Devices_proofs` (the last takes some ten minutes).

## The system

A vacuum robot with three processors.

* The **M7** core of the STM32H747 (480 MHz) runs the motor control loops and
  `vIpcBridgeTask`, which exchanges one `l1_report_t` for one `l2_cmd_t` with the
  Linux board at 100 Hz.
* The **M4** core watches the M7 (`vSafetyWdTask`, 10 ms), runs the battery
  (`vBmsTask`, 100 ms) and the dock (`vDockTask`, 100 ms), and puts the system to
  sleep.
* The **RK3566** runs Linux: navigation, cloud, updates (OTA), and the master end
  of the link to the M7.

They interact through SRAM3 (a block both cores of the H747 write without locks),
hardware semaphores (HSEM), the PWM_SHUTDOWN pin and the break input of TIM1 (M4
to the motor drivers), SPI or USB (M7 to RK3566, chosen at start by
`IPC_Transport_Select`), and a UART with its own reliable layer.

### Inventory

| Component | State | Operations | Interacts with | Hard to test | Correct when |
|---|---|---|---|---|---|
| M4 safety watchdog `safety_wd.c` | miss counter (8 bit), verdict, fail-safe state, window watchdog, two shut-off paths | boot, poll, kill, restore, early-wake interrupt, reset | M7 loop via HSEM 0 and `m7_heartbeat_cnt`, SRAM3 | a beat in the poll that declares death; hangs; reset with the M7 dead; counter wrap | a silent M7 is cut in time, a living one never; power returns only on a sign of life |
| QoS layer `qos_retransmit.c` | send window, sequence numbers, retries, expected number | send, receive (data, ACK, NACK, POLL), poll, shutdown, init | peer over a UART | loss, wrap, restart of one end, failed malloc | FIFO without gaps; an ACK is the truth; the window empties |
| Slot metadata `ab_partition.c` | active slot, counters per slot, file | init, attempt, success, failure, switch, mark | file system | torn file, restart between failures | the counter is that of the active slot; failover after 3 |
| OTA pipeline `ota_manager.c` | state, staged image, two partitions, boot flag | check, download, verify, flash, post-verify, flag, reboot, rollback, init | boot loader, MCU target | power loss anywhere, early returns, second caller | only verified images, never over the running slot, next boot whole |
| Protection `bms_protect.c` | six trip flags, two FETs, timers | `PROT_Task`, comparator interrupt | gauge, charge and discharge modules | interrupt between test and write; several faults; tick wrap | a FET is open while its fault lasts and closes after it |
| Charge `bms_charge.c` (bms/) | phase, target, FET, timers | start, task, stop | gauge | time limits of stages, late calls | bounded charge, FET closed only in one |
| Precharge `bms_precharge.c` | phase, retries, two FETs | init, start, task, reset | load capacitor | late calls, retry against limit | main FET only onto a charged load; always ends |
| Discharge `bms_discharge.c` | warning, critical stop, record on flash | init, task, save, restore, reset | gauge, flash | capacity changes, torn record | a flat pack is noticed and stays stopped over a restart |
| SPI transport `ipc_spi.c`, bridge `ipc_bridge.c`, master `ipc_spi_linux.cpp` | double buffer, ring, READY pin, flags | send, recv, process, DMA callbacks, exchange | DMA, RK3566 | callback between two functions, DMA error | commands in order and once; report is the latest; link never sticks |
| USB transport `ipc_usb.c` | two rings, busy flag, configuration | send, recv, CDC callbacks, reset, configure | USB host | reset inside a function, unplug | the same |
| Dock and standby `dock_handshake.c`, `lpwr_stop2.c` | dock state, averages, charger pin, backup registers | `Dock_Run`, enter and leave standby | vBmsTask and watchdog via SRAM3 | rail lost in a sleep; M4 writing the M7's heartbeat | charger off without the rail; standby reached |
| Battery task `bms_charge.c` (Core/), `bms_smbus.c` | charge state, stage start, limits | read all, `ChargeFSM` | gauge on SMBus | some reads fail; clock wraps | over-voltage stops charging; every charge ends |
| Balancing `bms_balance.c` | cells bled, duty counters (8 bit), pause | task | FETs, charge current | 8-bit counter against 600; changes of the selection | only high cells are bled, and as many as the resistors may carry |
| Gauge upgrade `bms_upgrade.c` | phase, block, retries, ROM mode | start, task, exit | gauge on SMBus | failing transfers, a time-out in ROM mode | success means a whole image; it ends |
| Safety sensors `safety/*.c` | debounce counters, phases, start times | update of collision, tilt, stall, drop | motors | several conditions on one start time, late calls | a hazard is answered in time, and the answer ends |
| Redundancy, fault injection `safety_redundant.c`, `safety_fault.c` | flags of three pairs, mode; injectors | update, clear; arm, inject, verify | sensors, watchdog | debounce against decision, second arm | a verdict needs its trigger |
| Motor coordination `motor/*.c` | ramps, stall times, allocation of the current | task per motor, enable, clear | M7 loop | disable and enable within a stall | a stall stops the brush; commands stay in range |
| M7 boot loader `bootloader/boot_*.c` | flash pages, OTA flag, attempts | verify, erase, copy, jump | staging area | power loss between erase and copy | erased only with a verified image at hand |
| Boot environment `rk_boot.c` | three variables | switch, confirm, read, write | U-Boot | two writes for one decision | a confirmed slot stays |
| Resumable download `resume_transfer.c` | bitmap, counts, record on file | start, block, resume, complete, abort | cloud, file | crash in a save | the record names received blocks only |
| Delta upgrade `diff_upgrade.c` | control entries | diff, apply | OTA | offsets and ends | own patches apply |
| Reconnection `reconnect.c` | session, back-off, synchronisation | poll, ACK, SYNC | QoS, peer | time-out against late answer | CONNECTED means heard; the link returns |
| Frame priority `frame_priority.c` | three queues, starvation timer | enqueue, dequeue, flush | UART | starvation, limits of queues | every class gets its slot |
| Wi-Fi and LTE `wifi_roam.c`, `lte_backup.c` | RSSI phase, AP, modem | two threads | wpa_supplicant, modem | failing chain of commands | roams after a weak phase only; backup follows |
| Cloud clients `aws_iot.c`, `aliyun_iot.c` | state, topics, threads | connect, disconnect, subscribe, read, reconnect | broker | loss in every step, disconnect in a reconnection | CONNECTED is read; topics are restored |
| Tuya `tuya_iot.c` | parser, data points | frames, connect, disconnect | Tuya module | frames in pieces, damaged bytes | commands in order |
| Telemetry, shadow `telemetry_batch.c`, `device_shadow.c` | batch, spill files; reported state | add, flush, replay; update, report | cloud client | network lost in a replay; two critical sections | replay in order; the cloud catches up |
| UDS, Modbus `uds.c`, `modbus_rtu.c` | session, trouble codes; transaction | services; read and write registers | CAN, RS-485 | answer after the time-out | codes are kept; answers are of the drive asked |
| EtherNet/IP `ethernet_ip.c` | sockets, I/O thread, flags | connect, request, disconnect | PLC | join against the loop | the thread has its socket |
| Protocol version `proto_version.c` | state of both ends | negotiate, three frames | UART | lost and late frames | the newest version both know |
| Logging `logging/*.c` | files, ring, fault context, task table | log, rotate, dump, analyse, profile | all | write errors, new fault in an analysis | files bounded; dumps are the newest part |
| HSEM, transport selection, UART | semaphore ownership, table of functions | take, release, select | all | | seen through `SafetyWd`, `MCIpc` and `Qos` |
| Cloud selector, BLE mesh, CANopen, EtherCAT, anti-brick | | | | | not modelled, see [below](#what-is-not-modelled) |
| FOC, SLAM, planners, estimators, calibration, diagnostics, hardware set-up, factory tests | numbers, registers | | | | out of reach or without control state |

`PROJECT.json` lists every component with its files, and 40 hazards with the line
at which each bites and the properties that would notice.

## Modules and code

| Module | Code | State and actions |
|---|---|---|
| `SafetyWd` | `safety_wd.c`, `main_m4.c`, `main_m7.c` | the statics of `safety_wd.c` under their names; `boot` is how far `main()` has come; one action per boot step, `Safety_Monitor` (one 10 ms poll), `WWDG_IRQHandler`, `Wwdg_Reset` (of the M4 or of the chip), `Hang`, the M7's `vIpcBridgeTask`, its death and return. `lag` is history: polls since the M7 last looped |
| `SafetyStandby` | `lpwr_stop2.c`, as it touches SRAM3 | extends `SafetyWd` with the standby command that the M4 writes at offset 60 |
| `Qos` | `qos_retransmit.c` | two endpoints, a line of frames per direction; `qos_send`, `qos_recv` with a branch per frame kind, `qos_poll`, `qos_init`, `qos_shutdown`, time, loss, a peer's request for an ACK; `setup` holds the capacity of the line and the bounds |
| `ReliableFifo` | | abstract: messages accepted are delivered in order, once, without a gap |
| `AbPartition` | `ab_partition.c` | the metadata record and its file; a write can fail or be torn; `Crc` covers its own field as in the code |
| `OtaManager` | `ota_manager.c` | a pipeline of callers; `Claim`, one action per step, `ota_rollback` in two, `Reboot` at any point, `ota_init`. Images are whole, torn or mixed; digest and signature checks are outcomes. The flag is durable after the `sync` of `ota_reboot`, before that either value may be `kept` |
| `OtaImage` | `resume_transfer.c`, `diff_upgrade.c` | bitmap, count and attempts in memory and on file; a save may fail to open the file, and the old record stays, or it truncates and writes, and a crash may come in between; the rounds of the suffix sort with the limit of their counters, longest match and both loops of the difference, one step per control entry |
| `M7Boot` | `l1_m7/Core/bootloader` | the flash as ten pages of 64 KB; one action per sector erased and page copied |
| `RkBoot` | `rk_boot.c` | three variables, each read as the text `key=value` by a tool or as a value in the flash, both of which may fail; U-Boot is external |
| `BmsProtect` | `bms/bms_protect.c` | one action per section of `PROT_Task`, the comparator interrupt between any two, a wrapping tick; `mixed` chooses whether several faults come together |
| `BmsCharge`, `BmsPrecharge`, `BmsDischarge`, `BmsBalance`, `BmsUpgrade` | `bms/*.c` of that name | one action per public function; calls up to `MaxGap` late; flash writes can be torn, transfers fail |
| `CommandLink` | | abstract: commands of L2 are applied in order, each at most once, some may be lost |
| `IpcSpi` | `ipc_spi.c`, `ipc_bridge.c`, `ipc_spi_linux.cpp` | `pc` walks `IPC_Bridge_Run`; the DMA callbacks and the master come in between |
| `IpcUsb` | `ipc_usb.c`, `ipc_bridge.c`, `ipc_usb_linux.cpp` | the same; in a harsh set-up resets come inside `usb_send` and `usb_recv` too |
| `DockStandby` | `dock_handshake.c`, `lpwr_stop2.c`, `main_m4.c` | `Dock_Run` as one step of `vDockTask`, standby entry in steps; `vBmsTask` as the writer of the bytes Dock_Run reads |
| `PackCharge` | `Core/bms_charge.c`, `bms_smbus.c`, `main_m4.c` | `ChargeFSM` on values of which any subset failed to be read (and is 0 then), a wrapping clock |
| `SafetySensors` | `safety_collision.c`, `_tilt.c`, `_stall.c`, `_drop.c` | a step is one update, `dt` after the last one; readings are bands between thresholds, and the current of a motor may jump or stay high |
| `SafetyChecks` | `safety_redundant.c`, `safety_fault.c` | `RED_Update` with its decision matrix; arm, inject, verify and clear of the injectors |
| `Motors` | `side_brush.c`, `roller_brush.c`, `vacuum_fan.c`, `multi_motor.c` | a step is one call of a motor's task or of a setter |
| `Reconnect` | `reconnect.c` | `recon_poll`, the ACK and SYNC handlers, a millisecond clock that wraps; the peer may fall silent and answer late |
| `FramePriority` | `frame_priority.c` | three queues as their lengths, the check time of LOW on a clock that wraps; enqueue, dequeue, flush |
| `Wireless` | `wifi_roam.c`, `lte_backup.c` | both loops; access points, D-Bus and modem are external and fail |
| `CloudClient` | `aws_iot.c`, `aliyun_iot.c` | caller, subscriber, `rx_loop` and `reconnect_task`, in the critical sections of the code; the subscriber that reads its SUBACK from the stream of `rx_loop`; the lengths of CONNECT and of the packets read |
| `CloudServices` | `telemetry_batch.c`, `device_shadow.c` | batches, spill files, replays (also two at once, and with the network lost in the middle); report in its two critical sections |
| `PeerProtocols` | `tuya_iot.c`, `proto_version.c` | frames in two pieces, the parser, heartbeats, data points; both ends of a negotiation, lost, late and refused frames |
| `FieldBus` | `uds.c`, `modbus_rtu.c`, `ethernet_ip.c` | diagnostic services and codes; a transaction with its tries; connect, requests, the I/O thread, disconnect with its join |
| `Logging` | `event_logger.c`, `trace_buffer.c`, `crash_dump.c`, `perf_profiler.c` | rotation over the entries it sees, failing opens and writes, ring, analysis and clearing of a crash, run times |
| `*_proofs` | | theorems, see [below](#what-is-proved) |
| `MCQos`, `MCOta`, `MCBms`, `MCIpc`, `MCTasks`, `MCNet`, `MCDevices` | | benches, see [below](#what-the-runs-check) |

Names follow the source.  A variable that exists only to state a property is
commented as history and never guards an action of the code.

**Composition.** `SafetyStandby` composes the watchdog with the standby command;
`DockStandby` the dock with the battery task that writes what it reads; `IpcSpi` and
`IpcUsb` compose the bridge, a transport and the master; `Wireless` composes the Wi-Fi thread with the LTE thread that reads its
RSSI.  Components that share no state are checked next to each other in a bench.

**Data.** Voltages, temperatures and currents take the few values that fall on
either side of each threshold; images are whole or damaged; a payload is a number.
Times keep their order and their coincidences but are scaled down (the constants of
each instance), counters keep their width where it matters: the 8-bit miss counter
(256 values), the sequence numbers (scaled to 8 values, compared by signed
difference as in the code), the 8-bit duty counter (scaled below its limit, as 256 is
below 600), ticks modulo a small number.

**Undefined behaviour.** `encode_frame` writes its CRC at another offset than
`decode_frame` reads it from (`qos_retransmit.c:187`), and `proto_version.c` compares a
checksum it never sent for a short frame: acceptance depends on bytes that nobody
wrote, so the models let any such frame be rejected.  The clock of TIM1 may be off when
`Safety_Failsafe` writes `BDTR.BK` during boot: the bit is set or not.

**Mutants.** Operators `X_m...` next to a definition are plausible mistakes in that
code; each property of a passing run is violated by at least one.

## What the runs check

A bench instantiates several modules that do not call one another and a variable
`setup`, chosen at the start, says which of them is active; the others rest.  One run
thus asks one family of questions about several components, or about one component
under several bounds, without multiplying their state spaces.  The properties of a
bench are conjunctions of the named properties of its modules, which each module
states next to the code behaviour it is about.

### Passing runs

**SafetyWd** (`SafetyWd`), `MissLimit` 5 and `CntMod` 256 as in the code.  `WdgPolls`
is 12, not 28, which only shortens the wait before a reset; the theorems cover every
period that fits.  `LagCap` 8 is above the limits the properties name.  The run gives
the M4 the heartbeat it expects (`M7Counts`; the code does not provide it, see
`SafetyWd_life`).  Shown: detection after at most 7 silent polls (`DetectionLatency`),
no false kill (`KilledOnlyIfSilent`), verdict and outputs agree (`VerdictAndOutputs`),
power returns only on a sign of life (`RestoredOnlyOnLife`), no wrap of the counter
(`CounterNeverWraps`); a dead M7 is cut again after every watchdog reset
(`DeadM7IsKilled`) and a hang in a fail-safe state ends in a reset
(`FailsafeHangResets`).

**Qos** (`MCQos`).

| Set-up | Bounds | Properties |
|---|---|---|
| *lossy* | 4 sends, 2 losses, window 2, 1 retry, 8 numbers | `WindowIsSound` (the window holds what is not acknowledged; an ACK means delivery), `ImplementsFifo` (refinement of `ReliableFifo`) |
| *wrap* | 10 sends, so that the numbers wrap; behaviours in which a frame was given up are cut by `NothingGivenUp` | the same |
| *faulty* | one restart, one failing malloc, a polling peer, 1 loss; 2 sends on a line of one frame | the window accounting of `WindowIsSound` |

`Flushes` (liveness) is about all three, in *wrap* about the behaviours that are not cut.  The
proofs need none of the bounds: they hold for
every set-up of `Surroundings` that the assumption allows.

Window 2 is the least in which ACKs are cumulative and frames arrive out of order; 8
numbers are four windows, and the signed comparison needs two.

**Ota** (`MCOta`).

| Set-up | Bounds | Properties |
|---|---|---|
| *pipeline* | three updates, three reboots, two targets: enough for an update, a rollback and another update | `FlashedWasVerified`, `RunningSlotUntouched` and `NextBootIsWhole` in `ImagesHold`: until a rollback the running slot is not written, and the next boot is whole at every point |
| *metadata* | limit of 2 failures, one boot and one restart | `CountsActiveSlot` in `RecordsHold` |
| *download* | 2 or 3 blocks, 2 attempts, one change of the offered image, 2 saves that cannot open the record | `ReceivedIsStored`, `CompleteIsNothingMissing` in `RecordsHold`; `AttemptsBounded`: the starts with one record exceed the limit by no more than those saves |
| *boot* | 3 stagings; erase, copy and power may fail | `EraseNeedsProof` in `ImagesHold`; `AttemptedOnce` in `AttemptsBounded` |
| *gauge* | 2 blocks, time-out 2, 2 retries, calls one tick late | `SuccessIsWhole` in `ImagesHold`; `BusyTimeBounded` in `AttemptsBounded` |
| *diff* | every pair of images up to 4 bytes of 2 values, shortest match 2; 2 counters above the middle for 32768, so that longer images overrun them | `OverrunsOnlyLarge`, `SuffixesAreSorted`, `OwnPatchApplies` in `PatchesApply` |
| *env* | 1 attempt, 2 upgrades, 4 boots; reads by tool or flash | `ConfirmedStays` in `RecordsHold`: confirmed means that both writes succeeded |

**Bms** (`MCBms`).

| Set-up | Bounds | Properties |
|---|---|---|
| *protect* | one fault at a time, values on every threshold | `OpenWhileTripped` in `FetsSafe`; `Recovery` closes the FETs again |
| *overcurrent* | every range of current, interrupts anywhere, several faults, tick modulo 6 with a limit of 2 so that the timer starts on every tick, also 0 | `OcOnlyAfterPersisting`, `OcTripsInTime` in `LimitsInTime`, `Recovery` of the flags |
| *charge* | stage limits 1, 4 and 2, calls one tick late | `ChargeTimeBounded` in `LimitsInTime` |
| *precharge* | the 3 attempts of the code; limits 2 and 10 in the ratio of its 100 and 500 ms | `ClosedOntoChargedLoad`, `ResistorOnlyWhileActive` in `FetsSafe`; `PrechargeEnds` in `Recovery` |
| *discharge* | capacities 20 and 22, so that the percentage moves without current; one power loss | `FlatIsNoticed` with the record on flash |
| *balance* | 3 cells, current for one resistor, duty counter modulo 3 against a limit of 7 | `Balances`: only high cells are bled, and of those as many as may be |

**Ipc** (`MCIpc`).  `SpiCalm` (4 commands), `SpiHarsh` (2, and one refused or failed
transfer), `UsbCalm` (4 commands, 2 resets or unpluggings between functions), `UsbHarsh`
(2, and one reset inside a function or change of the configuration).
Both rings have the 4 slots of the code and hold 3 commands, so that the fourth can meet
a full one.  `BuffersHold`: a buffer in the hands of the hardware is not written, and a
report is the latest; `InOrder` is the refinement of `CommandLink` (in the calm set-ups);
`LinkRecovers`: reports keep arriving, and in `UsbHarsh` commands are at least taken out.

**Tasks** (`MCTasks`).

| Set-up | Bounds | Properties |
|---|---|---|
| *bms* | every course of battery values and failed reads, clock wrapping at 10 | `OverVoltageStops`, `ChargeTimeBounded` in `ChargeIsSafe`; `FaultLeftInWindow` |
| *dock* | rail at 0, 10 and 19 V, averages over 2 samples, limits 3, 1, 5, 9, 11 in the order of the code | `OffWhileAligning`, `RailLossStopsCharger` in `ChargeIsSafe`; `StandbyReached` |
| *collision*, *tilt*, *stall*, *drop* | angles on every threshold; two wheels, one of them with a soft stall; two sensors | `SensorsAnswer`: a bumper and a tilt are answered in time whatever went before, the answer to a collision ends, and a motor blocked for longer than a hard stall takes is answered when its current jumps again (not before, [see below](#statements-that-the-models-contradict-outside-the-runs)) |

**Net** (`MCNet`).

| Set-up | Bounds | Properties |
|---|---|---|
| *link* | back-off 1 and 2, ACK time 1, synchronisation time 2, a clock of 3 values | `ConnectedMeansHeard` in `SessionsHold`, over the wrap; `LinkComesBack` in `ComesBack` |
| *queues* | length 2, guard 2, calls one tick late, a clock of 8 values that wraps | `SlotsInTime` in `SessionsHold`, until the clock comes near its wrap |
| *radio* | 2 access points at -100 or -60 dBm, failing readings and commands | `RoamsAfterWeakPhase`, `BackupFollowsWifi` in `ComesBack` |
| *cloud* | 2 topics, one loss, packets of 2, 5000 and 16383 bytes | `ConnectedIsRead`, `ReconnectRestores`, `StaysInStep` in `SessionsHold`, the last until a packet comes to the subscriber; `FirstIsRetried` in `ComesBack` |
| *telemetry* | batches of 3 or 4, 16 units of spill in files of 8, 3 batches, one replay at a time; the network may go in the middle of it | `ReplayedInOrder` in `SessionsHold`: what is uploaded from the files comes in order and once, until two replays run at once or a restart comes between the reading and the removal of a file |
| *shadow* | 2 updates, 2 commands | `CloudCatchesUp` in `ComesBack` |

**Devices** (`MCDevices`).

| Set-ups | Bounds | Properties |
|---|---|---|
| *side*, *roller*, *fan*, *coordinator* | currents on either side of each limit, switched off and on at any time, a block that begins at tick 0; 2 motors and a budget of 2, which is less than both want | `StallStopsBrush`, `FanInRange`, `AllocationHolds` in `MotorsAndChecks` |
| *redundancy*, *injection* | 3 pairs, debounce times 2, 3 and 2; 3 injectors | `VerdictsNeedTriggers` in `MotorsAndChecks` |
| *events*, *trace*, *dump*, *times* | 2 files of 2 entries and 6 openings, a rotation that sees 4 entries, failing opens and writes; ring of 3 and 7 entries; 3 crashes; 3 tasks for a table of 2 | `LogsHold` |
| *uds*, *modbus* | 3 codes for 2 slots; 2 drives, 2 retries, 2 transactions | `FaultsAreKept`, `AnswerOfTheDrive` in `EndsAgree` |
| *plc*, *tuya*, *versions* | 2 requests; 2 frames; 2 versions, 1 retry | `ThreadHasSocket`, `AnswersMatch`, `CommandsInOrder`, `NewestInCommon` in `EndsAgree` |

Each bench also checks its type invariant.  Every bound is large enough for the case
its property is about (a wrap, a full ring or table, a second fault, a restart in the
middle); that is what the mutants show, each of which needs that case to be noticed.

### Runs that end in a violation

Each states what a comment or document of the repository says; TLC finds the behaviour
of the code that breaks it.

| Run | Property | What the code does |
|---|---|---|
| `SafetyWd_life` | `LivingM7NotDeclaredDead` | nothing takes HSEM 0 or counts the heartbeat: a living M7 is killed after six polls |
| `Standby_life` | `RestoredOnlyOnLife` | the standby command overwrites the heartbeat: a dead M7 gets its power back |
| `Ab_restart` | `FailoverAtLimit` | the checksum covers itself, no saved file loads: failures before a restart are forgotten |
| `Prot_ov` | `OvOpensCharge` | the recovery of one fault closes the FET another one needs open |

`CHECK_DEADLOCK FALSE` stands where a bound on messages, faults or restarts ends the
behaviours; the passing run of the watchdog has no such bound and is checked for deadlock.

### Statements that the models contradict, outside the runs

The modules state these too, and TLC finds each violated when it is given to the set-up
as an invariant or a property, with the constants of the run of its bench unless the
row names others.  The runs above keep to one statement per processor or part; what a
passing property keeps of one of these, it says in its comment.

| Module | Statement | What the code does |
|---|---|---|
| `OtaManager` | `FlashedWasVerified` with two members of `Caller`: `ota_manager.c:436` "write verified firmware to target partition" | every step leaves IDLE behind (393), so that one thread may download another image between the verification and the flashing of the other |
| `OtaImage` | `EveryImageSorts`: `diff_upgrade.c:5-6` speaks of images of 4 MB | `build_sa` counts ranks in `cnt[rank + 32768]` with 65536 counters (107): more different ranks than 32768 go behind the end |
| `RkBoot` | `SwitchesSlot`: `rk_boot.c:383` "Switch to the alternate boot slot. @return 0 on success" | `fw_printenv` without `-n` (188) answers `key=value`; the "b" of the key is taken for the slot (282), and every switch selects slot a |
| `M7Boot` | `VerifiedIsCopied`, also with `CanFail` FALSE: `boot_main.c:15` "If verification passes, copy staging -> app flash" | the staging area begins 64 KB behind the start of the application, inside the region the application may fill: the erase (192) takes the staged image with it before it is copied |
| `SafetySensors` | `BlockedIsAnswered`: `safety_stall.c:10-11` "HARD STALL (blocked) - high current ... Recovery: immediate stop" | the time is only looked at in a sample that jumps by more than 3 A (130-139): a motor that blocks jumps once, stays high and is not confirmed |
| `SafetySensors` | `CliffIsDetected`: `safety_drop.c:13` "50 ms debounce on cliff detection" | a change is taken back while it is young (192-195), and the next update dates it anew (180, 187): it never grows old |
| `FramePriority` | `LowGetsSlots`: `frame_priority.c:10-11` "at least one transmission every 500ms" | `now >= starve_check_ms` (280) compares wrapping milliseconds: across the wrap LOW is forced in every call, or waits until the clock is there again, as long as the queues do not run empty |
| `CloudClient` | `AtPacketStart`: `aws_iot.c:421` "parse one inbound packet" | the subscriber reads five bytes for its SUBACK from the connection of the reader (396-398; `aliyun_iot.c:381`): when a PUBLISH comes first, the reader goes on in the middle of it |
| `CloudServices` | `InChronologicalOrder` with `MaxReplays` 2: `telemetry_batch.c:8` "Replay on reconnect in chronological order" | the replay runs without the lock (401): a network that goes and comes back starts a second one of the same files |
| `CloudServices` | `LeavesWhenUploaded`: `telemetry_batch.c:7-8` "spill to eMMC", "Replay on reconnect" | what is read after the network is gone is not uploaded (369), and the file is removed all the same (378), also one that is open for spilling |
| `Motors` | `StallNeedsTime`: `roller_brush.c:177` "high current + low speed for > 500 ms" | neither a stop (94-101) nor an update of a stopped roller clears the start: after a stop the first blocked sample is a stall |
| `Motors` | `FullIsDebounced`: `vacuum_fan.c:202-204` "for > debounce period, declare bin full" | `FAN_SetEnabled` (122-136) leaves `dust_full_start_ms`: after a stop the first high sample finds the debounce over |
| `Logging` | `NewestAreKept`: `event_logger.c:127` "keep only the newest EVENTS_MAX_FILES" | `rotate_logs` looks at 256 entries in the order of the directory (142): of more files it may delete a newer one than it leaves |
| `Logging` | `SuccessIsLogged`: `crash_dump.c:361-366` "writes a structured log entry ... @return 0 on success" | the results of `fprintf` and `fclose` (418-434) are ignored: on a full disk the context is cleared (437) with nothing written |
| `Logging` | `ConsumedIsRead`: `crash_dump.c:148` "Clear the crash context (mark as consumed)" | a context that is written between the reading and the clearing is cleared unread (437) |
| `OtaManager` | `WritesInactive`: `ota_manager.c:464` "Write to inactive partition" | with the flag unconfirmed after a rollback (line 468) the running slot is written |
| `IpcUsb` | `InOrder` with resets inside a function (`docs/specs/ipc_spec.md:122`) | a bus reset inside `usb_recv` puts the tail past the head (`ipc_usb.c:325`): old commands are applied again |
| `SafetyChecks` | `DisagreementStops`: `safety_redundant.c:16` "If all 3 disagree, enter SAFE STOP mode" | the start of a disagreement is taken anew on every call, since the debounce clears the flag it looks at (125-135) |
| `CloudClient` | `LossIsRepaired`: `aws_iot.c:483` "RX error, triggering reconnect" | `rx_loop` sets RECONNECTING, but no thread is left that would reconnect |
| `CloudClient` | `ConnectIsShort`: `aliyun_iot.c:290` "remaining length placeholder (<128)" | with names of 14 characters the packet is longer, and its length byte means something else |
| `PeerProtocols` | `DamageIsNoticed`: `tuya_iot.c:61` "Checksum (XOR of all bytes after header)" | the last byte of the payload is left out at both ends (253, 400) |
| `FieldBus` | `OutputIsThePlcs`: `ethernet_ip.c:128` "PLC -> robot" | the I/O data are sent to the adapter's own port on any address and may come back as output |
| `OtaImage` | `Reconstructs`: `diff_upgrade.c:5-6` "applies patch to reconstruct new firmware" | the patches of some pairs of images yield another image of the right size (the self-test at `diff_upgrade.c:497` compares one pair) |

## Fairness

| Run | Assumed | Why |
|---|---|---|
| SafetyWd | weak on boot steps and the M7 loop; strong on the poll and on the watchdog hardware | the poll is the task of the highest priority, but its step is disabled while the interrupt is pending; the counter is hardware. The M7 loop is only promised while it is alive |
| Qos | weak on time, `qos_poll` and `qos_recv` of each end | the caller's loop; no fairness for the line: every frame may be lost within the bound |
| Bms | weak on the periodic call and on time | scheduler; callers are at most `MaxGap` late |
| Ipc | weak on the bridge loop, interrupts and the master; strong on enumeration | 100 Hz task, hardware, a master that polls for ever; plugging is only possible now and then |
| Tasks, *dock* | weak on `vDockTask` | scheduler, and a timer ends its sleep |
| Net, *link* | weak on `recon_poll` and time; strong on the attempt that leads to SYNCING and on an answered SYNC | the caller's loop; of endlessly many attempts to a peer that is there, some are answered. Nothing forbids the peer to fall silent again |
| Net, *radio* | weak on `roam_loop`, `lte_monitor_loop` and time; strong on a successful activation | two threads; a modem that is asked again and again comes up once |
| Net, *cloud* | weak on `reconnect_task`; strong on an attempt the broker accepts | a thread; a broker that can be reached now and then |
| Net, *shadow* | weak on the report thread and on each report once begun; strong on a publication that succeeds | threads that get the lock; a network that is up now and then |

Nothing is assumed of lost frames, faults, restarts, hangs or unplugging: none of these
has to happen, and each may at any point within its bound.

## What is proved

`SafetyWd_proofs` proves, for every value of the constants that the two assumptions of
`SafetyWd` allow (`SafetyWdAssumption`: limit and watchdog period fit the counter
together; `SwitchAssumption`: the four switches are Boolean):

| Theorem | States | Needs |
|---|---|---|
| `TypeCorrect` | `Spec => []TypeOK` | |
| `WatchdogInvariant` | `Spec => []WdInv` | |
| `NoWrap` | `Spec => []CounterNeverWraps` | `WdInv` |
| `VerdictHolds` | `Spec => []VerdictAndOutputs` | `WdInv` |
| `Detection` | `Spec => []DetectionLatency` | `LagInv`, the M7 counts and does not take HSEM 0 |
| `NoFalseKill` | `Spec => []KilledOnlyIfSilent` | the same |
| `RestoreNeedsLife` | `Spec => RestoredOnlyOnLife` | the same |

**The argument.** That the miss counter does not wrap is not inductive: nothing in
`Safety_Monitor` stops it.  What stops it is elsewhere: when the M7 is declared dead,
the state becomes FS_SPIN_HOME and the early wake is switched off, so the window
watchdog is not refreshed any more, and the polls left to its reset bound the misses
still to come.  `CountInv` says just that: while the verdict holds,
`m7_alive_cnt + wdg <= MissLimit + 1 + WdgPolls`, a sum a poll does not increase.  It needs
`VerdictInv` (a dead verdict means the early wake is off) and `BootInv` (a boot starts
with a counter of 0).  Together with the types they are `WdInv`.

Latency and false kills relate the counter to the true silence of the M7, `lag`.
`LagInv` says that a heartbeat not yet seen means `lag = 0`, that the counter never
exceeds the silence, that without a verdict the silence is at most one more than the
counter, and that a verdict is only held while the counter is over the limit.  It is
preserved because the counter does not wrap, so it rests on `WdInv`.

The hypothesis that the M7 counts its heartbeat is what `safety_wd.c` expects; the
M7 code in this repository does not do it (run `SafetyWd_life`).

**The reliable layer.** `Qos_proofs` proves, for every window, every even count of
sequence numbers of at least four windows, every limit of retries, every set of senders and
every set of surroundings that `QosAssumption` allows (any line, any number of losses,
restarts, failed allocations, a peer that polls; only where something of the last three
happens, the numbers must not come round):

| Theorem | States | Rests on |
|---|---|---|
| `QosTyped` | `Spec => []TypeOK` | `Typed` |
| `QosSound` | `Spec => [](NothingGivenUp => WindowIsSound)` | `Typed`, `Counted`, `Numbered`, `Calm` |
| `QosImplementsFifo` | `Spec /\ []NothingGivenUp => ImplementsFifo` | the same, and `FifoStep` of every action |

The accounting of the window is nearly inductive: every operation frees some slots, counts
them and leaves the others (`Frees`), a send adds one.  Truthful acknowledgements and order
are not, for the code compares numbers by the sign of their difference, which says nothing
of numbers half of `SeqCount` apart.  So the invariant says how far apart those can be that
the code compares.  `Direction(n)` follows the data of one end and the ACKs of its peer:
accepted payloads are counted, and a slot, a data frame and an ACK carry the number of a
payload (the payload an ACK is for is a witness of the invariant, since the frame does not
have it); what was handed over is a beginning of what was accepted; everything freed by an
ACK was handed over.  While no frame was given up, the window holds just the payloads behind
its base, and *no frame on the line is a window or more behind what was handed over, nor
behind a frame in front of it* (`DataSlides`, `AckSlides`): a late duplicate cannot be taken
for a new frame, nor a late ACK for a newer one, because the line keeps its order.  With
four windows to the turn all differences that occur are then less than half of it.

Once a frame is given up (after its retries) the base moves on without the receiver, which
waits for the lost number for ever; the sender may run any distance ahead, and when the
numbers come round a new frame passes for the one awaited.  That is why both theorems have
`NothingGivenUp` as a hypothesis, which only constrains calm set-ups with more than half a
turn of sends (`Wraps`); in every other set-up it is true, given-up frames or not.

**The benches.** `Ota_proofs`, `Bms_proofs`, `Tasks_proofs`, `Net_proofs`, `Ipc_proofs` and
`Devices_proofs` prove what the runs of that name check, for every value of the constants of the bench that
its `SetupAssumption` allows, which is the conjunction of the assumptions of its
components.  Each component has an inductive invariant of its own, three lemmas say
that it holds at the start, is kept by every step and implies the properties, and at
the end of the module a step of the bench is shown to be a step of one component and a
stutter of the others.

| Theorem | States | Rests on |
|---|---|---|
| `Ota_proofs`: `UpdatesTyped` | `Spec => []TypeOK` | the invariants of the six components |
| `ImagesAlwaysHold` | `Spec => []ImagesHold` | `OtaInv`, `SlotsInv`, `BootInv`, `GaugeInv` |
| `RecordsAlwaysHold` | `Spec => []RecordsHold` | `AbInv`, `ResumeInv`, `RkInv` |
| `PatchesAlwaysApply` | `Spec => []PatchesApply` | `DiffInv`, `SuffixesSorted` |
| `AttemptsAreBounded` | `Spec => AttemptsBounded` | `ResumeInv`, `BootInv`, `GaugeInv` |
| `Bms_proofs`: `PackTyped` | `Spec => []TypeOK` | the invariants of the five components |
| `FetsStaySafe` | `Spec => []FetsSafe` | `ProtectInv`, `PrechargeInv` |
| `LimitsHold` | `Spec => []LimitsInTime` | `ProtectInv`, `ChargeInv` |
| `FlatAlwaysNoticed` | `Spec => []FlatIsNoticed` | `DischargeInv` |
| `AlwaysBalances` | `Spec => []Balances` | `BalanceInv` |
| `TripsOnlyWhenDue` | `Spec => OcOnlyAfterPersisting` | `ProtectInv` |
| `Tasks_proofs`: `TasksTyped` | `BenchSpec => []TasksTypeOK` | all of the below |
| `ChargeStaysSafe` | `BenchSpec => []ChargeIsSafe` | `PackInv`, `DockInv` |
| `SensorsAlwaysAnswer` | `BenchSpec => []SensorsAnswer` | `CollInv`, `TiltInv`, `StallInv` |
| `FaultLeftOnlyInWindow` | `BenchSpec => FaultLeftInWindow` | one run of `ChargeFSM` |
| `Net_proofs`: `NetTyped` | `Spec => []TypeOK` | all of the below |
| `SessionsAlwaysHold` | `Spec => []SessionsHold` | `LinkInv`, `SlotsInv`, `ClientInv`, `SpillInv` |
| `RoamsOnlyWhenWeak` | the action part of `ComesBack` | `RoamInv` |
| `Ipc_proofs`: `IpcTyped` | `Spec => []TypeOK` | `SpiInv`, `UsbInv` |
| `BuffersAlwaysHold` | `Spec => BuffersHold` | `SpiInv`, `UsbInv` |
| `TransportsImplementLink` | `Spec => InOrder` (both implement `CommandLink`) | `SpiInv`, `UsbInv` |
| `Devices_proofs`: `DevicesTyped` | `Spec => []TypeOK` | the invariants of the fifteen set-ups |
| `MotorsAndChecksHold` | `Spec => []MotorsAndChecks` | `SideInv`, `RollerInv`, `FanInv`, `CoordInv`, `FaultInv` |
| `LogsAlwaysHold` | `Spec => []LogsHold` | `FilesInv`, `TraceInv`, `CrashInv`, `PerfInv` |
| `EndsAlwaysAgree` | `Spec => []EndsAgree` | `UdsInv`, `ModbusInv`, `EipInv`, `TuyaInv`, `ProtoInv` |

*Pipeline.* That only verified images are flashed is no property of one step: between
`ota_verify` and `ota_flash` the state is free again.  `OtaInv` ties what is staged to
the place where the caller is, and `SlotsInv` adds that until a rollback the system runs
from the slot a boot would take, that this slot is whole, and that the flag is only
turned once the other one is.  Both need a single caller of `ota_run_pipeline`, which
is what `SetupAssumption` says of the set `Caller`; nothing in the repository calls it
twice, and with two callers TLC finds an unverified image flashed
([see above](#statements-that-the-models-contradict-outside-the-runs)).  What `ota_reboot`
has not synced yet may be lost: a power loss may leave the flag of before (`kept`), and
`SlotsInv` says that this one names a whole slot too.

*Slot metadata.* `CountsActiveSlot` compares the count with the failures seen by this
process, so it needs that nothing older comes back from the file.  `FileInv` says so:
no file is one `ab_meta_load` accepts, because the checksum `ab_meta_save` stores covers
the field it is stored in.  (That is also why the slot is not switched over restarts,
run `Ab_restart`.)

*Download.* `ResumeInv` says for the context and for the record on file alike that the
count is that of the bitmap and that the blocks named are stored, as long as the
firmware is still the one offered; a record cut short by a crash is none.  It uses that
the size of a context never changes while it runs.  A save that cannot open the file
leaves the record of before with its older count, so the number of starts is not bounded
by the limit alone: `unsaved` counts those saves, and `Begun` says of the context and of
the record alike that the starts are at most its count and those.

*Boot loader.* The first sector that is erased contains the copy of its own source:
from then on neither the loader nor an application can be whole again (`Ruined`), and
as long as nothing was erased both are (`Intact`).  So the only way to an erase is a
verification, in a boot that has not tried one before.

*Gauge.* `Taken` says that the blocks the gauge has matched are those sent, `Order` which
phases may have which blocks, and `Timed` bounds each half of the upgrade by the time-out
and one late call.

*Difference.* `build_sa` sorts by doubling, and only its last round gives an order.  What
every round keeps (`RankOK` in `RoundsRank`) is that the ranks order the suffixes by their
first `k` symbols, where a place behind the end counts as a symbol below every byte; a
round then orders by `2 * k`, because a new rank counts the different pairs below
(`Reranked`).  The loop ends when `k` covers the image or all ranks differ; either way no
two suffixes have the same rank (`LastRanks`), so that the order by rank is the order of
the suffixes (`SuffixesSorted`).  The ranks index 65536 counters from 32768 on; an image
whose ranks go further ends in the stage "overrun" of the model, since the code does not
test its size.  The theorem has no assumption on the size: it says that an overrun takes
more bytes than there are counters, which holds because the ranks of an image of `n` bytes
are less than `n`, and those of the first round, the bytes, all have counters.  For the
patch, `DiffInv` has as its witness where each entry ends in the new image (`EntryEnds`):
one behind the other up to the place scanned, and the copy made so far ends with the last
entry applied.  So no entry is missing before the announced size is reached and none is
left over.  Of an unchanged image the longest match at 0 is the whole (`MatchFits`), and it
is the only entry.

*Boot environment.* Two writes confirm a slot; `RkInv` says that the power is on between
them and nothing is confirmed yet, so that a cut there leaves a slot still on trial.
Confirmed means that both writes succeeded.  What a reader makes of the text `key=value`
does not disturb this: it decides which slot is selected and whether an upgrade is
noticed, not what the mark writes.

*Charge.* Nothing in the state bounds the age of a charge; the clock does, stage by
stage: the clock of a stage is at most its limit and the wait since the last call, and
the charge is at most that clock older than all that the earlier stages may have taken.
A clock below its cap counts truly, so the caps of the model do not help the bound.
The same argument holds for the stages of `ChargeFSM`, with one wait more once tick 0 is
over, because a stage that began at tick 0 is started again by the next call; it needs a
charge shorter than a turn of the clock, which `PackAssumption` states.

*Precharge.* The main FET is closed in a state reached only after the load was seen
charged, and the resistor path is closed only in the active phase, whose every exit
opens it; the retries are below their limit there.

*Discharge.* `FlatIsNoticed` is inductive with the types: a sample decides the warning
afresh from the charge it has just computed, and the threshold that ends the warning is
wider than the one that begins it.  `CriticalIsOnFlash` is not: a restored record or the
precharge of a starting robot could change the charge or close the FET under a stop.
`StopInv` adds that a stop only exists after a sample, when neither can come any more.

*Balance.* The selection takes the highest cells one after another; that all or as
many as allowed are taken needs that the least cell exists (finite sets of numbers) and
that a duty counter below its width never reaches the limit it is compared with.

*Protection.* A FET stays open under a trip because no section closes it while its own
flag stands; that another section may is the bug of run `Prot_ov`, and with one fault
at a time (`OneFault`) it cannot, which needs the order of the thresholds
(`ProtAssumption`): a flag only stands while its own condition lasts within the
hysteresis.  For the overcurrent, `OcTimerInv` says that the timer never shows more
than the time the current has really lasted.  A tick adds at most one to what a timer
shows, also over a wrap (lemma `TimeAdvances`), and exactly one to the truth; the start
at tick 0, which reads as "not running", only makes the timer younger.  `TripInv` bounds
how much younger: as long as the timer does not run although the current is over the
limit, the tick is at most a wait past 0, and the current has lasted at most a wait more
than the tick shows; once it runs, both advance alike, because the timer trips before it
can wrap.  With a wait for the pass that samples and one for the pass that trips, that
makes four.  (Three are enough when passes are one tick apart, as in the run; two passes
within tick 0 lose the timer twice.)

*Battery task.* An over-voltage and the way out of FAULT need no more than one step of
`ChargeFSM`, on any readings: a voltage over its limit that was read ends in FAULT with
a target of 0, and FAULT has a single way out, whose test an unread temperature, which
is 0, fails.

*Dock.* `LowIsRecent` bounds how long the rail can have been low while the charger is
still on, state by state: in DOCKED by the age of that state, in CHARGING by that age
and what DOCKED may have lasted; `LOST_TIMEOUT` then ends CHARGING.

*Detectors.* Each has a start time that several conditions write.  The invariants say
that the true time a hazard has lasted is at most the time the detector counts (`held`
and `over` against its own ages), so that it answers no later than its limit, and that a
response to a collision is at most the sum of the phases gone through and the age of the
present one.  Of a stalled motor no such bound holds, since only a jump of the current
makes the code look at the time: `stuck` counts how long a motor is blocked, in jumps or
with a steady high current, and `StallInv` says that the code's own age is at least that,
so that the next jump after the time of a hard stall is answered; `ignored` would record
one that is not.

*SPI and USB.* `Ipc_proofs` follows a command through its places: on the wire, in the
receive buffer until `spi_process` has looked at it (`Fresh`), in the ring of four slots,
applied.  `SpiOrder` says that they are filled in this order with rising numbers;
`SpiCount` that no place is counted twice, so that a command is given once at most, or once
more for every frame a DMA error has spoilt.  A step moves one command by one place or
forgets it (`SpiMoves`), and what a move does to the ring is a lemma of its own
(`Enqueued`, `Dequeued`).  That the buffer being sent stays untouched needs that an armed
DMA means a transport that is not ready, no flag set and no completion pending
(`SpiFlags`), and a transfer that found the DMA armed keeps it so.  For USB `UsbReports`
goes through `usb_send` step by step: at most one report is in the ring, the one packed
last.  Order and buffers are claimed of USB only if no reset comes inside a function; with
that, the code does not keep them (see [above](#statements-that-the-models-contradict-outside-the-runs)).

*Link.* The age that `last_ack_ms` shows is at most one poll less than the true silence:
an answer to a SYNC waits for the next poll, and only that poll ends the state.  While
connected, no poll finds that age over its limit and leaves the state as it is.  The ages
are differences of the millisecond clock and do not mind its wrap; `next_reconnect_ms` is
compared as a number, so that an attempt may come too early or a turn of the clock too
late (`In`), which the safety property does not depend on; `LinkComesBack` holds because
the clock comes round.

*Queues.* The guard of LOW is one timer for all its frames, set by a forced slot and by
an empty call.  `SlotsInv` bounds the wait of the oldest LOW frame by what the timer
has left: wait plus time left to the guard never exceed the guard, up to the lateness
of a call.  At most one frame goes before a waiting HIGH one because calls are less
than a guard apart: a second forced slot cannot follow before a call that takes HIGH.  All
this compares `now` with `starve_check_ms` as numbers and is claimed, as `~turned`, until
the clock comes within a guard of its wrap while a frame is queued; a call that finds the
queues empty sets the check time anew, and the claim begins again.

*Radio.* The roaming thread scans a sleep after the reading that found the signal weak
for the trigger time; `RoamPhases` relates the age of that reading, the truth and the
sleep that is left in each place of the loop, however late it ends.

*Cloud client.* `ClientInv` follows the threads: while the reconnection runs with the
connection up, the broker has every registered topic but those the loop is still to
come to and the one that is being registered at that moment; a client in state
CONNECTED has its reader, unless the connecting thread is at its step "start" or the
client is being stopped.  Each of the steps of caller, subscriber, reader and
reconnection keeps this, over every interleaving of them.  `StaysInStep` holds for
packets of less than 16 KiB, because the factor of the second digit fits 8 bits
(lemma `ReadsLength`) and that of the third does not; and until a packet comes to a
subscriber that waits for its SUBACK on the connection the reader reads (`mixed`), which
`WaitInv` says no thread does before the first connection has succeeded.

*Telemetry.* `SpillInv` numbers the batches: those in the files are in the order of the
files and of their places, those replayed come before all of them but those of a file
that has been read and is still to be removed, and none of them was uploaded live.  A file
that is appended to, read (to its end, or to where the network went away) or removed keeps
this, as long as one thread replays and no restart finds a file read and not removed
(`doubled`).

*Motors.* `side_stuck` and `roller_stuck` are the times a brush has been on and blocked;
a stop does not reset them, as it does not reset the code's own start.  `SideInv` and
`RollerInv` say that the age the code has is less than the truth by no more than the time
to the sample after a start at tick 0, which reads as none (and, for the roller, by the
free samples its release allows), so that the brush stops within its time and that.  A
free sample of the side brush ends the truth too: what the code makes of a brush that is
blocked now and then is not bounded (`side_brush.c:181` withdraws the start at any free
sample later than 200 ms), and no document promises it.  `FanInv` needs that the soft
start ends above 90 % of the default speed, which is above the least speed of the range
(an assumption on the constants, true of 18000 and 8000 rpm).  `CoordInv` bounds the
reference of every motor by its share of what `Left` still has and the sum of the shares
(`Drawn`) by what `Left` has lost, which began with the budget.

*Checks of the M4.* `FaultInv` counts: a verdict uses up one trigger, a trigger adds as
many as it fires, and the triggered injectors that wait for a verdict are counted too.

*Logs.* `FilesInv` bounds the files by those kept, the open one and one for each close
since the last rotation that saw every file (`extra`): by `event_logger_close`, by a failed
write, or with a rotation that could not read the directory or has no room for all of it.
`TraceInv` says for every slot of the ring which
event it holds, relative to the place of the next; a dump read from that place on, or
from slot 0, is then an interval of numbers.  `CrashInv` adds to `CrashReported` what
the analysis is about to clear: the context it has read, whose report was written or lost
in the writing (`unwritten`), or one that is missed already.
`PerfInv` says that the sum is the uptime; the sum is a fold in an order nobody knows,
and `SumGains` shows by induction over the sets of tasks that one more unit for one task
is one more in the sum.

*Field bus.* `UdsInv` has the two parts of `FaultsAreKept`.  `ModbusInv` says of every
answer on the line which request it is for, and that its drive is the one that was asked
then.  `EipSockets` relates the three connected parts of the adapter to the places of
the caller and the thread; `EipStream` says that what waits on the stream belongs to the
request made last, unless one was given up; an answer with another command or an error status
counts as taken.

*Tuya.* `WholeInOrder` is about the parser: of pieces in the order in which they were
sent it makes frames with rising numbers, each of which had its second piece there,
however the pieces are cut.  `TuyaFrames` puts the stages in order: what was applied
came before what is waiting, and that before what is on the wire.

*Versions.* `Honest` says what every frame on the way must be: a list is that of its
sender, an acknowledged version is the newest in common, a refusal means there is none.
`FindsNewest` shows that the first match of two falling lists is the newest.

**Recursive functions.** `Left`, the sum of the run times, `Whole` and the rounds of the
suffix sort are defined by recursion.  The library's induction theorems have an operator for a parameter, which
these provers cannot instantiate; `SetInduction` says the same of a set of numbers and
is proved from the well-founded order of the numbers.  With it the lemmas
`LeftDefined`, `SumDefined`, `UptoDefined` and `RoundsDefined` show that such a function exists, and the
lemmas after them what it is.

**Only model-checked.** Liveness, since fairness and ENABLED are beyond the prover:
`DeadM7IsKilled`, `FailsafeHangResets`, `Flushes`, `LinkRecovers`, `Recovery`,
`StandbyReached`, and the four liveness parts of `ComesBack`.  Every invariant and every
action property of a passing run is a theorem.

## What is not modelled

* *FOC control, IMU preprocessing, SLAM, planners, battery estimators*: floating-point
  mathematics; no question about interleavings.  Inside the modelled motor code the PI
  controllers are numbers from a small set for the same reason.
* *Hardware set-up, factory calibration and tests, diagnostics, build files, simulation*:
  no state other components depend on.
* *CANopen*: `can_send` and `can_recv` are stubs that send and receive nothing, so that no
  state of it can change.
* *EtherCAT slave*: the register access is a stub, and the file does not compile (its
  receive PDO has no field `actual_position`): there is no behaviour to model.
* *Anti-brick counter*: `anti_brick.c` has no caller, and looks for its counters at
  0x08020000, where nothing writes them.  The limits on boot attempts that are in effect
  are in `M7Boot` and `RkBoot`.
* *BLE mesh*: the protocol is in the BlueZ daemon; `ble_mesh.c` keeps the last values under
  one lock and passes them on.  *Plain MQTT client*: a stub.
* *Cloud selector, analytics, voice*: the selector reads once which client to call; the
  others format numbers and text.
* *HSEM wrappers, transport selection, raw UART*: registers, and a table chosen once; their
  uses are in `SafetyWd`, `SafetyStandby`, `MCIpc` and `Qos`.
* *ToF sensor task*: the I2C driver of one sensor.
* *Details inside modelled modules*: a write to a partition is durable when its file is
  closed (the code syncs once, in `ota_reboot`, `ota_manager.c:591`; the boot flag is
  modelled as lost before that).  A start at tick 0, which the code takes for none, is
  modelled where a time limit is a property (protection, battery task, brushes), not in the
  detectors of the M4 and the fan.  EtherNet/IP answers come in one piece: a short read
  ends in a request that is given up.  A name of a log that is taken a hundred times, and
  what the long line of `fw_printenv` overwrites behind the buffers of two callers, are
  left out.
* *Signatures and hashes*: appear as outcomes of the operation that calls them.
* *FMEA table* (`safety_fmea.c`): constant.  That part of redundancy and fault injection is
  the only one of a component marked *partly*.
* *Console text, logs' wording, statistics, descriptors*: left out of the modelled modules.
* *The FETs driven by four modules*: protection, charge, precharge and discharge write
  the same registers and none asks whether another needs a FET open
  (`bms_protect.c:95`); nothing in the repository calls them together, so each is modelled
  with the FETs to itself.

## Disagreements between code and documents

Besides those of the two tables above, modelling the code met these.  Each is in the
model as the code has it, so the passing properties hold in spite of it or are stated
for the set-ups without it.

**Safety watchdog**

* `src/l1_m4/Core/safety_wd.c:114`: safety_wd.c:30 says FS_STOP is "hard stop, wait for human intervention". Safety_Failsafe(3) is only called by main_m4.c during boot, before vSafetyWdTask runs Safety_Init, which sets FS_NORMAL and drives PWM_SHUTDOWN low.
* `src/l1_m4/Core/safety_wd.c:285`: safety_wd.c:6 says "WWDG hardware watchdog (catches M4 hangs)". The only refresh is in the early-wake interrupt, which does not look at the tasks: when all M4 tasks hang in FS_NORMAL, the interrupt refreshes the watchdog for ever.
* `src/l1_m4/Core/safety_wd.c:211`: docs/ARCHITECTURE.md:32 says the fail-safe goes "FS_SPIN_HOME→FS_DOCK_SEARCH→FS_STOP". Safety_Monitor only ever enters FS_SPIN_HOME; while the M7 stays dead, the M4 alternates FS_SPIN_HOME and watchdog resets.

**Reliable UART layer**

* `src/l2_rk3566/src/comm/qos_retransmit.c:344`: qos_retransmit.c:326 says "send data reliably with retransmit". qos_send takes next_seq (line 344) before malloc, and returns -ENOMEM (353-356) without giving it back: the receiver waits for that number for ever, answers every later frame with a NACK for it, and all of them are dropped after their retries.
* `src/l2_rk3566/src/comm/qos_retransmit.c:414`: qos_retransmit.c:3-5 says "Reliable transmission layer" with "sequenced delivery with ACK/NACK" and "duplicate detection". qos_init restarts at sequence number 0 and nothing tells the peer: its expected_seq is ahead, the new frames count as duplicates, are acknowledged (line 417) and never handed over.
* `src/l2_rk3566/src/comm/qos_retransmit.c:400`: qos_retransmit.c:399 says "send ACK for our last received". last_acked_seq is 0 from qos_init on, so a POLL before the first data frame is answered by ACK(0), and the sender frees its frame 0 unreceived.

**Slot metadata**

* `src/l2_rk3566/src/ota/ab_partition.c:338`: ab_partition.c:336 says ab_mark_bad will "explicitly mark the specified slot as bad"; it at most switches the active slot and leaves the per-slot failure counts, which are all that ab_is_slot_bad (372-382) looks at.

**OTA pipeline**

* `src/l2_rk3566/src/ota/ota_manager.c:570`: ota_manager.c:557 says ota_set_boot_flag will "mark new slot as active". Without a boot flag ota_flash writes slot B (line 467) while ota_set_boot_flag marks slot 0 (line 570): the device keeps booting the old image.
* `src/l2_rk3566/src/ota/ota_manager.c:645`: ota_manager.c:603 says ota_rollback will "revert to previous slot on boot failure". The pipeline also calls it when the digest does not match (line 645), and it then turns the flag to the other slot, which never ran.
* `src/l2_rk3566/src/ota/ota_manager.c:387`: ota_manager.c:669 says ota_get_state will "query current OTA state (thread-safe)". The -EIO returns of ota_download (384, 387) leave DOWNLOADING behind: no step accepts a call any more, until a restart.
* `src/l2_rk3566/src/ota/ota_manager.c:290`: ota_manager.c:500 says "CRC check of flashed image" (ota_spec.md:30: "Read back flashed partition, compute CRC32, compare against staged CRC"). Lines 290 and 533 assign instead of accumulate, so that only the last 4 KB are compared.
* `src/l2_rk3566/src/ota/ota_manager.c:393`: ota_manager.c:436 says "write verified firmware to target partition". The state is IDLE between two steps, which a second caller may use to download another image between ota_verify and ota_flash of the first.

**Pack protection**

* `src/l1_m4/Core/bms/bms_protect.c:181`: bms_protect.c:180 demands a "1 s cool-off" before the flag of a short circuit clears. PROT_Task tests the time and writes the flag (179-181) without masking the comparator interrupt: a short asserted in between is forgotten at once.
* `src/l1_m4/Core/bms/bms_protect.c:182`: bms_protect.c:177 says "wait for current to drop to safe level, then re-enable", 182 "Discharge FET re-enabled by state machine"; the recovery only clears the flag and no module asks for it, so both FETs stay open.

**Charge, precharge, discharge**

* `src/l1_m4/Core/bms/bms_charge.c:80`: bms_charge.c:5 promises "Temperature-compensated CV voltage (-3 mV/C/cell above 25 C)"; charge_cv_compensated adds delta_C * 3 (line 80) and clamps to 4200 mV (line 84), so above 25 C the target stays 4200 mV and below 25 C it falls.
* `src/l1_m4/Core/bms/bms_charge.c:208`: docs/design/bms_design.md:181 says "CC phase: Constant 2.0A until cell voltage reaches 4.2V/cell"; line 208 compares the pack voltage with the target of one cell, and bms_design.md:5 describes a 4S pack.
* `src/l1_m4/Core/bms/bms_precharge.c:95`: bms_precharge.c:10 says "Retry 3x on failure, then enter FAULT state" and :108 "after cooldown we re-close FET". After the first timeout start_tick is reset, and the 100 ms limit (95) is tested before the 500 ms pause (119) can be over: the FET is never closed again and the second and third attempts time out with it open.
* `src/l1_m4/Core/bms/bms_discharge.c:106`: bms_discharge.c:160 says "Save discharge state to flash for recovery after power loss". DISCH_SaveState is only called at a critical stop (106) and the record is never withdrawn, so DISCH_RestoreState brings back an old critical state after the pack was charged and reset.

**SPI and USB**

* `src/shared/src/ipc_spi.c:274`: ipc_spi.c:6 says "READY GPIO: PE1 — pulled high when l1_report_t is loaded and ready for master". The pin is lowered by spi_parse_rx (274) in the next spi_process only, so a master that polls again right after a transfer clocks a frame into a slave that is not armed: its command is lost, or cut in two if the DMA is armed meanwhile.
* `src/shared/src/ipc_spi.c:103`: docs/specs/ipc_spec.md:122 says "Frames with sequence number <= last delivered are treated as duplicates and discarded". l2_cmd_t has no number, and spi_dma_error sets both done flags (104-105) with the old frame still in gRxBuf: spi_process queues the previous command again.
* `src/shared/src/ipc_spi.c:227`: ipc_spi.c:295 says "parse RX if DMA completed". If the DMA completes after spi_process of a bridge cycle and before spi_ready, spi_send clears the flags (227-228): the received command is never parsed and the buffers are not swapped.
* `src/shared/src/ipc_usb.c:309`: ipc_transport.c:8 calls USB "hot-plug". usb_send writes gTxHead, then gTxBusy, then starts the transfer; a bus reset in between (cdc_reset, 214) leaves gTxBusy TRUE with nothing in flight, or gTxTail one ahead of gTxHead, which reads as a full ring. No report is sent until the next reset.
* `src/shared/src/ipc_usb.c:169`: ipc_transport.c:8 calls USB "hot-plug". SET_CONFIGURATION with 0 closes the endpoints but leaves gTxBusy set when a report is in flight; when the host selects configuration 1 again, usb_send refuses every report.

**Dock and standby**

* `src/l1_m4/Core/dock_handshake.c:266`: dock_handshake.c:53 says "DOCK_CHARGE_COMPLETE_RSOC 98U" and main_m4.c:29 places "bms_rsoc; /* Relative State-Of-Charge 0-100 */" at offset 4 of SRAM3. Dock_Run reads byte 5, padding that stays 0, so only the limit of 6 h ever ends a charge.
* `src/l1_m4/Core/dock_handshake.c:276`: dock_handshake.c:13 says "Any state -> SEARCHING (19V rail lost > 1 s)". elapsed counts the time in the state, not the time the rail is lost: after the first second, a single average below 5 V ends the charge.
* `src/l1_m4/Core/lpwr_stop2.c:141`: The comment of lpwr_stop2.c:141 says "/* dock_state    */", but sram3 is a pointer to words: sram3 + 4 is byte 16, bms_cycle_count, while dock_state is byte 51.

**Battery task**

* `src/l1_m4/Core/main_m4.c:315`: bms_charge.c:55 says of CELL_RECHARGE_mV "4.10 V -- restart from DONE". vBmsTask runs ChargeFSM also when BMS_ReadAll failed; the fields that were not read are 0, so in DONE a voltage of 0 and an rsoc of 0 start CC_0_5C for a full pack (bms_charge.c:206).
* `src/l1_m4/Core/bms_charge.c:214`: bms_charge.c:10 says "FAULT -> TRICKLE (on recovery)". With voltage and cells unread (0) and a good temperature, the tests of lines 214-217 hold and an overvoltage fault is left while the pack is still over its limit.
* `src/l1_m4/Core/bms_charge.c:133`: bms_charge.c:129 says "Protection checks (run in all states)". The temperature checks ask for bms->valid, which is 0 as soon as any of the five reads fails: a battery that reports 45 degrees is charged on.
* `src/l1_m4/Core/bms_charge.c:167`: bms_charge.c:8 says "TRICKLE -> CC_0_5C -> CC_1C -> CC_2C -> CV_16_8V -> DONE". CC_1C goes to CV_16_8V; no assignment enters CC_2C.
* `src/l1_m4/Core/bms_charge.c:127`: bms_charge.c:83 says "CV_TIMEOUT_S 1800U /* 30 min */". ticks_s() divides the 32-bit millisecond tick, so it falls from 4294967 to 0; the unsigned difference is then far over every limit and the stage ends at once.

**Balancing and gauge upgrade**

* `src/l1_m4/Core/bms/bms_balance.c:176`: `duty_counter` is a `uint8_t` (45) compared with 600: the limit on the time of a cell is never reached.
* `src/l1_m4/Core/bms/bms_upgrade.c:165`: line 9 says "Timeout: 30 s total"; the timer starts again with the first block. `BusyTimeBounded` states the two periods.
* `src/l1_m4/Core/bms/bms_upgrade.c:141`: line 8 lists "Exit ROM mode" as the last step; a failure ends the upgrade with the gauge still in it.

**Other updates**

* `src/l2_rk3566/src/ota/resume_transfer.c:118`: line 7 says "maximum resume attempts: 5"; a record that cannot be opened for writing keeps its old count (119), and no caller looks at the result. The record is truncated and rewritten in place for every block, and a crash in between forgets the download. Line 7 says "Each block has an individual SHA256"; `sha256_compute` is a stub, and the hash of the whole image is never compared.
* `src/l1_m7/Core/bootloader`: the erase of the application takes whole sectors of 128 KB, among them the one the boot loader itself begins in and a part of the staging area. `sha256_final` pads past its buffer for some lengths; the function for the option bytes has no caller.
* `src/l2_rk3566/src/bootloader/rk_boot.c:373`: one decision, two writes of the environment. The switch of slots takes a variable it cannot read for slot a, the direct write to the flash always fails, and a count or flag that the tool reads is always 0, since the text begins with its name.
* `src/l2_rk3566/src/ota/diff_upgrade.c`: the digest of the header is never checked; the counters of the suffix sort overflow for large images (`EveryImageSorts`).

**Safety sensors, redundancy, motors**

* `src/l1_m4/Core/safety/safety_redundant.c:250`: the start of DEGRADED mode is taken anew on every call (250-252).
* `src/l1_m4/Core/safety/safety_fault.c`: arming an injector again leaves `verified` of the last time; neither module has a caller.
* `src/l1_m7/Core/motor/side_brush.c:174`: the time of a stall is not reset by disabling the motor, nor that of a full bin by disabling the fan; `ClearStall` enables a brush that was off.
* `src/l1_m7/Core/motor/roller_brush.c`: the stall test ignores negative currents. `vacuum_fan.c`: the state FAULT is never entered, the soft start may not end over 2 A, and a cleared full bin has a baseline of 0.
* `src/l1_m7/Core/motor/multi_motor.c`: the budget of the currents cannot run out with the limits the file sets, and an emergency stop leaves the motors in speed mode.

**Links and queues**

* `src/l2_rk3566/src/comm/reconnect.c:357`: the start of the synchronisation is a static that only a time-out or an answered SYNC clears; after an ACK ended SYNCING, the next synchronisation times out early. Line 4 promises "exponential backoff"; a failed attempt sets the time of the next one and stays in RECONNECTING, which does not look at it, so that the next poll tries again. `next_reconnect_ms` (335) is compared as a number across the wrap of the clock.
* `src/l2_rk3566/src/comm/frame_priority.c:280`: line 11 says LOW gets "at least one transmission every 500ms"; the guard is only looked at in a call, so the bound is the guard and the wait for a call.
* `src/l2_rk3566/src/comm/wifi_roam.c`: the property is set by a D-Bus message that is built and never sent; 5 GHz is preferred by a bonus that the hysteresis does not know.
* `src/l2_rk3566/src/comm/lte_backup.c:496`: after a failed activation the fallback mode stays on; stopping leaves the active set and the UART is not opened again; answers of the modem may be read by the other thread.

**Clouds**

* `src/l2_rk3566/src/cloud/aws_iot.c`: PUBLISH is sent as 0x50, the code of PUBREC; a SUBACK may be read by `rx_loop` while the subscriber waits for it; the topic of the shadow's delta is not subscribed again; a publication is two writes without a lock; initialising again clears the context under running threads.
* `src/l2_rk3566/src/cloud/aliyun_iot.c`: the factor of a length is a `uint8_t` and 0 from the third byte on; `StaysInStep` holds for packets below 16 KB.
* `src/l2_rk3566/src/cloud/telemetry_batch.c`: the result of a publication is ignored, and what is read without the network is removed; the limit on the spilled files is only tested when one is opened; the newest batch goes before the replay.
* `src/l2_rk3566/src/cloud/device_shadow.c:386`: the report is built under one lock and `dirty` cleared under the next; `CloudCatchesUp` holds because a later update reports it.
* `src/l2_rk3566/src/cloud/tuya_iot.c`: a frame that is cut off by a read is dropped; both ends answer each other's heartbeats; `keep_running` is not set again after a disconnect.

**Buses and logs**

* `src/l2_rk3566/src/comm/uds.c`: a list of trouble codes does not fit the 8 bytes of its frame; the session may be written unchecked; a reset is announced and not made.
* `src/l2_rk3566/src/comm/modbus_rtu.c`: writing a register sends one byte less than the frame has; the time-out is in whole seconds; an exception of any drive ends the transaction; a babbling bus keeps the lock.
* `src/l2_rk3566/src/comm/ethernet_ip.c:446`: "Check for incoming I/O data (non-blocking)", but the socket blocks, so that the join of a disconnect may wait for ever; the session handle is never taken from the answer; the header is missing.
* `src/l2_rk3566/src/comm/proto_version.c`: a lost ACK leaves one end negotiated and the other not; the header is missing and nothing calls it.
* `src/l2_rk3566/src/logging/trace_buffer.c`: a full ring is printed from slot 0, not from its oldest entry; stamps are taken before the lock, so that they may be out of order.
* `src/l2_rk3566/src/logging/event_logger.c`: a failed write opens a new file each time, and the rotation then deletes real logs.
* `src/l2_rk3566/src/logging/crash_dump.c:437`: a fault during an analysis is cleared unread; nothing in the repository writes the context that is analysed.

## What is left to do

1. *Model*: what [is not modelled](#what-is-not-modelled) is out of reach or has no
   behaviour.  Should the four FET modules get a common caller, compose them on one pair
   of FETs and state that a tripped protection wins.
2. *Prove*: liveness, once a prover is at hand that knows ENABLED; the invariants its
   arguments would rest on are proved.
