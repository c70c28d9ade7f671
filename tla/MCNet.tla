------------------------------- MODULE MCNet --------------------------------
(***************************************************************************)
(* A test bench for the connections of the RK3566 to what is outside the   *)
(* robot and to the M7, in one of six set-ups that is chosen at the start  *)
(* and never changes: the reconnection and the transmit queues of the link *)
(* to the M7, Wi-Fi roaming with the LTE backup, a cloud client and the    *)
(* two services above it.                                                  *)
(***************************************************************************)
EXTENDS Integers, Sequences

CONSTANTS
  ACK_TIMEOUT, SYNC_TIMEOUT, FirstDelay, LaterDelay, LinkClock,       \* link
  LinkGap,
  FP_MAX_QUEUE_LENGTH, FP_STARVATION_TIMEOUT, ClockMod, QueueGap,     \* queues
  Ap2, Ap5, Attenuation, RoamAttenuation, LteAttenuation,             \* radio: dB
  ROAM_HYSTERESIS_DB, SIGNAL_5GHZ_BOOST, ROAM_TRIGGER_TIME,
  ROAM_SCAN_INTERVAL, ROAM_SETTLE, LTE_CHECK_INTERVAL, MaxLate,
  Topic, MaxLosses, NameSize, PacketSize,                             \* cloud
  TELEMETRY_MAX_POINTS, SPILL_MAX, SPILL_CHUNK, SPILL_HEADER,         \* services
  BatchSizes, MaxBatches, MaxReplays, MaxUpdates, MaxCommands

VARIABLES
  setup,
  link, ack_age, backoff_step, clock, next_reconnect, sync_pending, sync_start, answers, peer,
  silence, gap,
  count, now, starve_check, overtaken, low_wait, turned, tx_gap,
  rssi, bssid, since, cache, rpc, rwait, weak_for, roam_age,
  lte_state, active, fallback_mode, keep_running, uart_open, lpc, lwait,
  cstate, rx_running, tls, caller, rx, task, sub, topic, subs, granted, losses,
  names, packet, instep, mixed,
  available, points, dated, made, disk, open, spill_bytes, replays, live, replayed,
  doubled,
  reported, dirty, shadow_pc, json, shown, commands

Backoff == <<FirstDelay, LaterDelay>>
Link == INSTANCE Reconnect WITH MaxGap <- LinkGap, ClockMod <- LinkClock

Queues == INSTANCE FramePriority WITH MaxGap <- QueueGap

Rssi == {-a : a \in Attenuation}
ROAM_RSSI_THRESHOLD == -RoamAttenuation
LTE_RSSI_THRESHOLD == -LteAttenuation
Radio == INSTANCE Wireless

Cloud == INSTANCE CloudClient WITH keep_running <- rx_running

Services == INSTANCE CloudServices WITH pc <- shadow_pc

ASSUME SetupAssumption ==
  /\ Link!ReconnectAssumption /\ Queues!PriorityAssumption /\ Radio!WirelessAssumption
  /\ Cloud!CloudAssumption /\ Services!ServicesAssumption

linkvars   == <<link, ack_age, backoff_step, clock, next_reconnect, sync_pending,
                sync_start, answers, peer, silence, gap>>
queuevars  == <<count, now, starve_check, overtaken, low_wait, turned, tx_gap>>
radiovars  == <<rssi, bssid, since, cache, rpc, rwait, weak_for, roam_age, lte_state,
                active, fallback_mode, keep_running, uart_open, lpc, lwait>>
cloudvars  == <<cstate, rx_running, tls, caller, rx, task, sub, topic, subs, granted,
                losses, names, packet, instep, mixed>>
telvars    == <<available, points, dated, made, disk, open, spill_bytes, replays, live,
                replayed, doubled>>
shadowvars == <<reported, dirty, shadow_pc, json, shown, commands>>
vars == <<setup, linkvars, queuevars, radiovars, cloudvars, telvars, shadowvars>>

(* What is not set up stays as it is, and starts in one state only.        *)
Parked ==
  /\ UNCHANGED setup
  /\ setup # "link" => UNCHANGED linkvars
  /\ setup # "queues" => UNCHANGED queuevars
  /\ setup # "radio" => UNCHANGED radiovars
  /\ setup # "cloud" => UNCHANGED cloudvars
  /\ setup # "telemetry" => UNCHANGED telvars
  /\ setup # "shadow" => UNCHANGED shadowvars

Init ==
  /\ setup \in {"link", "queues", "radio", "cloud", "telemetry", "shadow"}
  /\ Link!Init /\ Queues!Init /\ Radio!Init /\ Cloud!Init /\ Services!Init
  /\ setup # "cloud" => topic = CHOOSE t \in Topic : TRUE

Next ==
  \/ setup = "link" /\ Link!Next /\ Parked
  \/ setup = "queues" /\ Queues!Next /\ Parked
  \/ setup = "radio" /\ Radio!Next /\ Parked
  \/ setup = "cloud" /\ Cloud!Next /\ Parked
  \/ setup = "telemetry" /\ Services!TelNext /\ Parked
  \/ setup = "shadow" /\ Services!ShadowNext /\ Parked

(* The fairness of the modules: tasks are scheduled, time passes, and a    *)
(* peer, a modem or a broker that is asked again and again answers once.   *)
Spec ==
  /\ Init /\ [][Next]_vars
  /\ WF_vars(setup = "link" /\ Link!recon_poll /\ Parked)
  /\ WF_vars(setup = "link" /\ Link!Tick /\ Parked)
  /\ SF_vars(setup = "link" /\ link = "RECONNECTING" /\ Link!recon_poll /\ link' = "SYNCING"
             /\ Parked)
  /\ SF_vars(setup = "link" /\ link = "SYNCING" /\ Link!recon_process_sync /\ Parked)
  /\ WF_vars(setup = "radio" /\ Radio!roam_loop /\ Parked)
  /\ WF_vars(setup = "radio" /\ Radio!lte_monitor_loop /\ Parked)
  /\ WF_vars(setup = "radio" /\ Radio!Tick /\ Parked)
  /\ SF_vars(setup = "radio" /\ Radio!Activated(TRUE) /\ Parked)
  /\ WF_vars(setup = "cloud" /\ Cloud!reconnect_task /\ Parked)
  /\ SF_vars(setup = "cloud" /\ Cloud!Succeeds /\ Parked)
  /\ WF_vars(setup = "shadow" /\ Services!shadow_report_thread /\ Parked)
  /\ \A t \in Services!Reporter :
       /\ WF_vars(setup = "shadow" /\ Services!device_shadow_report(t) /\ Parked)
       /\ SF_vars(setup = "shadow" /\ Services!Published(t) /\ Parked)
-----------------------------------------------------------------------------
(* Every variable of the connections stays in its type.                    *)
TypeOK ==
  /\ Link!TypeOK /\ Queues!TypeOK /\ Radio!TypeOK /\ Cloud!TypeOK /\ Services!TypeOK

(* reconnect.c, frame_priority.c: a link that is reported as connected had *)
(* a sign of the peer not long ago, and no queue waits for its slot longer *)
(* than the two rules against starvation allow, unless the millisecond     *)
(* clock came close to its wrap.  The clouds: whoever says it is connected *)
(* reads what comes and has its topics again, from the place where a       *)
(* packet starts, unless a packet came to who waited for a SUBACK; and     *)
(* kept measurements are uploaded once and in order, unless two threads    *)
(* replay them at once or a restart comes before a read file is removed.   *)
SessionsHold ==
  /\ Link!ConnectedMeansHeard /\ Queues!SlotsInTime
  /\ Cloud!ConnectedIsRead /\ Cloud!ReconnectRestores /\ Cloud!StaysInStep
  /\ Services!ReplayedInOrder

(* What was lost comes back: the link to the M7, a way into the internet,  *)
(* the first connection to the cloud and the state that the cloud shows.   *)
(* And the access point is not changed without a weak phase before.        *)
ComesBack ==
  /\ [][setup = "radio" => Radio!RoamsAfterWeakPhase]_vars
  /\ setup = "link" => Link!LinkComesBack
  /\ setup = "radio" => Radio!BackupFollowsWifi
  /\ setup = "cloud" => Cloud!FirstIsRetried
  /\ setup = "shadow" => Services!CloudCatchesUp
=============================================================================
