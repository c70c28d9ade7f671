------------------------------ MODULE Wireless ------------------------------
(***************************************************************************)
(* The two threads that keep the robot on the air: roam_loop of            *)
(* l2_rk3566/src/comm/wifi_roam.c and lte_monitor_loop of lte_backup.c,    *)
(* which reads the RSSI the first one keeps.  wpa_supplicant, the access   *)
(* points and the modem are external.  An AP is reached over 2.4 or 5 GHz, *)
(* and only those of the own SSID are counted.                             *)
(***************************************************************************)
EXTENDS Integers

CONSTANTS
  Ap2, Ap5,                  \* access points of the own SSID
  Rssi,                      \* dBm; its minimum also stands for "not read"
  ROAM_RSSI_THRESHOLD, ROAM_HYSTERESIS_DB, SIGNAL_5GHZ_BOOST, LTE_RSSI_THRESHOLD,
  ROAM_TRIGGER_TIME, ROAM_SCAN_INTERVAL, ROAM_SETTLE, LTE_CHECK_INTERVAL,
  MaxLate                    \* bound: how long a wait ends late

Ap == Ap2 \cup Ap5
Weakest == CHOOSE r \in Rssi : \A q \in Rssi : r <= q

WirelessAssumption ==
  /\ Ap2 \cap Ap5 = {} /\ Rssi \subseteq Int /\ \E r \in Rssi : \A q \in Rssi : r <= q
  /\ {ROAM_RSSI_THRESHOLD, ROAM_HYSTERESIS_DB, SIGNAL_5GHZ_BOOST, LTE_RSSI_THRESHOLD}
       \subseteq Int
  /\ {ROAM_TRIGGER_TIME, ROAM_SCAN_INTERVAL, ROAM_SETTLE, LTE_CHECK_INTERVAL, MaxLate}
       \subseteq Nat \ {0}

VARIABLES
  rssi, bssid,       \* current_rssi, current_bssid_str ("" before the first reading)
  since,             \* roamer_rssi_below_threshold: age of rssi_below_since, or -1
  cache,             \* ap_cache: partial function from Ap to Rssi
  rpc, rwait,        \* where roam_loop is; time left of its sleep, negative when late
  weak_for,          \* history: time since the reading that found the signal weak, or -1
  roam_age,          \* history: time since the last Reassociate
  lte_state, active, fallback_mode, keep_running, uart_open,   \* g_ctx of lte_backup.c
  lpc, lwait         \* where lte_monitor_loop is

roamvars == <<rssi, bssid, since, cache, rpc, rwait, weak_for, roam_age>>
ltevars  == <<lte_state, active, fallback_mode, keep_running, uart_open, lpc, lwait>>
vars     == <<roamvars, ltevars>>

TimeMax == ROAM_TRIGGER_TIME + ROAM_SCAN_INTERVAL + ROAM_SETTLE
Older(n) == IF n = -1 \/ n = TimeMax THEN n ELSE n + 1

(* wifi_roam_init with its first reading missed, lte_backup_init.          *)
Init ==
  /\ rssi = Weakest /\ bssid = "" /\ since = -1 /\ cache = <<>>
  /\ rpc = "top" /\ rwait = 0 /\ weak_for = 0 /\ roam_age = TimeMax
  /\ lte_state = "OFF" /\ active = FALSE /\ fallback_mode = FALSE
  /\ keep_running = TRUE /\ uart_open = TRUE
  /\ lpc = "sleep" /\ lwait = LTE_CHECK_INTERVAL

-----------------------------------------------------------------------------
(* roam_loop.  Each of the three D-Bus Gets of get_current_bss_info may    *)
(* fail on its own; what was not read keeps its old value.                 *)
get_current_bss_info ==
  /\ \/ rssi' \in Rssi
        /\ weak_for' = IF rssi' >= ROAM_RSSI_THRESHOLD THEN -1
                       ELSE IF weak_for = -1 THEN 0 ELSE weak_for
     \/ UNCHANGED <<rssi, weak_for>>
  /\ bssid' \in Ap \cup {bssid}

(* Mutant: a strong reading does not end the weak phase.                   *)
Below_m(strong) == strong /\ since' = since

(* The phase ends with a strong reading.                                   *)
Below(strong) == strong /\ since' = -1

(* The top of the loop.  A phase that is long enough leads to a scan.      *)
Top ==
  /\ rpc = "top" /\ rwait <= 0 /\ get_current_bss_info
  /\ \/ Below(rssi' >= ROAM_RSSI_THRESHOLD) /\ UNCHANGED rpc
     \/ /\ rssi' < ROAM_RSSI_THRESHOLD
        /\ since' = IF since = -1 THEN 0 ELSE since
        /\ rpc' = IF since >= ROAM_TRIGGER_TIME THEN "scan" ELSE "top"
  /\ rwait' = ROAM_SCAN_INTERVAL
  /\ UNCHANGED <<cache, roam_age, ltevars>>

Boosted(ap) == cache'[ap] + IF ap \in Ap5 THEN SIGNAL_5GHZ_BOOST ELSE 0

(* select_best_ap: the best score, unless it is the AP in use or its       *)
(* signal, without the boost, is not clearly better.                       *)
Selected ==
  {ap \in DOMAIN cache' : /\ \A other \in DOMAIN cache' : Boosted(ap) >= Boosted(other)
                          /\ ap # bssid /\ cache'[ap] >= rssi + ROAM_HYSTERESIS_DB}

(* get_scan_results; when it fails the results of an earlier scan are used,*)
(* and a signal that was not read counts as the weakest.                   *)
(* roam_to_ap asks to reassociate, without naming the AP, and then reads   *)
(* anew.                                                                   *)
Scanned ==
  /\ rpc = "scan" /\ rwait <= 0
  /\ \/ \E found \in SUBSET Ap : cache' \in [found -> Rssi]
     \/ UNCHANGED cache
  /\ IF Selected = {} THEN rpc' = "top" /\ since' = -1 /\ rwait' = ROAM_SCAN_INTERVAL
                           /\ UNCHANGED roam_age
     ELSE rpc' = "settle" /\ rwait' = ROAM_SETTLE /\ roam_age' = 0 /\ UNCHANGED since
  /\ UNCHANGED <<rssi, bssid, weak_for, ltevars>>

Settled ==
  /\ rpc = "settle" /\ rwait <= 0 /\ get_current_bss_info
  /\ rpc' = "top" /\ since' = -1 /\ rwait' = ROAM_SCAN_INTERVAL
  /\ UNCHANGED <<cache, roam_age, ltevars>>

-----------------------------------------------------------------------------
(* lte_monitor_loop: WiFi strength, activation, deactivation.              *)

need_lte == rssi < LTE_RSSI_THRESHOLD

Activate ==
  /\ lpc = "sleep" /\ lwait <= 0 /\ need_lte /\ ~active
  /\ lte_state' = "INIT" /\ fallback_mode' = TRUE /\ lpc' = "activating"
  /\ UNCHANGED <<roamvars, active, keep_running, uart_open, lwait>>

(* lte_init_module, lte_attach_network, lte_activate_pdp: a chain of AT    *)
(* commands, none of which succeeds on a closed port.                      *)
Activated(ok) ==
  /\ lpc = "activating" /\ (ok => uart_open)
  /\ lte_state' = IF ok THEN "CONNECTED" ELSE "ERROR"
  /\ active' = ok
  /\ lwait' = LTE_CHECK_INTERVAL /\ lpc' = IF keep_running THEN "sleep" ELSE "ended"
  /\ UNCHANGED <<roamvars, fallback_mode, keep_running, uart_open>>

(* Mutant: the test is the wrong way round.                                *)
Deactivates_m == active /\ need_lte

Deactivates == active /\ ~need_lte

(* The rest of the loop: the answers of QIDEACT and CSQ change nothing     *)
(* here, and tcp_connected is never set (lte_connect_tcp has no caller).   *)
Check ==
  /\ lpc = "sleep" /\ lwait <= 0 /\ (need_lte => active)
  /\ IF Deactivates
     THEN active' = FALSE /\ fallback_mode' = FALSE /\ lte_state' = "OFF"
     ELSE UNCHANGED <<active, fallback_mode, lte_state>>
  /\ lwait' = LTE_CHECK_INTERVAL /\ lpc' = IF keep_running THEN "sleep" ELSE "ended"
  /\ UNCHANGED <<roamvars, keep_running, uart_open>>

(* lte_backup_stop: it closes the port under the thread and then joins it; *)
(* lte_backup_start does not open it again.                                *)
lte_backup_stop == /\ keep_running /\ keep_running' = FALSE /\ uart_open' = FALSE
                   /\ UNCHANGED <<roamvars, lte_state, active, fallback_mode, lpc, lwait>>
lte_backup_start ==
  /\ lpc = "ended" /\ keep_running' = TRUE /\ lpc' = "sleep" /\ lwait' = LTE_CHECK_INTERVAL
  /\ UNCHANGED <<roamvars, lte_state, active, fallback_mode, uart_open>>

Tick ==
  /\ rwait > -MaxLate /\ (lpc = "sleep" => lwait > -MaxLate)
  /\ rwait' = rwait - 1 /\ lwait' = IF lpc = "sleep" THEN lwait - 1 ELSE lwait
  /\ since' = Older(since) /\ weak_for' = Older(weak_for) /\ roam_age' = Older(roam_age)
  /\ UNCHANGED <<rssi, bssid, cache, rpc, lte_state, active, fallback_mode, keep_running,
                 uart_open, lpc>>

roam_loop == Top \/ Scanned \/ Settled
lte_monitor_loop == Activate \/ Activated(TRUE) \/ Activated(FALSE) \/ Check
Next == roam_loop \/ lte_monitor_loop \/ lte_backup_stop \/ lte_backup_start \/ Tick

(* The threads run, time passes, and a modem that is asked again and again *)
(* attaches at last.                                                       *)
Fairness == /\ WF_vars(roam_loop) /\ WF_vars(lte_monitor_loop) /\ WF_vars(Tick)
            /\ SF_vars(Activated(TRUE))

Spec == Init /\ [][Next]_vars /\ Fairness
-----------------------------------------------------------------------------
TypeOK ==
  /\ rssi \in Rssi /\ bssid \in Ap \cup {""} /\ since \in -1..TimeMax
  /\ \E found \in SUBSET Ap : cache \in [found -> Rssi]
  /\ rpc \in {"top", "scan", "settle"} /\ rwait \in Int /\ weak_for \in -1..TimeMax
  /\ roam_age \in 0..TimeMax /\ lte_state \in {"OFF", "INIT", "CONNECTED", "ERROR"}
  /\ {active, fallback_mode, keep_running, uart_open} \subseteq BOOLEAN
  /\ lpc \in {"sleep", "activating", "ended"} /\ lwait \in -MaxLate..LTE_CHECK_INTERVAL

(* wifi_roam.c:5, "RSSI < -70 dBm for 5 seconds": no reassociation unless  *)
(* every reading of that time was weak, and none sooner after another than *)
(* such a phase and a scan take, so that two APs cannot be toggled.        *)
RoamsAfterWeakPhase ==
  roam_age' = 0 /\ rpc = "scan" =>
    /\ weak_for >= ROAM_TRIGGER_TIME + ROAM_SCAN_INTERVAL
    /\ roam_age >= ROAM_SETTLE + ROAM_TRIGGER_TIME + ROAM_SCAN_INTERVAL

(* While the Wi-Fi stays too weak the LTE backup comes up, through failed  *)
(* activations, and stays up; when the Wi-Fi is back for good it goes.     *)
BackupFollowsWifi ==
  /\ <>[](need_lte /\ uart_open) => <>[]active
  /\ <>[](~need_lte /\ keep_running) => <>[]~active
=============================================================================
