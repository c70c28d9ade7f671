--------------------------- MODULE CloudServices ----------------------------
(***************************************************************************)
(* The two services of the RK3566 that talk through a cloud client:        *)
(* telemetry_batch.c, which uploads the measurements in batches and keeps  *)
(* them on the eMMC while the network is away, and device_shadow.c, which  *)
(* shows the state of the robot in the cloud and obeys its commands.       *)
(*                                                                         *)
(* A batch is its number, in the order in which the batches were made; a   *)
(* reported state is the number of updates it holds.  What a client does   *)
(* with a publication is CloudClient; here it arrives or is lost.  Spill   *)
(* files have names that sort in the order in which they were opened.      *)
(***************************************************************************)
EXTENDS Integers, Sequences

CONSTANTS TELEMETRY_MAX_POINTS, SPILL_MAX, SPILL_CHUNK, SPILL_HEADER, BatchSizes,
          MaxBatches, MaxReplays, MaxUpdates, MaxCommands  \* these four bound the model

VARIABLES available,     \* g_ctx.network_available
          points, dated, \* current_bucket: count, and start_time_ms is not 0
          made,          \* batches flushed so far
          disk, open,    \* the spill files, oldest first, and g_ctx.spill_file
          spill_bytes,
          replays,       \* the replays that run, oldest first: how many of the files are
                         \* still in its list, and whether it has read the first one
          live, replayed,\* batches uploaded when made, and by a replay
          doubled        \* history: two replays ran at once, or a restart came between
                         \* the reading of a file and its removal
telvars == <<available, points, dated, made, disk, open, spill_bytes, replays, live,
             replayed, doubled>>

VARIABLES reported, dirty,
          pc, json,      \* of the two threads that report
          shown,         \* the state the cloud shows
          commands       \* received so far
shadowvars == <<reported, dirty, pc, json, shown, commands>>

vars == <<telvars, shadowvars>>

ServicesAssumption ==
  /\ \A n \in {TELEMETRY_MAX_POINTS, SPILL_MAX, SPILL_CHUNK, SPILL_HEADER} : n \in Nat \ {0}
  /\ BatchSizes \subseteq Nat \ {0}
  /\ {MaxBatches, MaxReplays, MaxUpdates, MaxCommands} \subseteq Nat

-----------------------------------------------------------------------------
\* The batches

TelInit ==
  /\ available = TRUE /\ points = 0 /\ dated = FALSE /\ made = 0
  /\ disk = <<>> /\ open = "none" /\ spill_bytes = 0 /\ replays = <<>>
  /\ live = <<>> /\ replayed = <<>> /\ doubled = FALSE

(* The limit is only tested when a file is opened.                         *)
telemetry_open_spill == open = "none" /\ spill_bytes < SPILL_MAX

(* A file is closed near each chunk; the header is left out of that test.  *)
(* What goes to a file that is no longer linked leaves no trace.           *)
telemetry_write_spill(batch, closing) ==
  \/ /\ open = "none" /\ ~telemetry_open_spill
     /\ UNCHANGED <<disk, open, spill_bytes>>
  \/ \E len \in BatchSizes :
       /\ open # "none" \/ telemetry_open_spill
       /\ spill_bytes' = spill_bytes + len + SPILL_HEADER
       /\ disk' = CASE open = "none" -> Append(disk, <<batch>>)
                    [] open = "linked" ->
                         [disk EXCEPT ![Len(disk)] = Append(@, batch)]
                    [] open = "unlinked" -> disk
       /\ open' = IF closing \/ spill_bytes' % SPILL_CHUNK < len THEN "none"
                  ELSE IF open = "none" THEN "linked"
                  ELSE open

(* The bucket becomes a batch, uploaded or spilled, and is emptied whatever *)
(* cloud_publish and telemetry_write_spill return.                         *)
telemetry_flush_bucket(closing) ==
  /\ made < MaxBatches /\ made' = made + 1
  /\ \/ /\ available /\ live' = Append(live, made')
        /\ open' = IF closing THEN "none" ELSE open
        /\ UNCHANGED <<disk, spill_bytes>>
     \/ /\ ~available /\ telemetry_write_spill(made', closing) /\ UNCHANGED live

(* A bucket is flushed before the point that finds it full or too old.     *)
(* That point then finds it without a date, and so does the next one.      *)
telemetry_batch_add_ts ==
  /\ \/ /\ points > 0 /\ telemetry_flush_bucket(FALSE)
        /\ points' = 1 /\ dated' = FALSE
     \/ /\ points < TELEMETRY_MAX_POINTS /\ (points > 0 => dated)
        /\ points' = points + 1 /\ dated' = TRUE
        /\ UNCHANGED <<made, live, disk, open, spill_bytes>>
  /\ UNCHANGED <<available, replays, replayed, doubled>>

telemetry_upload_loop ==
  /\ points > 0 /\ telemetry_flush_bucket(FALSE)
  /\ points' = 0 /\ dated' = FALSE
  /\ UNCHANGED <<available, replays, replayed, doubled>>

telemetry_batch_stop ==
  /\ \/ points > 0 /\ telemetry_flush_bucket(TRUE)
     \/ /\ points = 0 /\ open' = "none"
        /\ UNCHANGED <<made, live, disk, spill_bytes>>
  /\ points' = 0 /\ dated' = FALSE
  /\ UNCHANGED <<available, replays, replayed, doubled>>

(* Any thread may report the state of the network, also in the middle of a *)
(* replay, which runs in the call that reports it back: after the bucket,  *)
(* ls lists the files, unless popen fails.                                 *)
NetworkLost ==
  /\ available /\ available' = FALSE
  /\ UNCHANGED <<points, dated, made, disk, open, spill_bytes, replays, live, replayed,
                 doubled>>

NetworkBack ==
  /\ ~available /\ Len(replays) < MaxReplays
  /\ available' = TRUE
  /\ \/ /\ replays' = Append(replays, [left |-> Len(disk), read |-> FALSE])
        /\ doubled' = (doubled \/ replays # <<>>)
     \/ UNCHANGED <<replays, doubled>>
  /\ \/ /\ points > 0 /\ made < MaxBatches
        /\ made' = made + 1 /\ live' = Append(live, made')
        /\ points' = 0 /\ dated' = FALSE
     \/ points = 0 /\ UNCHANGED <<points, dated, made, live>>
  /\ UNCHANGED <<disk, open, spill_bytes, replayed>>

telemetry_batch_set_network_available == NetworkLost \/ NetworkBack

(* A replay reads the first file of its list to its end.  What it reads is *)
(* uploaded while the network is there, which may go in the middle.        *)
Read(r) ==
  /\ replays[r].left > 0 /\ ~replays[r].read
  /\ Len(replayed) < 2 * MaxBatches                       \* bounds the model
  /\ replays' = [replays EXCEPT ![r].read = TRUE]
  /\ \/ ~available /\ UNCHANGED <<available, replayed>>
     \/ available /\ replayed' = replayed \o Head(disk) /\ UNCHANGED available
     \/ /\ available /\ available' = FALSE
        /\ \E n \in 0..Len(Head(disk)) - 1 : replayed' = replayed \o SubSeq(Head(disk), 1, n)
  /\ UNCHANGED <<disk, open, spill_bytes, doubled>>

Remaining_m == disk  \* what has been read is not removed
Remaining == Tail(disk)

(* Then it is removed, uploaded or not, also when it is still open for     *)
(* writing.  Another replay that has it in its list goes on to the next.   *)
Removed(r) ==
  /\ replays[r].left > 0 /\ replays[r].read
  /\ disk' = Remaining
  /\ replays' = [q \in DOMAIN replays |->
                   IF replays[q].left = 0 THEN replays[q]
                   ELSE [left |-> replays[q].left - 1, read |-> FALSE]]
  /\ open' = IF Len(disk) = 1 /\ open = "linked" THEN "unlinked" ELSE open
  /\ UNCHANGED <<available, spill_bytes, replayed, doubled>>

Ended(r) ==
  /\ replays[r].left = 0
  /\ spill_bytes' = 0
  /\ replays' = [q \in 1..Len(replays) - 1 |-> replays[IF q < r THEN q ELSE q + 1]]
  /\ UNCHANGED <<available, disk, open, replayed, doubled>>

telemetry_replay_spill ==
  /\ \E r \in DOMAIN replays : Read(r) \/ Removed(r) \/ Ended(r)
  /\ UNCHANGED <<points, dated, made, live>>

(* A restart: the bucket is gone, the files stay, and the network is taken *)
(* to be there.                                                            *)
telemetry_batch_init ==
  /\ available' = TRUE /\ points' = 0 /\ dated' = FALSE /\ open' = "none"
  /\ spill_bytes' = 0 /\ replays' = <<>>
  /\ doubled' = (doubled \/ \E r \in DOMAIN replays : replays[r].read)
  /\ UNCHANGED <<made, disk, live, replayed>>

TelNext ==
  /\ \/ telemetry_batch_add_ts \/ telemetry_upload_loop \/ telemetry_batch_stop
     \/ telemetry_batch_set_network_available \/ telemetry_replay_spill
     \/ telemetry_batch_init
  /\ UNCHANGED shadowvars

-----------------------------------------------------------------------------
\* The shadow of the device

Reporter == {"timer", "rx"}  \* report_thread, and the thread of the cloud client

ShadowInit ==
  /\ reported = 0 /\ dirty = FALSE /\ shown = 0 /\ commands = 0
  /\ pc = [t \in Reporter |-> "idle"] /\ json = [t \in Reporter |-> 0]

(* device_shadow_update_*: the state has changed.                          *)
device_shadow_update ==
  /\ reported < MaxUpdates /\ reported' = reported + 1 /\ dirty' = TRUE
  /\ UNCHANGED <<pc, json, shown, commands>>

(* A delta is stored, taken, and obeyed by the same thread, which then     *)
(* reports; an answer that cannot be parsed is ignored.                    *)
shadow_on_cloud_msg ==
  /\ pc["rx"] = "idle" /\ commands < MaxCommands
  /\ commands' = commands + 1 /\ dirty' = TRUE
  /\ pc' = [pc EXCEPT !["rx"] = "report"]
  /\ UNCHANGED <<reported, json, shown>>

(* The thread reports every five seconds, changed or not.                  *)
Due_m == dirty  \* only what has changed
Due == TRUE
shadow_report_thread ==
  /\ pc["timer"] = "idle" /\ Due
  /\ pc' = [pc EXCEPT !["timer"] = "report"]
  /\ UNCHANGED <<reported, dirty, json, shown, commands>>

(* device_shadow_report, under the lock: the document ...                  *)
shadow_build_reported_json(t) ==
  /\ pc[t] = "report"
  /\ json' = [json EXCEPT ![t] = reported] /\ pc' = [pc EXCEPT ![t] = "built"]
  /\ UNCHANGED <<reported, dirty, shown, commands>>

(* ... then, under the lock again, the mark of what has changed ...        *)
MarkClean(t) ==
  /\ pc[t] = "built"
  /\ dirty' = FALSE /\ pc' = [pc EXCEPT ![t] = "publish"]
  /\ UNCHANGED <<reported, json, shown, commands>>

(* ... and without it the publication, whose result is not looked at.      *)
Published(t) ==
  /\ pc[t] = "publish" /\ pc' = [pc EXCEPT ![t] = "idle"]
  /\ shown' = json[t]
  /\ UNCHANGED <<reported, dirty, json, commands>>
NotPublished(t) ==
  /\ pc[t] = "publish" /\ pc' = [pc EXCEPT ![t] = "idle"]
  /\ UNCHANGED <<reported, dirty, json, shown, commands>>
device_shadow_report(t) ==
  shadow_build_reported_json(t) \/ MarkClean(t) \/ Published(t) \/ NotPublished(t)

ShadowNext ==
  /\ \/ device_shadow_update \/ shadow_on_cloud_msg \/ shadow_report_thread
     \/ \E t \in Reporter : device_shadow_report(t)
  /\ UNCHANGED telvars

Init == TelInit /\ ShadowInit
Next == TelNext \/ ShadowNext

(* The report thread runs, and of its reports some arrive.                 *)
Fairness ==
  /\ WF_vars(shadow_report_thread /\ UNCHANGED telvars)
  /\ \A t \in Reporter : /\ WF_vars(device_shadow_report(t) /\ UNCHANGED telvars)
                         /\ SF_vars(Published(t) /\ UNCHANGED telvars)
Spec == Init /\ [][Next]_vars /\ Fairness

-----------------------------------------------------------------------------
TypeOK ==
  /\ available \in BOOLEAN /\ dated \in BOOLEAN /\ doubled \in BOOLEAN
  /\ replays \in Seq([left : Nat, read : BOOLEAN])
  /\ points \in 0..TELEMETRY_MAX_POINTS /\ made \in 0..MaxBatches
  /\ disk \in Seq(Seq(1..MaxBatches)) /\ open \in {"none", "linked", "unlinked"}
  /\ spill_bytes \in Nat
  /\ live \in Seq(1..MaxBatches) /\ replayed \in Seq(1..MaxBatches)
  /\ reported \in 0..MaxUpdates /\ shown \in 0..MaxUpdates /\ dirty \in BOOLEAN
  /\ commands \in 0..MaxCommands
  /\ pc \in [Reporter -> {"idle", "report", "built", "publish"}]
  /\ json \in [Reporter -> 0..MaxUpdates]

(* telemetry_batch.c:8, "in chronological order".                          *)
InChronologicalOrder ==
  \A i, j \in DOMAIN replayed : i < j => replayed[i] <= replayed[j]

(* What is kept of it: what is uploaded from the files comes in the order  *)
(* in which it was measured, over any number of outages, in a replay as    *)
(* well, and restarts, and no batch is uploaded twice; unless a restart    *)
(* comes between the reading of a file and its removal, or two threads     *)
(* replay at once.                                                         *)
ReplayedInOrder ==
  doubled \/ /\ \A i, j \in DOMAIN replayed : i < j => replayed[i] < replayed[j]
             /\ \A i \in DOMAIN replayed, j \in DOMAIN live : replayed[i] # live[j]

(* telemetry_batch.c:7-8, "spill to eMMC", "Replay on reconnect": a batch  *)
(* leaves the files only when it has been uploaded.                        *)
Batches(files) == UNION {{f[i] : i \in DOMAIN f} : f \in {files[k] : k \in DOMAIN files}}
LeavesWhenUploaded ==
  [][Batches(disk) \subseteq Batches(disk') \cup Batches(<<replayed'>>)]_vars

(* Once the state stays as it is, the cloud shows it, although an update   *)
(* between the document and the mark is marked clean unreported, reports   *)
(* are lost, and the threads may publish in the wrong order.               *)
CloudCatchesUp == <>[](shown = reported)
=============================================================================
