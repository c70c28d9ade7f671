--------------------------- MODULE PeerProtocols ----------------------------
(***************************************************************************)
(* Two protocols that the RK3566 speaks with one peer over a line that is  *)
(* not sound.                                                              *)
(*                                                                         *)
(* tuya_iot.c of l2_rk3566/src/cloud: the frames of a Tuya module on a     *)
(* UART.  A frame comes in two pieces, and a read returns the pieces that  *)
(* are there: all, or only the first of them.  The module is external.     *)
(* Two threads send, the reader and the application's; their sequence      *)
(* numbers, which both draw without the lock, are left out.                *)
(*                                                                         *)
(* proto_version.c of l2_rk3566/src/comm at both ends of a link: the       *)
(* request, the answer and the acknowledgement with which two builds of    *)
(* the firmware agree on a protocol version.  A frame can be lost or come  *)
(* after the other end has given up; the link is external.  The checksum   *)
(* has its place at the end of the 246 bytes of a frame, and none of the   *)
(* three frames is that long: it is never sent, and the receiver compares  *)
(* with what its stack held.  Any frame may be refused.                    *)
(***************************************************************************)
EXTENDS Naturals, FiniteSets, SequencesExt

CONSTANTS Dp,                        \* the data points: DP101 and DP102
          MaxFrames,                 \* bound: frames the module sends
          TUYA_HEARTBEAT_INTERVAL,   \* seconds
          Version,                   \* numbers; the older ones are smaller
          max_retries,               \* tries after the first, of all negotiations together
          MaxOnWay                   \* bound: frames on the way to one end

PeerAssumption ==
  /\ MaxFrames \in Nat /\ TUYA_HEARTBEAT_INTERVAL \in Nat \ {0}
  /\ Version \subseteq Nat \ {0} /\ Version # {}
  /\ IsFiniteSet(Version) /\ Cardinality(Version) <= 16     \* PROTO_MAX_VERSIONS
  /\ max_retries \in Nat /\ MaxOnWay \in Nat \ {0}

VARIABLES
  uart, tstate, running, reader,     \* uart_fd, state, keep_running, rx_thread
  wire,                              \* pieces not read yet
  todo,                              \* frames of the last read, not handled yet
  frames,                            \* how many the module has sent
  dp,                                \* dp_battery, dp_state
  beat,                              \* seconds since last_heartbeat
  out,                               \* the last frame sent
  applied,                           \* history: the frames handed to the callback
  g_supported_versions,              \* of each build, the best first
  g_ctx,                             \* of each end
  pc,                                \* where proto_version_negotiate stands
  on_way                             \* frames on the way to each end

tuyavars == <<uart, tstate, running, reader, wire, todo, frames, dp, beat, out, applied>>
protovars == <<g_supported_versions, g_ctx, pc, on_way>>

Cmd == {"heartbeat", "product", "report", "query", "wifi", "reset"}
Damage == {"none", "last", "other"}  \* the byte damaged, if any
Frame == [n : 1..MaxFrames, cmd : Cmd, dp : Dp, damage : Damage]

(* tuya_iot_init.                                                          *)
TuyaInit == /\ uart = FALSE /\ tstate = "DISCONNECTED" /\ running = TRUE /\ reader = "none"
            /\ wire = <<>> /\ todo = <<>> /\ frames = 0
            /\ dp = [d \in Dp |-> 0] /\ beat = 0 /\ out = "none" /\ applied = <<>>

(* uart_send, by way of send_frame: nothing leaves a closed UART.          *)
send_frame(cmd) == out' = IF uart THEN cmd ELSE out
send_dp_report == send_frame("report")
send_heartbeat == send_frame("heartbeat")

(* The module sends a frame; a byte of it may be damaged on the way.       *)
Module ==
  /\ frames < MaxFrames /\ frames' = frames + 1
  /\ \E f \in Frame :
       /\ f.n = frames' /\ (f.cmd # "report" => f.dp = CHOOSE d \in Dp : TRUE)
       /\ wire' = IF uart THEN wire \o <<[frame |-> f, half |-> 1], [frame |-> f, half |-> 2]>>
                  ELSE wire
  /\ UNCHANGED <<uart, tstate, running, reader, todo, dp, beat, out, applied>>

(* tuya_iot_connect; uart_open flushes what has come before.  A reader that*)
(* has not noticed the end of the last connection goes on with this one.   *)
tuya_iot_connect ==
  /\ tstate # "CONNECTED"
  /\ \/ /\ uart' = TRUE /\ tstate' = "CONNECTED" /\ beat' = 0 /\ wire' = <<>>
        /\ out' = "heartbeat"
        /\ reader' = "loop"
     \/ uart' = FALSE /\ tstate' = "ERROR" /\ UNCHANGED <<beat, wire, out, reader>>
  /\ UNCHANGED <<running, todo, frames, dp, applied>>

(* tuya_iot_disconnect.  keep_running is never set again but by init, so   *)
(* that the reader of a later connection ends at once.                     *)
tuya_iot_disconnect ==
  /\ tstate # "DISCONNECTED"
  /\ running' = FALSE /\ uart' = FALSE /\ tstate' = "DISCONNECTED"
  /\ UNCHANGED <<reader, wire, todo, frames, dp, beat, out, applied>>

(* tuya_iot_report_status, under the lock.                                 *)
tuya_iot_report_status ==
  /\ send_dp_report
  /\ UNCHANGED <<uart, tstate, running, reader, wire, todo, frames, dp, beat, applied>>

(* The checksum is the XOR of length - 1 bytes from the length byte on: it *)
(* leaves out the last byte of the payload.                                *)
compute_checksum(f) == f.damage # "other"

(* rx_process: the whole frames of what was read, in their order.  What is *)
(* cut off at the end of the buffer is not kept for the next read, where   *)
(* its other half is skipped as it has no header.                          *)
Taken(piece) == piece.half = 2 /\ compute_checksum(piece.frame)
Whole(pieces) ==
  LET upto[i \in 1..Len(pieces)] ==
        IF i = 1 THEN <<>>
        ELSE IF Taken(pieces[i]) THEN Append(upto[i - 1], pieces[i].frame)
        ELSE upto[i - 1]
  IN upto[Len(pieces)]

(* Mutant: the last two pieces of a read are looked at again with the next.*)
Unread_m(n) == IF n = 1 THEN wire ELSE SubSeq(wire, n - 1, Len(wire))
Unread(n)   == SubSeq(wire, n + 1, Len(wire))
rx_process ==
  /\ reader = "loop" /\ todo = <<>> /\ uart /\ wire # <<>>
  /\ \E n \in 1..Len(wire) :
       todo' = Whole(SubSeq(wire, 1, n)) /\ wire' = Unread(n)
  /\ UNCHANGED <<uart, tstate, running, reader, frames, dp, beat, out, applied>>

(* process_frame.  A heartbeat of the module, also the one that answers    *)
(* ours, is answered with a heartbeat.  A write of a data point goes into  *)
(* the cache under the lock and then to the callback.                      *)
process_frame ==
  /\ reader = "loop" /\ todo # <<>> /\ todo' = Tail(todo)
  /\ LET f == Head(todo) IN
     /\ dp' = IF f.cmd = "report" THEN [dp EXCEPT ![f.dp] = f.n] ELSE dp
     /\ applied' = IF f.cmd \in {"report", "reset"} THEN Append(applied, f) ELSE applied
     /\ \/ f.cmd = "heartbeat" /\ send_heartbeat
        \/ f.cmd \in {"product", "wifi"} /\ send_frame(f.cmd)
        \/ f.cmd = "query" /\ send_dp_report
        \/ f.cmd \in {"report", "reset"} /\ UNCHANGED out
  /\ UNCHANGED <<uart, tstate, running, reader, wire, frames, beat>>

(* rx_loop's own steps: its end, and the heartbeat every ten seconds.      *)
rx_loop ==
  /\ reader = "loop" /\ todo = <<>>
  /\ \/ ~(running /\ tstate = "CONNECTED") /\ reader' = "none" /\ UNCHANGED <<beat, out>>
     \/ /\ beat >= TUYA_HEARTBEAT_INTERVAL /\ send_heartbeat /\ beat' = 0
        /\ UNCHANGED reader
  /\ UNCHANGED <<uart, tstate, running, wire, todo, frames, dp, applied>>

(* A second passes; the reader looks at the time every 50 ms.              *)
Second ==
  /\ beat < TUYA_HEARTBEAT_INTERVAL /\ beat' = beat + 1
  /\ UNCHANGED <<uart, tstate, running, reader, wire, todo, frames, dp, out, applied>>

TuyaNext ==
  /\ \/ Module \/ tuya_iot_connect \/ tuya_iot_disconnect \/ tuya_iot_report_status
     \/ rx_process \/ process_frame \/ rx_loop \/ Second
  /\ UNCHANGED protovars

-----------------------------------------------------------------------------
End == {"a", "b"}
Peer(e) == IF e = "a" THEN "b" ELSE "a"

ListFrame(type, list) == [frame_type |-> type, versions |-> list, negotiated_version |-> 0]
AckFrame(type, v) == [frame_type |-> type, versions |-> <<>>, negotiated_version |-> v]

(* A build supports some versions, listed from the newest on; a frame      *)
(* carries such a list or none.                                            *)
supported_versions ==
  {l \in UNION {[1..n -> Version] : n \in 1..Cardinality(Version)} :
     \A i, j \in DOMAIN l : i < j => l[i] > l[j]}
version_frame_t == [frame_type : {"REQ", "RESP", "ACK", "NAK"},
                    versions : supported_versions \cup {<<>>},
                    negotiated_version : Version \cup {0}]

(* proto_version_init.                                                     *)
proto_version_init ==
  [negotiated_version |-> 0, compatible |-> FALSE, negotiated |-> FALSE, retry_count |-> 0]

ProtoInit == /\ g_supported_versions \in [End -> supported_versions]
             /\ g_ctx = [e \in End |-> proto_version_init]
             /\ pc = [e \in End |-> "idle"] /\ on_way = [e \in End |-> <<>>]

Common(mine, remote) == {i \in DOMAIN mine : mine[i] \in Range(remote)}
(* Mutant: the search goes on after the first match.                       *)
find_common_version_m(mine, remote) ==
  IF Common(mine, remote) = {} THEN 0 ELSE mine[Max(Common(mine, remote))]
find_common_version(mine, remote) ==
  IF Common(mine, remote) = {} THEN 0 ELSE mine[Min(Common(mine, remote))]

(* send_frame; the frame may get lost.                                     *)
proto_send_frame(e, w, frame) ==
  \/ on_way' = w
  \/ Len(w[Peer(e)]) < MaxOnWay /\ on_way' = [w EXCEPT ![Peer(e)] = Append(@, frame)]
Goto(e, where) == pc' = [pc EXCEPT ![e] = where]

(* What the two ends take down under the lock.                             *)
Record(e, version) ==
  g_ctx' = [g_ctx EXCEPT ![e] = [@ EXCEPT !.negotiated_version = version,
                                 !.compatible = version # 0, !.negotiated = TRUE]]

(* A transport can refuse the frame, and a frame can fail to come: the try *)
(* failed, and is repeated after a second unless there were too many.      *)
Failed(e, ctx) ==
  IF ctx[e].retry_count < max_retries
  THEN /\ g_ctx' = [ctx EXCEPT ![e].retry_count = @ + 1]
       /\ Goto(e, IF pc[e] = "resp" THEN "request again" ELSE "wait again")
  ELSE g_ctx' = ctx /\ Goto(e, "idle")

(* proto_version_negotiate, in either role, when it is called and when it  *)
(* calls itself again.                                                     *)
proto_version_negotiate(e) ==
  /\ \/ /\ pc[e] \in {"idle", "request again"} /\ Goto(e, "resp")
        /\ proto_send_frame(e, on_way, ListFrame("REQ", g_supported_versions[e]))
     \/ pc[e] \in {"idle", "wait again"} /\ Goto(e, "req") /\ UNCHANGED on_way
  /\ UNCHANGED g_ctx

(* recv_frame fails: nothing comes for five seconds, or the first frame is *)
(* refused; so does the transport when it cannot send.                     *)
recv_frame_fails(e) ==
  /\ pc[e] \in {"resp", "req", "ack"}
  /\ on_way' \in {on_way, [on_way EXCEPT ![e] = IF @ = <<>> THEN @ ELSE Tail(@)]}
  /\ Failed(e, g_ctx)

recv_frame(e, where) == pc[e] = where /\ on_way[e] # <<>>
Rest(e) == [on_way EXCEPT ![e] = Tail(@)]
Received(e) == Head(on_way[e])
Unexpected(e) == on_way' = Rest(e) /\ Failed(e, g_ctx)

(* negotiate_as_initiator, from the answer on.                             *)
negotiate_as_initiator(e) ==
  /\ recv_frame(e, "resp")
  /\ \/ Received(e).frame_type # "RESP" /\ Unexpected(e)
     \/ /\ Received(e).frame_type = "RESP"
        /\ LET common == find_common_version(g_supported_versions[e], Received(e).versions)
           IN \/ /\ common # 0 /\ Record(e, common) /\ Goto(e, "idle")
                 /\ proto_send_frame(e, Rest(e), AckFrame("ACK", common))
              \/ /\ common = 0 /\ proto_send_frame(e, Rest(e), AckFrame("NAK", 0))
                 /\ Failed(e, [g_ctx EXCEPT ![e] =
                                 [@ EXCEPT !.negotiated_version = 0, !.compatible = FALSE,
                                           !.negotiated = TRUE]])

(* negotiate_as_responder: up to its answer, and from the acknowledgement  *)
(* on.  A version it does not have is no agreement.                        *)
Answer(e) ==
  /\ recv_frame(e, "req")
  /\ \/ Received(e).frame_type # "REQ" /\ Unexpected(e)
     \/ /\ Received(e).frame_type = "REQ" /\ Goto(e, "ack") /\ UNCHANGED g_ctx
        /\ proto_send_frame(e, Rest(e), ListFrame("RESP", g_supported_versions[e]))
negotiate_as_responder(e) ==
  /\ recv_frame(e, "ack") /\ on_way' = Rest(e)
  /\ LET f == Received(e)
         valid == f.negotiated_version \in Range(g_supported_versions[e])
     IN \/ /\ f.frame_type = "ACK" /\ valid
           /\ Record(e, f.negotiated_version) /\ Goto(e, "idle")
        \/ /\ f.frame_type = "NAK"
           /\ Failed(e, [g_ctx EXCEPT ![e] =
                           [@ EXCEPT !.negotiated_version = 0, !.compatible = FALSE,
                                     !.negotiated = TRUE]])
        \/ f.frame_type # "NAK" /\ (f.frame_type = "ACK" => ~valid) /\ Failed(e, g_ctx)

(* The other functions only read.                                          *)
proto_version_get_negotiated(e) == g_ctx[e].negotiated_version
proto_version_is_compatible(e) == g_ctx[e].compatible

ProtoNext ==
  /\ \E e \in End : \/ proto_version_negotiate(e) \/ recv_frame_fails(e)
                    \/ negotiate_as_initiator(e) \/ Answer(e)
                    \/ negotiate_as_responder(e)
  /\ UNCHANGED <<g_supported_versions, tuyavars>>

Init == TuyaInit /\ ProtoInit
Next == TuyaNext \/ ProtoNext
Spec == Init /\ [][Next]_<<tuyavars, protovars>>
-----------------------------------------------------------------------------
TypeOK ==
  /\ uart \in BOOLEAN /\ running \in BOOLEAN /\ reader \in {"none", "loop"}
  /\ tstate \in {"DISCONNECTED", "CONNECTED", "ERROR"}
  /\ frames \in 0..MaxFrames /\ dp \in [Dp -> 0..MaxFrames]
  /\ beat \in 0..TUYA_HEARTBEAT_INTERVAL /\ out \in Cmd \cup {"none"}
  /\ g_supported_versions \in [End -> supported_versions]
  /\ \A e \in End : /\ g_ctx[e].negotiated_version \in Version \cup {0}
                    /\ g_ctx[e].retry_count \in 0..max_retries
                    /\ pc[e] \in {"idle", "request again", "wait again", "resp", "req", "ack"}
                    /\ \A i \in DOMAIN on_way[e] : on_way[e][i] \in version_frame_t

(* However the stream is cut into reads, over lost pieces and new          *)
(* connections, no command reaches the callback twice or after a later     *)
(* one, and every data point holds its newest command.                     *)
CommandsInOrder ==
  /\ \A i, j \in DOMAIN applied : i < j => applied[i].n < applied[j].n
  /\ \A d \in Dp :
       dp[d] = Max({applied[i].n : i \in {k \in DOMAIN applied :
                       applied[k].cmd = "report" /\ applied[k].dp = d}} \cup {0})

(* tuya_iot.c:61 and 252: the checksum covers all bytes from the length    *)
(* byte through the end of the payload; what is damaged is not applied.    *)
DamageIsNoticed == \A i \in DOMAIN applied : applied[i].damage = "none"

(* Over lost and late frames, refused frames and exchanged roles, an end   *)
(* that says it is compatible speaks the newest version both builds have,  *)
(* so that two such ends speak the same; and an end that has negotiated    *)
(* and is not compatible has a peer with which it shares nothing.          *)
NewestInCommon ==
  LET common == Range(g_supported_versions["a"]) \cap Range(g_supported_versions["b"]) IN
  \A e \in End :
     /\ proto_version_is_compatible(e) =>
          /\ proto_version_get_negotiated(e) \in common
          /\ \A v \in common : v <= proto_version_get_negotiated(e)
     /\ g_ctx[e].negotiated /\ ~proto_version_is_compatible(e) => common = {}
=============================================================================
