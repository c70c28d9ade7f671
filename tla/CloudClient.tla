---------------------------- MODULE CloudClient ----------------------------
(***************************************************************************)
(* The MQTT clients of l2_rk3566/src/cloud, aws_iot.c and aliyun_iot.c:    *)
(* the same threads around the same context, taken line by line, under the *)
(* states of the one or the other.  Three threads act: the one that        *)
(* connects and disconnects, one that subscribes, and those the client     *)
(* starts, rx_loop and reconnect_task.  Only those steps that the code     *)
(* does under its lock exclude each other.  The delay before an attempt is *)
(* time only.  Of the packets only lengths matter: that of CONNECT, which  *)
(* Alibaba's credentials fill, and the one in front of what is read.       *)
(***************************************************************************)
EXTENDS Integers, Sequences

CONSTANTS
  Topic,
  NameSize,                       \* product key and device name together, in bytes
  PacketSize,                     \* bytes of the packets the cloud sends
  MaxLosses                       \* bound: how often the connection is lost

CloudAssumption ==
  MaxLosses \in Nat /\ NameSize \subseteq Nat /\ PacketSize \subseteq Nat \ {0}

VARIABLES
  cstate, keep_running,           \* g_ctx
  tls,                            \* the connection: "none", "up" or "lost"
  caller, rx, task, sub,          \* where the threads are
  topic, subs,                    \* being subscribed; g_ctx.subs
  granted,                        \* the topics the broker has for the session
  losses,
  names,                          \* the size of the names of this device
  packet, instep,                 \* the next packet, or 0; the reader is at its start
  mixed                           \* history: another packet may have come to who waited
                                  \* for a SUBACK of this connection

client == <<cstate, keep_running, tls, caller, rx, task, sub, topic, subs, granted, losses>>
lengths == <<names, packet, instep, mixed>>
vars == <<client, lengths>>

(* aws_iot_init, aliyun_iot_init.                                          *)
Init == /\ cstate = "DISCONNECTED" /\ keep_running = TRUE /\ tls = "none"
        /\ caller = "idle" /\ rx = "none" /\ task = "none" /\ sub = "idle"
        /\ topic \in Topic /\ subs = {} /\ granted = {} /\ losses = 0
        /\ names \in NameSize /\ packet = 0 /\ instep = TRUE /\ mixed = FALSE

(* tls_connect and mqtt_connect, or tls_disconnect after a failure.        *)
Opened(done) == \/ done /\ tls' = "up" /\ granted' = {}
                \/ ~done /\ tls' = "none" /\ UNCHANGED granted

(* The connection breaks, at any time.                                     *)
Lose == /\ tls = "up" /\ losses < MaxLosses
        /\ tls' = "lost" /\ losses' = losses + 1
        /\ UNCHANGED <<cstate, keep_running, caller, rx, task, sub, topic, subs, granted>>

(* aws_iot_connect: CONNECTING; the attempt, whose failure starts the      *)
(* task; CONNECTED, and then the thread that reads.  Its own topic is      *)
(* subscribed without an entry in subs, so that a new session lacks it.    *)
aws_iot_connect ==
  \/ /\ caller = "idle" /\ caller' = "connecting" /\ cstate' = "CONNECTING"
     /\ UNCHANGED <<tls, granted, rx, task>>
  \/ /\ caller = "connecting"
     /\ \E done \in BOOLEAN :
          /\ Opened(done)
          /\ caller' = IF done THEN "opened" ELSE "up"
          /\ cstate' = IF done THEN cstate ELSE "RECONNECTING"
          /\ task' = IF done THEN task ELSE "wait"
     /\ UNCHANGED rx
  \/ /\ caller = "opened" /\ task # "resubscribe"
     /\ caller' = "start" /\ cstate' = "CONNECTED"
     /\ UNCHANGED <<tls, granted, rx, task>>
  \/ /\ caller = "start" /\ caller' = "up" /\ rx' = "loop"
     /\ UNCHANGED <<cstate, tls, granted, task>>

Connect == aws_iot_connect /\ UNCHANGED <<keep_running, sub, topic, subs, losses>>

(* aws_iot_disconnect, without the lock.                                   *)
Disconnect ==
  /\ \/ /\ caller = "up" /\ caller' = "closing" /\ keep_running' = FALSE
        /\ cstate' = "DISCONNECTING" /\ UNCHANGED tls
     \/ /\ caller = "closing" /\ caller' = "closed" /\ tls' = "none"
        /\ cstate' = "DISCONNECTED" /\ UNCHANGED keep_running
  /\ UNCHANGED <<rx, task, sub, topic, subs, granted, losses>>

(* rx_loop ends when the client is no longer CONNECTED or to be stopped,   *)
(* or when it reads an error: then it changes the state, but no task is    *)
(* started.  A PUBLISH of the broker (0x30) is not among the packets it    *)
(* handles (0x50), and a SUBACK it reads is lost for the subscriber.       *)
rx_loop ==
  /\ rx = "loop"
  /\ \/ /\ ~(keep_running /\ cstate = "CONNECTED") /\ rx' = "none"
        /\ UNCHANGED <<cstate, sub>>
     \/ /\ tls # "up" /\ task # "resubscribe" /\ rx' = "none"
        /\ cstate' = IF cstate = "CONNECTED" THEN "RECONNECTING" ELSE cstate
        /\ UNCHANGED sub
     \/ /\ tls = "up" /\ sub = "suback" /\ sub' = "hung"
        /\ UNCHANGED <<cstate, rx>>
  /\ UNCHANGED <<keep_running, tls, caller, task, topic, subs, granted, losses>>

(* Mutant: the task gives up after the first attempt that fails.           *)
Again_m(done) == task' = IF done THEN "resubscribe" ELSE "none"
Again(done)   == task' = IF done THEN "resubscribe" ELSE "wait"

(* One attempt of reconnect_task; from here to the end of the              *)
(* subscriptions of a success the lock is held.                            *)
Attempt(done) ==
  /\ task = "attempt" /\ Opened(done) /\ Again(done)
  /\ cstate' = IF done THEN cstate ELSE "RECONNECTING"
  /\ UNCHANGED <<keep_running, caller, rx, sub, topic, subs, losses>>

(* The loop of the task, and the delay, which a stop cuts short.           *)
Wait ==
  /\ task = "wait"
  /\ IF keep_running /\ cstate \in {"RECONNECTING", "DISCONNECTED"}
     THEN task' = "attempt" /\ cstate' = "CONNECTING"
     ELSE task' = "none" /\ UNCHANGED cstate
  /\ UNCHANGED <<keep_running, tls, caller, rx, sub, topic, subs, granted, losses>>

(* Mutant: the lock is released before the state is set.                   *)
Connected_m == UNCHANGED cstate
Connected == cstate' = "CONNECTED"

(* Every topic is subscribed again, then the state is set and the lock     *)
(* released, then the thread is started.                                   *)
Resubscribe ==
  /\ task = "resubscribe" /\ task' = "start" /\ Connected
  /\ granted' = IF tls = "up" THEN subs ELSE granted
  /\ UNCHANGED <<keep_running, tls, caller, rx, sub, topic, subs, losses>>

(* Mutant: the thread is started when the connection is up, before the     *)
(* state says so.                                                          *)
StartRx_m == rx' = IF rx = "none" /\ cstate # "CONNECTED" THEN "loop" ELSE rx
StartRx   == rx' = "loop"
Restart == /\ task = "start" /\ task' = "none" /\ StartRx
           /\ UNCHANGED <<cstate, keep_running, tls, caller, sub, topic, subs, granted,
                          losses>>

(* aws_iot_subscribe: the entry under the lock; the state without it; the  *)
(* request; and its answer, for which it reads from the same connection.   *)
aws_iot_subscribe ==
  /\ \/ /\ sub = "idle" /\ task # "resubscribe" /\ topic \notin subs
        /\ subs' = subs \cup {topic} /\ sub' = "registered" /\ UNCHANGED granted
     \/ /\ sub = "registered" /\ UNCHANGED <<subs, granted>>
        /\ sub' = IF cstate = "CONNECTED" THEN "send" ELSE "idle"
     \/ /\ sub = "send" /\ sub' = (IF tls = "up" THEN "suback" ELSE "idle")
        /\ granted' = (IF tls = "up" THEN granted \cup {topic} ELSE granted)
        /\ UNCHANGED subs
     \/ sub = "suback" /\ sub' = "idle" /\ UNCHANGED <<subs, granted>>
     \/ sub = "hung" /\ tls # "up" /\ sub' = "idle" /\ UNCHANGED <<subs, granted>>
  /\ topic' \in IF sub' = "idle" THEN Topic ELSE {topic}
  /\ UNCHANGED <<cstate, keep_running, tls, caller, rx, task, losses>>

-----------------------------------------------------------------------------
\* What both clients write and read

(* build_credentials: the client id adds 56 bytes to the names, the user   *)
(* name one, and the password is the Base64 form of 20 bytes.              *)
build_credentials(size) == [client_id |-> size + 56, username |-> size + 1, password |-> 28]

(* The CONNECT packet has one byte for its length: what does not fit into  *)
(* seven bits is cut off.  The broker answers only a packet it understands.*)
Remaining(c) == 10 + (2 + c.client_id) + (2 + c.username) + (2 + c.password)
Announced(c) == Remaining(c) % 128
Understood == LET c == build_credentials(names) IN Announced(c) = Remaining(c)

(* tls_connect and mqtt_connect: a new connection starts in step.  Then    *)
(* mqtt_subscribe takes the next five bytes for its SUBACK, and the broker *)
(* may send a PUBLISH earlier.                                             *)
Opening == tls # "up" /\ tls' = "up"
Subscribes == caller = "opened" \/ (task = "resubscribe" /\ subs # {})
mqtt_connect == /\ Opening => Understood
                /\ packet' = (IF Opening THEN 0 ELSE packet)
                /\ \/ Opening /\ instep' = TRUE /\ mixed' = FALSE
                   \/ ~Opening /\ UNCHANGED <<instep, mixed>>
                   \/ ~Opening /\ Subscribes /\ instep' = FALSE /\ mixed' = TRUE

aliyun_iot_connect == Connect /\ mqtt_connect /\ UNCHANGED names
aliyun_iot_disconnect == Disconnect /\ UNCHANGED lengths
aliyun_iot_subscribe == /\ aws_iot_subscribe /\ UNCHANGED <<names, packet, instep>>
                        /\ mixed' = IF sub' = "suback" THEN TRUE ELSE mixed

(* The subscriber and rx_loop read from one stream: five bytes of another  *)
(* packet go to the subscriber, or the two threads share the SUBACK.  Only *)
(* a packet of five bytes leaves both in step.                             *)
mqtt_subscribe ==
  /\ sub \in {"suback", "hung"} /\ tls = "up"
  /\ packet # 0 \/ (sub = "suback" /\ rx = "loop")
  /\ sub' \in {"idle", "hung"} /\ packet' \in {0, packet} /\ instep' \in {FALSE, instep}
  /\ topic' \in IF sub' = "idle" THEN Topic ELSE {topic}
  /\ UNCHANGED <<cstate, keep_running, tls, caller, rx, task, subs, granted, losses, names,
                 mixed>>
reconnect_task ==
  /\ Wait \/ Resubscribe \/ Restart \/ \E done \in BOOLEAN : Attempt(done)
  /\ mqtt_connect /\ UNCHANGED names

(* The length in front of a packet, seven bits a byte, lowest first.       *)
Place == <<1, 128, 16384, 2097152, 268435456>>
mqtt_enc_remlen(len) ==
  LET count == CHOOSE i \in 1..4 : /\ len < Place[i + 1]
                                   /\ \A j \in 1..i - 1 : len >= Place[j + 1]
  IN [i \in 1..count |-> (len \div Place[i]) % 128]

(* Mutant: the factor of a digit is not multiplied.                        *)
Decoded_m(bytes) == LET Value(i) == IF i \in DOMAIN bytes THEN bytes[i] ELSE 0
                    IN Value(1) + Value(2) + Value(3) + Value(4)
(* The reader's factor is a uint8_t: 1, 128, and 0 from the third byte on. *)
Decoded(bytes) == LET Value(i) == IF i \in DOMAIN bytes THEN bytes[i] ELSE 0
                      Factor(i) == Place[i] % 256
                  IN Value(1) + Value(2) * Factor(2) + Value(3) * Factor(3)
                     + Value(4) * Factor(4)

BUFFER == 4096 + 256

(* The cloud sends a packet on a connection that is up.                    *)
Send == /\ tls = "up" /\ packet = 0 /\ packet' \in PacketSize
        /\ UNCHANGED <<client, names, instep, mixed>>

Failed == /\ rx' = "none"
          /\ cstate' = IF cstate = "CONNECTED" THEN "RECONNECTING" ELSE cstate

(* rx_loop reads as many bytes as the length says, or gives up when they   *)
(* are more than the buffer holds; out of step it reads whatever there is. *)
Receive ==
  /\ rx = "loop" /\ tls = "up" /\ packet # 0 /\ packet' = 0
  /\ keep_running /\ cstate = "CONNECTED"
  /\ LET bytes == mqtt_enc_remlen(packet)
         n == Decoded(bytes)
     IN \/ instep /\ n + 1 + Len(bytes) > BUFFER /\ Failed /\ UNCHANGED instep
        \/ /\ instep /\ n + 1 + Len(bytes) <= BUFFER
           /\ instep' = (n = packet) /\ UNCHANGED <<rx, cstate>>
        \/ ~instep /\ UNCHANGED <<rx, cstate, instep>>
        \/ ~instep /\ Failed /\ UNCHANGED instep
  /\ UNCHANGED <<keep_running, tls, caller, task, sub, topic, subs, granted, losses, names,
                 mixed>>

Next == \/ aliyun_iot_connect \/ aliyun_iot_disconnect \/ aliyun_iot_subscribe
        \/ mqtt_subscribe \/ reconnect_task \/ Send \/ Receive
        \/ (Lose \/ rx_loop) /\ UNCHANGED lengths
Spec == Init /\ [][Next]_vars

(* An attempt that the broker accepts.  Fairness: the task is scheduled,   *)
(* and of its attempts some succeed.                                       *)
Succeeds == Attempt(TRUE) /\ mqtt_connect /\ UNCHANGED names
-----------------------------------------------------------------------------
TypeOK ==
  /\ cstate \in {"DISCONNECTED", "CONNECTING", "CONNECTED", "RECONNECTING", "DISCONNECTING"}
  /\ keep_running \in BOOLEAN /\ tls \in {"none", "up", "lost"}
  /\ caller \in {"idle", "connecting", "opened", "start", "up", "closing", "closed"}
  /\ rx \in {"none", "loop"} /\ task \in {"none", "wait", "attempt", "resubscribe", "start"}
  /\ sub \in {"idle", "registered", "send", "suback", "hung"}
  /\ topic \in Topic /\ subs \subseteq Topic /\ granted \subseteq Topic
  /\ names \in NameSize /\ packet \in PacketSize \cup {0} /\ instep \in BOOLEAN
  /\ mixed \in BOOLEAN

(* A CONNECTED client that is not being stopped has its reading thread, or *)
(* is about to start it: otherwise no loss would ever be noticed.          *)
ConnectedIsRead ==
  cstate = "CONNECTED" /\ keep_running => rx = "loop" \/ task = "start" \/ caller = "start"

(* After a reconnection the broker has every registered topic, also one    *)
(* registered while the connection was made.                               *)
ReconnectRestores ==
  task = "start" /\ tls = "up" /\ keep_running /\ sub \in {"idle", "suback", "hung"}
  => subs \subseteq granted

(* The first connection that fails is tried again until it succeeds.       *)
FirstIsRetried == task = "wait" ~> cstate = "CONNECTED" \/ ~keep_running

(* aws_iot.c:483: an error of the reading thread triggers a reconnection.  *)
LossIsRepaired == cstate = "RECONNECTING" ~> cstate = "CONNECTED" \/ ~keep_running

(* aws_iot.c:421, "parse one inbound packet": the reader is always at the  *)
(* place where a packet starts.                                            *)
AtPacketStart == (\A n \in PacketSize : n < 16384) => instep

(* What is kept of it: a packet is read to its end or ends the connection, *)
(* through losses and reconnections, as long as the cloud sends packets of *)
(* less than 16 KiB, whose length has two bytes, and none to a connection  *)
(* on which somebody waits for a SUBACK.                                   *)
StaysInStep == AtPacketStart \/ mixed

(* aliyun_iot.c:290: the remaining length is "<128".                       *)
ConnectIsShort == caller = "connecting" => Understood
=============================================================================
