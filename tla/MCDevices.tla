----------------------------- MODULE MCDevices ------------------------------
(***************************************************************************)
(* A test bench for what serves the rest of the robot and shares no state  *)
(* with it, in one of fifteen set-ups that is chosen at the start: the     *)
(* brushes, the fan and the coordination of the motors on the M7; the      *)
(* redundancy check and the fault injection of the M4; the event files,    *)
(* the trace ring, the crash dumps and the run times; the diagnostic       *)
(* service and the drives on the field bus; the PLC, the Tuya module and   *)
(* the agreement on a protocol version.                                    *)
(***************************************************************************)
EXTENDS Integers, Sequences

CONSTANTS
  MotorGap, SIDE_STALL_TIME, SideRelease, SIDE_RAMP, SideCap,             \* side
  SIDE_SPEED_MIN, SIDE_SPEED_MAX, SideSpeed,
  ROLLER_STALL_TIME, RollerRelease, ROLLER_CARPET_DEBOUNCE,               \* roller
  FanLevels, FanMin, FanDefault, BaselineTime, DUST_FULL_DEBOUNCE,        \* fan
  NUM_MOTORS, IqMax, Budget, Iq,                                          \* coordinator
  Pair, DISAGREE_DEBOUNCE, DEGRADED_DEBOUNCE, SAFESTOP_DEBOUNCE,          \* redundancy
  RED_RECOVERY, RedGap,
  Injector, Delay, MaxTriggers,                                           \* injection
  EVENTS_MAX_FILES, FileCap, MaxSeen, MaxOpens, MaxClock,                 \* events
  TRACE_BUFFER_SIZE, MaxPushes, MaxCrashes,                               \* trace, dump
  Task, PERF_MAX_TASKS, MaxTime,                                          \* times
  Dtc, DTC_SLOTS, OccurrenceWidth,                                        \* uds
  Drive, OtherDrive, MODBUS_RETRY_COUNT, MaxTransactions,                 \* modbus
  Assembly, MaxRequests, MaxQueue,                                        \* plc
  Dp, MaxFrames, TUYA_HEARTBEAT_INTERVAL,                                 \* tuya
  Version, max_retries, MaxOnWay                                          \* versions

VARIABLES
  setup,
  side, side_stuck, roller, roller_stuck, fan, risen, mot, active, agreed,
  red, disagreed, fault, totals,
  files, current, size, opens, clock, extra,
  ring, write_index, event_count, pushed,
  dump, saved, apc, read, crashes, logged, unwritten, missed,
  tasks, runtime, uptime, on_cpu, ran,
  session, table, initialized, uds_answer, faults,
  modbus_pc, request, retry, line, result, transactions,
  tcp, udp, eip, eip_pc, io, input, output, stream, port, requests, eip_answer, lost,
  uart, tstate, running, reader, wire, todo, frames, dp, beat, out, applied,
  g_supported_versions, g_ctx, proto_pc, on_way

Motor == INSTANCE Motors WITH MaxGap <- MotorGap
Check == INSTANCE SafetyChecks
Log   == INSTANCE Logging WITH ctx <- dump, table <- tasks, running <- on_cpu
Field == INSTANCE FieldBus WITH answer <- uds_answer, pc <- modbus_pc
Peer  == INSTANCE PeerProtocols WITH pc <- proto_pc

\* The values of the run that are no numbers or sets of names
SideSpeeds    == [NORMAL |-> 25, WALL |-> 18, OPEN |-> 30, CORNER |-> 15]
IqLimits      == <<2, 1>>
IqSamples     == {-3, 0, 2}
InjectorDelay == [now |-> 0, later |-> 2, condition |-> -1]

ASSUME SetupAssumption ==
  /\ Motor!MotorsAssumption /\ Check!ChecksAssumption /\ Log!LoggingAssumption
  /\ Field!FieldBusAssumption /\ Peer!PeerAssumption

motorvars == <<side, side_stuck, roller, roller_stuck, fan, risen, mot, active, agreed>>
checkvars == <<red, disagreed, fault, totals>>
logvars   == <<files, current, size, opens, clock, extra, ring, write_index, event_count,
               pushed, dump, saved, apc, read, crashes, logged, unwritten, missed, tasks,
               runtime, uptime, on_cpu, ran>>
fieldvars == <<session, table, initialized, uds_answer, faults, modbus_pc, request, retry,
               line, result, transactions, tcp, udp, eip, eip_pc, io, input, output,
               stream, port, requests, eip_answer, lost>>
tuyavars  == <<uart, tstate, running, reader, wire, todo, frames, dp, beat, out, applied>>
protovars == <<g_supported_versions, g_ctx, proto_pc, on_way>>
vars == <<setup, motorvars, checkvars, logvars, fieldvars, tuyavars, protovars>>

MotorSetups == {"side", "roller", "fan", "coordinator"}
CheckSetups == {"redundancy", "injection"}
LogSetups   == {"events", "trace", "dump", "times"}
FieldSetups == {"uds", "modbus", "plc"}

Init ==
  /\ setup \in MotorSetups \cup CheckSetups \cup LogSetups \cup FieldSetups
                 \cup {"tuya", "versions"}
  /\ Motor!Init /\ Check!Init /\ Log!Init /\ Field!Init /\ Peer!Init
  /\ setup # "versions" =>
       g_supported_versions = [e \in Peer!End |-> CHOOSE l \in Peer!supported_versions : TRUE]

(* What is not set up stays as it is.                                      *)
Parked ==
  /\ UNCHANGED setup
  /\ setup \notin MotorSetups => UNCHANGED motorvars
  /\ setup \notin CheckSetups => UNCHANGED checkvars
  /\ setup \notin LogSetups => UNCHANGED logvars
  /\ setup \notin FieldSetups => UNCHANGED fieldvars
  /\ setup # "tuya" => UNCHANGED tuyavars
  /\ setup # "versions" => UNCHANGED protovars

Next ==
  \/ setup = "side" /\ Motor!SideNext /\ Parked
  \/ setup = "roller" /\ Motor!RollerNext /\ Parked
  \/ setup = "fan" /\ Motor!FanNext /\ Parked
  \/ setup = "coordinator" /\ Motor!CoordNext /\ Parked
  \/ setup = "redundancy" /\ Check!RedNext /\ Parked
  \/ setup = "injection" /\ Check!FaultNext /\ Parked
  \/ setup = "events" /\ Log!EventNext /\ Parked
  \/ setup = "trace" /\ Log!TraceNext /\ Parked
  \/ setup = "dump" /\ Log!CrashNext /\ Parked
  \/ setup = "times" /\ Log!PerfNext /\ Parked
  \/ setup = "uds" /\ Field!UdsNext /\ Parked
  \/ setup = "modbus" /\ Field!ModbusNext /\ Parked
  \/ setup = "plc" /\ Field!EipNext /\ Parked
  \/ setup = "tuya" /\ Peer!TuyaNext /\ Parked
  \/ setup = "versions" /\ Peer!ProtoNext /\ Parked

Spec == Init /\ [][Next]_vars
-----------------------------------------------------------------------------
(* Every variable of these parts stays in its type.                        *)
TypeOK ==
  /\ Motor!TypeOK /\ Check!TypeOK /\ Log!TypeOK /\ Field!TypeOK
  /\ Peer!TypeOK

(* A brush that is blocked in every sample is stopped in time, over stops  *)
(* in between; the fan reaches its range before it gets its power; what    *)
(* the motors may ask for adds up to no more than the budget; and no fault *)
(* is judged that was not injected.                                        *)
MotorsAndChecks ==
  /\ Motor!StallStopsBrush /\ Motor!FanInRange /\ Motor!AllocationHolds
  /\ Check!VerdictsNeedTriggers

(* roller_brush.c:177: a stall needs its condition for more than 500 ms.   *)
StallNeedsTime == Motor!StallNeedsTime

(* vacuum_fan.c:202-204: a bin is full after the debounce period only.     *)
FullIsDebounced == Motor!FullIsDebounced

(* The records are about what happened: the event files stay bounded, a    *)
(* dump of the ring is its newest part, every crash that was read and      *)
(* could be written is reported, and the times of the tasks add up.        *)
LogsHold ==
  /\ Log!FilesBounded /\ Log!DumpIsLast /\ Log!CrashReported /\ Log!TimesAddUp

(* event_logger.c:127: a rotation keeps only the newest files.             *)
NewestAreKept == Log!NewestAreKept

(* crash_dump.c:361-366: an analysis that succeeds has written its entry.  *)
SuccessIsLogged == Log!SuccessIsLogged

(* crash_dump.c:148: what an analysis clears, it has read.                 *)
ConsumedIsRead == Log!ConsumedIsRead

(* Both ends of a link agree: on the faults that are kept, on the drive    *)
(* that answered, on the socket that is open and the request an answer is  *)
(* for, on the commands of the Tuya module and on the newest version both  *)
(* know.                                                                   *)
EndsAgree ==
  /\ Field!FaultsAreKept /\ Field!AnswerOfTheDrive
  /\ Field!ThreadHasSocket /\ Field!AnswersMatch
  /\ Peer!CommandsInOrder /\ Peer!NewestInCommon
=============================================================================
