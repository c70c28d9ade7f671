------------------------------ MODULE FieldBus ------------------------------
(***************************************************************************)
(* The field-bus clients of l2_rk3566/src/comm: the UDS server of uds.c,   *)
(* with its table of trouble codes; the Modbus master of modbus_rtu.c,     *)
(* whose answers may come later than it waits for them; and the adapter to *)
(* a factory's PLC of ethernet_ip.c: a TCP stream for requests and a UDP   *)
(* port for the cyclic data, which a thread exchanges until                *)
(* ethernet_ip_disconnect waits for its end.  The drives, the PLC, the     *)
(* sockets and a caller that connects only when it is not connected are    *)
(* external.                                                               *)
(*                                                                         *)
(* A CAN frame has 8 bytes, so that an answer carries the service, and of  *)
(* a list of trouble codes the number and the first one.  Left out of      *)
(* EtherNet/IP: the path of a request and the numbers of session,          *)
(* connection and datagram, which the adapter writes and never compares.   *)
(***************************************************************************)
EXTENDS Naturals, Sequences, SequencesExt

CONSTANTS Dtc, DTC_SLOTS,      \* trouble codes; entries of g_dtc_table
          OccurrenceWidth,     \* bits of occurrence_count (16)
          Drive, OtherDrive,   \* the drives of the bus, by address
          MODBUS_RETRY_COUNT,
          MaxTransactions,     \* bound: calls of modbus_transaction
          Assembly,            \* values of the PLC's assembly data
          MaxRequests,         \* bound: explicit requests to the PLC
          MaxQueue             \* bound: datagrams and answers waiting

FieldBusAssumption ==
  /\ DTC_SLOTS \in Nat \ {0} /\ OccurrenceWidth \in Nat \ {0}
  /\ MODBUS_RETRY_COUNT \in Nat \ {0} /\ MaxTransactions \in Nat
  /\ OtherDrive \in Drive
  /\ MaxRequests \in Nat /\ MaxQueue \in Nat \ {0}
  /\ Assembly # {} /\ "none" \notin Assembly

VARIABLES
  session, table, initialized,   \* g_current_session, g_dtc_table, g_initialized
  answer,                        \* the last frame uds_poll sent
  faults,                        \* history: codes taken since the last clear
  pc, request, retry,            \* modbus_transaction
  line,                          \* answers on their way on the RS-485 line
  result, transactions,          \* what the last one returned; how many there were
  tcp, udp,                      \* ethernet_ip.c: the sockets are open
  eip,                           \* connected, io_active, keep_running
  eip_pc,                        \* its caller: which answer it waits for, or "join"
  io,                            \* io_thread: "none" or the step it is at
  input, output,                 \* the assembly data, and where the output is from
  stream, port,                  \* what waits at the two sockets
  requests, eip_answer,          \* explicit requests sent, and the last answer's
  lost                           \* history: a request was given up
udsvars == <<session, table, initialized, answer, faults>>
modbusvars == <<pc, request, retry, line, result, transactions>>
eipvars == <<tcp, udp, eip, eip_pc, io, input, output, stream, port, requests,
             eip_answer, lost>>
vars == <<udsvars, modbusvars, eipvars>>

-----------------------------------------------------------------------------
\* uds.c

DEFAULT == 1
PROGRAMMING == 2
EXTENDED == 3
SAFETY == 4
NoSession == 9                   \* any byte that is no session
Sessions == {DEFAULT, PROGRAMMING, EXTENDED, SAFETY}

Empty == <<>>
Positive(sid, bytes) ==
  [positive |-> TRUE, sid |-> sid, nrc |-> "none", bytes |-> bytes, dtc |-> Empty]
Negative(nrc) ==
  [positive |-> FALSE, sid |-> "7F", nrc |-> nrc, bytes |-> Empty, dtc |-> Empty]

UDS_Init == /\ session = DEFAULT /\ table = Empty /\ initialized = FALSE
            /\ answer = Negative("none") /\ faults = {}

uds_init == /\ initialized' = TRUE /\ session' = DEFAULT /\ table' = Empty
            /\ faults' = {} /\ UNCHANGED answer
uds_shutdown == initialized /\ initialized' = FALSE
                /\ UNCHANGED <<session, table, answer, faults>>

(* Mutant: the table is not searched for the code.                         *)
Entry_m(dtc) == {}
Entry(dtc) == {i \in DOMAIN table : table[i].dtc = dtc}

(* uds_dtc_set, which works before uds_init too: the code's entry, or a    *)
(* new one, or -ENOSPC.  Nothing ever takes a single code out again.       *)
uds_dtc_set(dtc) ==
  /\ \/ \E i \in Entry(dtc) :
          table' = [table EXCEPT ![i].occurrence_count = (@ + 1) % 2 ^ OccurrenceWidth]
     \/ /\ Entry(dtc) = {} /\ Len(table) < DTC_SLOTS
        /\ table' = Append(table, [dtc |-> dtc, occurrence_count |-> 1])
  /\ faults' = faults \cup {dtc}
  /\ UNCHANGED <<session, initialized, answer>>

uds_dtc_clear == table' = Empty /\ faults' = {}

handle_session_control(req) ==
  /\ UNCHANGED <<table, faults>>
  /\ \/ req.len < 1 /\ answer' = Negative("length") /\ UNCHANGED session
     \/ /\ req.len >= 1 /\ req.byte \notin Sessions
        /\ answer' = Negative("subfunction") /\ UNCHANGED session
     \/ /\ req.len >= 1 /\ req.byte \in Sessions /\ session' = req.byte
        /\ answer' = Positive(req.sid, <<req.byte>>)

(* The reset is only announced: "scheduled" is a line of text.             *)
handle_ecu_reset(req) ==
  /\ UNCHANGED <<session, table, faults>>
  /\ answer' = IF req.len < 1 THEN Negative("length")
               ELSE IF req.byte \notin 1..3 THEN Negative("subfunction")
               ELSE Positive(req.sid, <<req.byte>>)

handle_read_data_by_id(req) ==
  /\ UNCHANGED <<session, table, faults>>
  /\ answer' = IF req.len < 2 THEN Negative("length")
               ELSE IF req.did = "session" THEN Positive(req.sid, <<session>>)
               ELSE IF req.did = "fixed" THEN Positive(req.sid, Empty)
               ELSE Negative("range")

(* Identifier F194 sets the session to the byte, whatever it is.           *)
handle_write_data_by_id(req) ==
  /\ UNCHANGED <<table, faults>>
  /\ LET refused == req.len < 2 \/ session < EXTENDED \/ req.did # "session" IN
     /\ session' = IF ~refused /\ req.len >= 3 THEN req.byte ELSE session
     /\ answer' = IF req.len < 2 THEN Negative("length")
                  ELSE IF session < EXTENDED THEN Negative("conditions")
                  ELSE IF req.did # "session" THEN Negative("range")
                  ELSE Positive(req.sid, Empty)

handle_clear_dtc(req) ==
  uds_dtc_clear /\ answer' = Positive(req.sid, Empty) /\ UNCHANGED session

(* The number of codes and the codes; a frame has room for one of them.    *)
handle_read_dtc(req) ==
  /\ UNCHANGED <<session, table, faults>>
  /\ answer' = IF req.len < 1 THEN Negative("length")
               ELSE [Positive(req.sid, <<Len(table)>>) EXCEPT
                       !.dtc = IF table = Empty THEN Empty ELSE <<table[1].dtc>>]

Handler(req) ==
  CASE req.sid = "session" -> handle_session_control(req)
    [] req.sid = "reset"   -> handle_ecu_reset(req)
    [] req.sid = "read"    -> handle_read_data_by_id(req)
    [] req.sid = "write"   -> handle_write_data_by_id(req)
    [] req.sid = "clear"   -> handle_clear_dtc(req)
    [] req.sid = "codes"   -> handle_read_dtc(req)
    [] OTHER -> answer' = Negative("service") /\ UNCHANGED <<session, table, faults>>

Request == [sid : {"session", "reset", "read", "write", "clear", "codes", "other"},
            len : 0..3, did : {"session", "fixed", "other"},
            byte : Sessions \cup {NoSession}]

(* uds_poll with a request of the tester; it answers only when initialized,*)
(* but the table is kept over uds_shutdown.                                *)
uds_poll == initialized /\ UNCHANGED initialized /\ \E req \in Request : Handler(req)

UdsNext == (uds_init \/ uds_shutdown \/ uds_poll \/ \E dtc \in Dtc : uds_dtc_set(dtc))
           /\ UNCHANGED <<modbusvars, eipvars>>

-----------------------------------------------------------------------------
\* modbus_rtu.c

None == [drive |-> OtherDrive, func |-> "none"]

Modbus_Init == /\ pc = "idle" /\ request = None /\ retry = 0 /\ line = <<>>
               /\ result = [ok |-> FALSE, drive |-> OtherDrive, func |-> "none", of |-> None]
               /\ transactions = 0

(* modbus_read_registers, modbus_write_register and modbus_write_registers *)
(* enter modbus_transaction; its lock lets one in at a time.               *)
Start(drive, func) ==
  /\ pc = "idle" /\ transactions < MaxTransactions
  /\ request' = [drive |-> drive, func |-> func]
  /\ pc' = "send" /\ retry' = 0 /\ transactions' = transactions + 1
  /\ UNCHANGED <<line, result>>

(* modbus_send, which may fail; the drive, if the request reaches it,      *)
(* answers or reports an exception: at once, late, or never.  What comes   *)
(* is queued behind what is still on its way.                              *)
Answers(req) == {[drive |-> req.drive, func |-> f, of |-> req] : f \in {req.func, "exception"}}
modbus_send ==
  /\ pc = "send"
  /\ \/ pc' = "failed" /\ UNCHANGED line
     \/ /\ pc' = "receive"
        /\ \/ UNCHANGED line
           \/ \E a \in Answers(request) : line' = Append(line, a)
  /\ UNCHANGED <<request, retry, result, transactions>>

(* Mutant: an answer of any drive will do.                                 *)
Accepted_m(a) == a.func # "exception"
Accepted(a) == a.func # "exception" /\ a.drive = request.drive

(* The callers check the function code of what the transaction returns.    *)
(* Nobody checks which register a value comes from: an answer has no such  *)
(* field, and that of an earlier read may still have been on the line.     *)
Returned(a) == [ok |-> Accepted(a) /\ a.func = request.func,
                drive |-> a.drive, func |-> a.func, of |-> a.of]

(* modbus_receive: something readable, or nothing: the clock has whole     *)
(* seconds, so that the wait of 100 ms ends after anything up to a second, *)
(* also while the answer is still to come.  An exception ends the          *)
(* transaction whichever drive it comes from; another drive's answer, a    *)
(* damaged one or none costs an attempt.                                   *)
modbus_receive ==
  /\ pc = "receive"
  /\ \/ /\ line # <<>> /\ line' = Tail(line)
        /\ LET a == Head(line) IN
             IF Accepted(a) \/ a.func = "exception"
             THEN pc' = "idle" /\ result' = Returned(a)
             ELSE pc' = "failed" /\ UNCHANGED result
     \/ /\ line # <<>> /\ line' = Tail(line)       \* damaged
        /\ pc' = "failed" /\ UNCHANGED result
     \/ pc' = "failed" /\ UNCHANGED <<line, result>>
  /\ UNCHANGED <<request, retry, transactions>>

(* The next attempt, or -1 after the last.                                 *)
Retry ==
  /\ pc = "failed" /\ retry' = retry + 1
  /\ IF retry + 1 < MODBUS_RETRY_COUNT
     THEN pc' = "send" /\ UNCHANGED result
     ELSE /\ pc' = "idle"
          /\ result' = [ok |-> FALSE, drive |-> request.drive, func |-> "none", of |-> request]
  /\ UNCHANGED <<request, line, transactions>>

ModbusNext ==
  /\ \/ \E drive \in Drive, func \in {"read", "write", "writes"} : Start(drive, func)
     \/ modbus_send \/ modbus_receive \/ Retry
  /\ UNCHANGED <<udsvars, eipvars>>

-----------------------------------------------------------------------------
\* ethernet_ip.c

NoData == [from |-> "none", data |-> "none"]
Datagram == [from : {"plc", "robot"}, data : Assembly]

(* ethernet_ip_init.                                                       *)
EIP_Init == /\ tcp = FALSE /\ udp = FALSE /\ eip_pc = "idle" /\ io = "none"
            /\ eip = [connected |-> FALSE, io_active |-> FALSE, keep_running |-> TRUE]
            /\ input = "none" /\ output = NoData
            /\ stream = <<>> /\ port = <<>> /\ requests = 0 /\ eip_answer = 0 /\ lost = FALSE

(* eip_encap_send of the session's, the connection's or the n-th request;  *)
(* the PLC answers in its own time, see PlcAnswers.                        *)
eip_encap_send(n) == stream' = Append(stream, [of |-> n, arrived |-> FALSE])

(* eip_encap_recv: the next answer.  One that is of another command, has   *)
(* an error status or is cut short is taken from the stream and fails;     *)
(* nothing in it tells which request it is for.                            *)
eip_encap_recv == stream # <<>> /\ Head(stream).arrived

(* ethernet_ip_connect: the stream, then eip_register_session.             *)
ethernet_ip_connect ==
  /\ eip_pc = "idle" /\ ~eip.connected /\ tcp' = TRUE /\ eip_pc' = "session"
  /\ stream' = <<[of |-> "session", arrived |-> FALSE]>>
  /\ UNCHANGED <<udp, eip, io, input, output, port, requests, eip_answer, lost>>

(* The session is there: the port is opened, then eip_forward_open.        *)
eip_register_session ==
  /\ eip_pc = "session" /\ eip_encap_recv
  /\ udp' = TRUE /\ port' = <<>> /\ eip_pc' = "open"
  /\ stream' = Append(Tail(stream), [of |-> "open", arrived |-> FALSE])
  /\ UNCHANGED <<tcp, eip, io, input, output, requests, eip_answer, lost>>

(* The connection is open, and the thread starts.                          *)
eip_forward_open ==
  /\ eip_pc = "open" /\ eip_encap_recv /\ stream' = Tail(stream)
  /\ eip' = [eip EXCEPT !.connected = TRUE, !.io_active = TRUE]
  /\ io' = "loop" /\ eip_pc' = "idle"
  /\ UNCHANGED <<tcp, udp, input, output, port, requests, eip_answer, lost>>

(* Any step of it fails, or five seconds pass: what is open is closed.     *)
Fails ==
  /\ eip_pc \in {"session", "open"} /\ eip_pc' = "idle"
  /\ tcp' = FALSE /\ udp' = FALSE /\ stream' = <<>> /\ port' = <<>>
  /\ UNCHANGED <<eip, io, input, output, requests, eip_answer, lost>>

(* Mutant: the sockets are closed before the thread has ended.             *)
Joined_m == TRUE
Joined   == io = "none"

(* ethernet_ip_disconnect.  keep_running is set again only by init: the    *)
(* thread of a later connection ends at once.                              *)
ethernet_ip_disconnect ==
  \/ /\ eip_pc = "idle" /\ eip.connected /\ eip_pc' = "join"
     /\ eip' = [eip EXCEPT !.keep_running = FALSE, !.io_active = FALSE]
     /\ UNCHANGED <<tcp, udp, io, input, output, stream, port, requests, eip_answer, lost>>
  \/ /\ eip_pc = "join" /\ Joined /\ eip_pc' = "idle"
     /\ tcp' = FALSE /\ udp' = FALSE /\ stream' = <<>> /\ port' = <<>>
     /\ eip' = [eip EXCEPT !.connected = FALSE]
     /\ UNCHANGED <<io, input, output, requests, eip_answer, lost>>

(* eip_io_loop; the sleep is a step of its own as anything may happen then.*)
eip_io_loop ==
  /\ io = "loop"
  /\ io' = IF eip.keep_running /\ eip.io_active THEN "send" ELSE "none"
  /\ UNCHANGED <<tcp, udp, eip, eip_pc, input, output, stream, port, requests, eip_answer, lost>>

(* eip_send_io_data.  The address of the PLC was never filled in: the      *)
(* datagram goes to our own port, if anywhere.                             *)
eip_send_io_data ==
  /\ io = "send" /\ io' = "recv"
  /\ \/ /\ eip.io_active /\ Len(port) < MaxQueue
        /\ port' = Append(port, [from |-> "robot", data |-> input])
     \/ UNCHANGED port
  /\ UNCHANGED <<tcp, udp, eip, eip_pc, input, output, stream, requests, eip_answer, lost>>

(* eip_recv_io_data: waits for a datagram, from anyone; a header alone     *)
(* leaves the output as it is.                                             *)
eip_recv_io_data ==
  /\ io = "recv" /\ io' = "loop" /\ port # <<>> /\ port' = Tail(port)
  /\ output' = IF Head(port).data = "none" THEN output ELSE Head(port)
  /\ UNCHANGED <<tcp, udp, eip, eip_pc, input, stream, requests, eip_answer, lost>>

ethernet_ip_set_input_assembly ==
  /\ input' \in Assembly
  /\ UNCHANGED <<tcp, udp, eip, eip_pc, io, output, stream, port, requests, eip_answer, lost>>
ethernet_ip_get_output_assembly == output.data

(* ethernet_ip_explicit_msg: the request, then the next answer, one that   *)
(* fails, or five seconds without one.                                     *)
ethernet_ip_explicit_msg ==
  /\ \/ /\ eip_pc = "idle" /\ eip.connected /\ requests < MaxRequests
        /\ requests' = requests + 1 /\ eip_encap_send(requests')
        /\ eip_pc' = "answer" /\ UNCHANGED <<eip_answer, lost>>
     \/ /\ eip_pc = "answer" /\ eip_encap_recv
        /\ eip_answer' = Head(stream).of /\ stream' = Tail(stream)
        /\ eip_pc' = "idle" /\ UNCHANGED <<requests, lost>>
     \/ /\ eip_pc = "answer" /\ lost' = TRUE /\ eip_pc' = "idle"
        /\ stream' = IF eip_encap_recv THEN Tail(stream) ELSE stream
        /\ UNCHANGED <<requests, eip_answer>>
  /\ UNCHANGED <<tcp, udp, eip, io, input, output, port>>

\* external: the PLC answers requests in their order, and sends its data
PlcAnswers ==
  /\ \E i \in DOMAIN stream :
       /\ ~stream[i].arrived /\ \A j \in 1..(i - 1) : stream[j].arrived
       /\ stream' = [stream EXCEPT ![i].arrived = TRUE]
  /\ UNCHANGED <<tcp, udp, eip, eip_pc, io, input, output, port, requests, eip_answer, lost>>
PlcSends ==
  /\ udp /\ Len(port) < MaxQueue
  /\ \E a \in Assembly : port' = Append(port, [from |-> "plc", data |-> a])
  /\ UNCHANGED <<tcp, udp, eip, eip_pc, io, input, output, stream, requests, eip_answer, lost>>

EipNext ==
  /\ \/ ethernet_ip_connect \/ eip_register_session \/ eip_forward_open \/ Fails
     \/ ethernet_ip_disconnect \/ eip_io_loop \/ eip_send_io_data \/ eip_recv_io_data
     \/ ethernet_ip_set_input_assembly \/ ethernet_ip_explicit_msg
     \/ PlcAnswers \/ PlcSends
  /\ UNCHANGED <<udsvars, modbusvars>>

Init == UDS_Init /\ Modbus_Init /\ EIP_Init
Next == UdsNext \/ ModbusNext \/ EipNext
Spec == Init /\ [][Next]_vars
-----------------------------------------------------------------------------
TypeOK ==
  /\ session \in Sessions \cup {NoSession} /\ initialized \in BOOLEAN
  /\ Len(table) <= DTC_SLOTS /\ \A e \in Range(table) : e.dtc \in Dtc
  /\ answer.positive \in BOOLEAN /\ faults \subseteq Dtc
  /\ pc \in {"idle", "send", "receive", "failed"} /\ retry \in 0..MODBUS_RETRY_COUNT
  /\ transactions \in 0..MaxTransactions
  /\ tcp \in BOOLEAN /\ udp \in BOOLEAN /\ lost \in BOOLEAN
  /\ eip \in [connected : BOOLEAN, io_active : BOOLEAN, keep_running : BOOLEAN]
  /\ eip_pc \in {"idle", "session", "open", "join", "answer"}
  /\ io \in {"none", "loop", "send", "recv"}
  /\ input \in Assembly \cup {"none"} /\ output \in Datagram \cup {NoData}
  /\ Len(port) <= MaxQueue /\ requests \in 0..MaxRequests /\ eip_answer \in 0..MaxRequests

(* Every trouble code that was taken is in the table exactly once until    *)
(* the tester clears it, through sessions and a stopped server; and the    *)
(* number the tester reads is the number of different codes at that time.  *)
FaultsAreKept ==
  /\ {table[i].dtc : i \in DOMAIN table} = faults
  /\ \A i, j \in DOMAIN table : table[i].dtc = table[j].dtc => i = j

(* A call that returns success has an answer of the drive it asked, to a   *)
(* call of the same function; an exception or another drive's late answer  *)
(* never passes for one.                                                   *)
AnswerOfTheDrive ==
  result.ok => /\ result.of.drive = result.drive /\ result.func = result.of.func
               /\ pc = "idle" => result.drive = request.drive /\ result.func = request.func

(* Through connections, their ends and failed attempts, the I/O thread     *)
(* never uses a socket that was closed or a connection that is not open    *)
(* any more; and an answer handed out is the one to the request just made  *)
(* unless an earlier request was given up.                                 *)
ThreadHasSocket == io # "none" => udp /\ tcp /\ eip.connected
AnswersMatch == eip_pc = "idle" /\ ~lost => eip_answer = requests

(* ethernet_ip.c:128 says of output_data that it comes from the PLC to the *)
(* robot.                                                                  *)
OutputIsThePlcs == output.from # "robot"
=============================================================================
