------------------------------- MODULE IpcUsb -------------------------------
(***************************************************************************)
(* The USB transport: shared/src/ipc_usb.c under IPC_Bridge_Run of         *)
(* l1_m7/Core/ipc_bridge.c, the USB interrupt, which may come between any  *)
(* two steps of the bridge, and the host with the client of                *)
(* l2_rk3566/src/comm/ipc_usb_linux.cpp.  Commands and reports are known   *)
(* by their numbers, as in IpcSpi.                                         *)
(***************************************************************************)
EXTENDS Integers

CONSTANTS
  SeqMod,      \* width of gSeq
  Setup        \* set-ups; the fields this transport has a use for:
               \*   cmds    bound: commands the host sends
               \*   faults  bound: bus resets, unpluggings, changes of configuration
               \*   harsh   a reset may come in the middle of usb_recv or usb_send,
               \*           and the host may select configuration 0

UsbAssumption ==
  /\ SeqMod \in Nat /\ SeqMod > 1
  /\ \A s \in Setup : s.cmds \in Nat /\ s.faults \in Nat /\ s.harsh \in BOOLEAN

Bad == 0        \* a command without a valid header or checksum
NoSeq == SeqMod
None == 4       \* not an index of a ring

VARIABLES
  setup,
  gUsbConfigured, gTxHead, gTxTail, gTxBusy, gTxRing,
  gCmdRing, gCmdHead, gCmdTail, gSeq,
  epIn, epOut,   \* the slots handed to the controller, or None
  pc,            \* next step of IPC_Bridge_Run
  tail, next,    \* locals of usb_recv and usb_send
  issued, applied, given,   \* commands: as in CommandLink
  got,           \* last report the host received
  attached,      \* the host has reset the bus since the cable was plugged in
  resets

tx == <<gTxHead, gTxTail, gTxBusy, gTxRing, epIn, got, gSeq>>
rx == <<gCmdRing, gCmdHead, gCmdTail, epOut, issued>>
bridge == <<pc, tail, next, applied, given>>
vars == <<setup, gUsbConfigured, tx, rx, bridge, attached, resets>>

Ring == 0..3
Succ(i) == (i + 1) % 4
Previous(n) == IF n = 0 THEN SeqMod - 1 ELSE n - 1

Init ==
  /\ setup \in Setup
  /\ gUsbConfigured = FALSE
  /\ gTxHead = 0 /\ gTxTail = 0 /\ gTxBusy = FALSE /\ gTxRing = [i \in Ring |-> NoSeq]
  /\ gCmdRing = [i \in Ring |-> Bad] /\ gCmdHead = 0 /\ gCmdTail = 0 /\ gSeq = 0
  /\ epIn = None /\ epOut = None
  /\ pc = "recv" /\ tail = 0 /\ next = 0
  /\ issued = 0 /\ applied = 0 /\ given = 0 /\ got = NoSeq
  /\ attached = FALSE /\ resets = 0
-----------------------------------------------------------------------------
(* Mutant: no command is taken while a report is on its way.               *)
usb_recv_m == /\ pc = "recv"
              /\ IF gUsbConfigured /\ gCmdTail # gCmdHead /\ ~gTxBusy
                 THEN pc' = "commit" /\ tail' = gCmdTail
                 ELSE pc' = "send" /\ UNCHANGED tail
              /\ UNCHANGED <<gUsbConfigured, tx, rx, next, applied, given, attached, resets>>

(* usb_recv reads the tail and copies the command ...                      *)
usb_recv == /\ pc = "recv"
            /\ IF gUsbConfigured /\ gCmdTail # gCmdHead
               THEN pc' = "commit" /\ tail' = gCmdTail
               ELSE pc' = "send" /\ UNCHANGED tail
            /\ UNCHANGED <<gUsbConfigured, tx, rx, next, applied, given, attached, resets>>

(* ... then frees the slot; IPC_Bridge_Run applies the command if it is    *)
(* valid.                                                                  *)
usb_recv_end ==
  /\ pc = "commit" /\ pc' = "send" /\ gCmdTail' = Succ(tail)
  /\ IF gCmdRing[tail] # Bad
     THEN applied' = gCmdRing[tail] /\ given' = given + 1
     ELSE UNCHANGED <<applied, given>>
  /\ UNCHANGED <<gUsbConfigured, tx, gCmdRing, gCmdHead, epOut, issued, tail, next, attached, resets>>

(* The end of IPC_Bridge_Run: usb_ready, the number of the report, and the *)
(* tests of usb_send.                                                      *)
usb_send ==
  /\ pc = "send"
  /\ IF gUsbConfigured /\ ~gTxBusy
     THEN /\ gSeq' = (gSeq + 1) % SeqMod
          /\ IF Succ(gTxHead) # gTxTail
             THEN pc' = "store" /\ next' = Succ(gTxHead)
             ELSE pc' = "recv" /\ UNCHANGED next
     ELSE pc' = "recv" /\ UNCHANGED <<gSeq, next>>
  /\ UNCHANGED <<gUsbConfigured, gTxHead, gTxTail, gTxBusy, gTxRing, epIn, got, rx>>
  /\ UNCHANGED <<tail, applied, given, attached, resets>>

usb_send_store ==
  /\ pc = "store" /\ pc' = "busy"
  /\ gTxRing' = [gTxRing EXCEPT ![gTxHead] = Previous(gSeq)] /\ gTxHead' = next
  /\ UNCHANGED <<gUsbConfigured, gTxTail, gTxBusy, epIn, got, gSeq, rx>>
  /\ UNCHANGED <<tail, next, applied, given, attached, resets>>

usb_send_busy == /\ pc = "busy" /\ pc' = "transmit" /\ gTxBusy' = TRUE
                 /\ UNCHANGED <<gUsbConfigured, gTxHead, gTxTail, gTxRing, epIn, got, gSeq, rx>>
                 /\ UNCHANGED <<tail, next, applied, given, attached, resets>>

(* Mutant: the report that comes next is sent.                             *)
usb_send_transmit_m ==
  /\ pc = "transmit" /\ pc' = "recv"
  /\ \/ epIn' = gTxHead
     \/ ~gUsbConfigured /\ UNCHANGED epIn
  /\ UNCHANGED <<gUsbConfigured, gTxHead, gTxTail, gTxBusy, gTxRing, got, gSeq, rx>>
  /\ UNCHANGED <<tail, next, applied, given, attached, resets>>

(* HAL_PCD_EP_Transmit; on an endpoint that is not open it may be lost.    *)
usb_send_transmit ==
  /\ pc = "transmit" /\ pc' = "recv"
  /\ \/ epIn' = gTxTail
     \/ ~gUsbConfigured /\ UNCHANGED epIn
  /\ UNCHANGED <<gUsbConfigured, gTxHead, gTxTail, gTxBusy, gTxRing, got, gSeq, rx>>
  /\ UNCHANGED <<tail, next, applied, given, attached, resets>>

IPC_Bridge_Run == \/ usb_recv \/ usb_recv_end
                  \/ usb_send \/ usb_send_store \/ usb_send_busy \/ usb_send_transmit
-----------------------------------------------------------------------------
(* Mutant: a full ring is overrun.                                         *)
cdc_data_out_m(valid) ==
  /\ gCmdHead' = IF valid THEN Succ(gCmdHead) ELSE gCmdHead
  /\ epOut' = gCmdHead'

(* A command with the right first byte is queued if there is room.         *)
cdc_data_out(valid) ==
  /\ gCmdHead' = IF valid /\ Succ(gCmdHead) # gCmdTail THEN Succ(gCmdHead) ELSE gCmdHead
  /\ epOut' = gCmdHead'

(* The host sends a command, or something else, to the armed slot.         *)
DataOut ==
  /\ gUsbConfigured /\ epOut # None
  /\ \/ /\ issued < setup.cmds /\ issued' = issued + 1
        /\ gCmdRing' = [gCmdRing EXCEPT ![epOut] = issued'] /\ cdc_data_out(TRUE)
     \/ /\ gCmdRing' = [gCmdRing EXCEPT ![epOut] = Bad] /\ cdc_data_out(FALSE)
        /\ UNCHANGED issued
  /\ UNCHANGED <<gUsbConfigured, tx, gCmdTail, bridge, attached, resets>>

cdc_data_in == gTxBusy' = FALSE /\ gTxTail' = Succ(gTxTail)

(* The host reads the report that the controller holds.                    *)
DataIn == /\ gUsbConfigured /\ epIn # None
          /\ got' = gTxRing[epIn] /\ epIn' = None /\ cdc_data_in
          /\ UNCHANGED <<gUsbConfigured, gTxHead, gTxRing, gSeq, rx, bridge, attached, resets>>

MayInterrupt == setup.harsh \/ pc \in {"recv", "send"}

(* Mutants: the head of the command ring, the busy flag are kept.          *)
cdc_reset_m == /\ gUsbConfigured' = FALSE /\ gTxHead' = 0 /\ gTxTail' = 0 /\ gTxBusy' = FALSE
               /\ gCmdTail' = 0 /\ UNCHANGED gCmdHead
cdc_reset_m2 == /\ gUsbConfigured' = FALSE /\ gTxHead' = 0 /\ gTxTail' = 0 /\ UNCHANGED gTxBusy
                /\ gCmdTail' = 0 /\ gCmdHead' = 0

cdc_reset == /\ gUsbConfigured' = FALSE /\ gTxHead' = 0 /\ gTxTail' = 0 /\ gTxBusy' = FALSE
             /\ gCmdTail' = 0 /\ gCmdHead' = 0

(* A bus reset takes the transfers back from the controller.               *)
Reset == /\ MayInterrupt /\ cdc_reset /\ epIn' = None /\ epOut' = None
         /\ UNCHANGED <<gTxRing, got, gSeq, gCmdRing, issued, bridge>>
Plug == Reset /\ ~attached /\ attached' = TRUE /\ UNCHANGED resets
ResetAgain == Reset /\ attached /\ resets < setup.faults /\ resets' = resets + 1 /\ UNCHANGED attached

(* The cable is pulled.                                                    *)
cdc_disconnect ==
  /\ MayInterrupt /\ attached /\ attached' = FALSE /\ resets < setup.faults /\ resets' = resets + 1
  /\ gUsbConfigured' = FALSE /\ epIn' = None /\ epOut' = None
  /\ UNCHANGED <<gTxHead, gTxTail, gTxBusy, gTxRing, got, gSeq>>
  /\ UNCHANGED <<gCmdRing, gCmdHead, gCmdTail, issued, bridge>>

(* SET_CONFIGURATION with 1 opens the endpoints, with 0 closes them.       *)
Configure == /\ MayInterrupt /\ attached /\ ~gUsbConfigured
             /\ gUsbConfigured' = TRUE /\ epOut' = gCmdHead
             /\ UNCHANGED <<tx, gCmdRing, gCmdHead, gCmdTail, issued, bridge, attached, resets>>

SetConfigurationZero ==
  /\ setup.harsh /\ gUsbConfigured /\ resets < setup.faults /\ resets' = resets + 1
  /\ gUsbConfigured' = FALSE /\ epIn' = None /\ epOut' = None
  /\ UNCHANGED <<gTxHead, gTxTail, gTxBusy, gTxRing, got, gSeq>>
  /\ UNCHANGED <<gCmdRing, gCmdHead, gCmdTail, issued, bridge, attached>>

Usb == \/ DataOut \/ DataIn \/ Configure \/ SetConfigurationZero
       \/ Plug \/ ResetAgain \/ cdc_disconnect

Next == UNCHANGED setup /\ (IPC_Bridge_Run \/ Usb)

(* The bridge runs at 100 Hz; the host enumerates the device and polls it. *)
Spec == /\ Init /\ [][Next]_vars
        /\ WF_vars(UNCHANGED setup /\ IPC_Bridge_Run) /\ WF_vars(UNCHANGED setup /\ DataIn)
        /\ SF_vars(UNCHANGED setup /\ Plug) /\ SF_vars(UNCHANGED setup /\ Configure)
-----------------------------------------------------------------------------
TypeOK ==
  /\ setup \in Setup /\ gUsbConfigured \in BOOLEAN /\ gTxHead \in Ring /\ gTxTail \in Ring /\ gTxBusy \in BOOLEAN
  /\ gTxRing \in [Ring -> 0..SeqMod] /\ gCmdRing \in [Ring -> 0..issued]
  /\ gCmdHead \in Ring /\ gCmdTail \in Ring /\ gSeq \in 0..SeqMod - 1
  /\ epIn \in Ring \cup {None} /\ epOut \in Ring \cup {None}
  /\ pc \in {"recv", "commit", "send", "store", "busy", "transmit"}
  /\ tail \in Ring /\ next \in Ring
  /\ issued \in 0..setup.cmds /\ applied \in 0..issued /\ got \in 0..SeqMod
  /\ given \in Nat /\ (~setup.harsh => given <= issued)
  /\ attached \in BOOLEAN /\ resets \in 0..setup.faults

(* The slot that usb_recv copies is never the one the controller fills,    *)
(* unless a reset comes in the middle of usb_recv.                         *)
CopyIsStable == ~setup.harsh /\ pc = "commit" => epOut # tail

(* A step in which the host receives a report receives the one that was    *)
(* packed last.                                                            *)
ReportIsLatest == got' # got => got' = Previous(gSeq)

(* Over resets, unplugging and a full ring the commands reach the motors   *)
(* in order, each at most once: the transport implements CommandLink.      *)
Link == INSTANCE CommandLink
InOrder == Link!Spec

(* Even when the transmitter is stuck, commands in the ring are taken out, *)
(* unless the device is not configured any more.                           *)
RingDrains == (gUsbConfigured /\ gCmdTail # gCmdHead) ~> (~gUsbConfigured \/ gCmdTail = gCmdHead)

(* "hot-plug" (ipc_transport.c:8): once the cable stays in, reports of     *)
(* every number keep arriving, whatever was in flight when it was pulled.  *)
ReportsKeepComing == \A s \in 0..SeqMod - 1 : []<>(got = s)
=============================================================================
