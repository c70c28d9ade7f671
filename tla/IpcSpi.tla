------------------------------- MODULE IpcSpi -------------------------------
(***************************************************************************)
(* The SPI transport: the slave of shared/src/ipc_spi.c, driven by         *)
(* IPC_Bridge_Run of l1_m7/Core/ipc_bridge.c and by the DMA callbacks, and *)
(* the master of l2_rk3566/src/comm/ipc_spi_linux.cpp, which starts a      *)
(* transfer whenever it reads the READY pin high.                          *)
(* A frame is known by its number: commands count up, reports carry gSeq.  *)
(***************************************************************************)
EXTENDS Integers

CONSTANTS
  SeqMod,     \* width of gSeq
  Setup       \* set-ups; the fields this transport has a use for:
              \*   cmds    bound: commands the master sends; afterwards zeros
              \*   faults  bound: DMA errors and refused transfers
              \*   harsh   may the DMA report an error?

SpiAssumption ==
  /\ SeqMod \in Nat /\ SeqMod > 1
  /\ \A s \in Setup : s.cmds \in Nat /\ s.faults \in Nat /\ s.harsh \in BOOLEAN

Bad == 0        \* a frame without a valid header and checksum
NoSeq == SeqMod \* a report of which the master can say the same
None == "none"

VARIABLES
  setup,
  gTxDone, gRxDone, gSpiReady,  \* set by the callbacks
  gTxBuf, gTxActive,            \* two transmit buffers and the one in use
  gRxBuf,                       \* the command received last
  gCmdRing, gCmdWrite, gCmdRead,
  gSeq,
  rdy,       \* the READY pin
  dma,       \* the DMA: "none", "armed", or "shifted": it was armed in
             \* the middle of a transfer and has part of a frame
  callbacks, \* completions that are still to be called
  pc,        \* next step of IPC_Bridge_Run
  wire,      \* the transfer under way: its command and the DMA it found
  issued,    \* commands sent
  applied,   \* the command applied last, and how many times one was applied
  given,
  got,       \* the last report the master accepted
  faults

slave == <<gTxDone, gRxDone, gSpiReady, gTxBuf, gTxActive, gRxBuf,
           gCmdRing, gCmdWrite, gCmdRead, gSeq, rdy, pc, applied, given>>
master == <<wire, issued, got>>
vars == <<setup, slave, master, dma, callbacks, faults>>

Ring == 0..3
NoTransfer == [cmd |-> Bad, found |-> "idle"]
Previous(n) == IF n = 0 THEN SeqMod - 1 ELSE n - 1

Init ==
  /\ setup \in Setup
  /\ gTxDone = FALSE /\ gRxDone = FALSE /\ gSpiReady = TRUE
  /\ gTxBuf = [b \in {0, 1} |-> NoSeq] /\ gTxActive = 0 /\ gRxBuf = Bad
  /\ gCmdRing = [i \in Ring |-> Bad] /\ gCmdWrite = 0 /\ gCmdRead = 0
  /\ gSeq = 0 /\ rdy = FALSE /\ dma = None /\ callbacks = {}
  /\ pc = "process" /\ wire = NoTransfer
  /\ issued = 0 /\ applied = 0 /\ given = 0 /\ got = NoSeq /\ faults = 0

(* Mutant: the write index is not masked.                                  *)
Enqueue_m == /\ gCmdRing' = [gCmdRing EXCEPT ![gCmdWrite] = gRxBuf]
             /\ gCmdWrite' = gCmdWrite + 1

Enqueue == LET next == (gCmdWrite + 1) % 4
           IN /\ gCmdRing' = [gCmdRing EXCEPT ![gCmdWrite] = gRxBuf]
              /\ gCmdWrite' = IF next # gCmdRead THEN next ELSE gCmdWrite

(* spi_process: after a transfer, swap the buffers, lower READY and queue  *)
(* the command if its header and checksum are right.                       *)
spi_process ==
  /\ pc = "process" /\ pc' = "recv"
  /\ IF gTxDone /\ gRxDone
     THEN /\ gTxActive' = 1 - gTxActive /\ rdy' = FALSE
          /\ IF gRxBuf # Bad THEN Enqueue ELSE UNCHANGED <<gCmdRing, gCmdWrite>>
     ELSE UNCHANGED <<gTxActive, rdy, gCmdRing, gCmdWrite>>
  /\ UNCHANGED <<gTxDone, gRxDone, gSpiReady, gTxBuf, gRxBuf, gCmdRead, gSeq, applied, given>>
  /\ UNCHANGED <<master, dma, callbacks, faults>>

(* spi_recv, and the velocity that IPC_Bridge_Run sets from the command.   *)
spi_recv ==
  /\ pc = "recv" /\ pc' = "send"
  /\ IF gCmdRead # gCmdWrite
     THEN /\ applied' = gCmdRing[gCmdRead] /\ given' = given + 1
          /\ gCmdRead' = (gCmdRead + 1) % 4
     ELSE UNCHANGED <<applied, given, gCmdRead>>
  /\ UNCHANGED <<gTxDone, gRxDone, gSpiReady, gTxBuf, gTxActive, gRxBuf, gCmdRing, gCmdWrite, gSeq, rdy>>
  /\ UNCHANGED <<master, dma, callbacks, faults>>

(* Mutant: the transport is always ready.                                  *)
spi_ready_m == TRUE

spi_ready == gSpiReady

NotReady == /\ pc = "send" /\ ~spi_ready /\ pc' = "process"
            /\ UNCHANGED <<gTxDone, gRxDone, gSpiReady, gTxBuf, gTxActive, gRxBuf, gCmdRing,
                           gCmdWrite, gCmdRead, gSeq, rdy, applied, given>>
            /\ UNCHANGED <<master, dma, callbacks, faults>>

(* Mutants: the flags are not cleared; the other buffer is loaded.         *)
Load_m == /\ pc = "send" /\ spi_ready
          /\ gTxBuf' = [gTxBuf EXCEPT ![gTxActive] = gSeq] /\ gSeq' = (gSeq + 1) % SeqMod
          /\ UNCHANGED <<gTxDone, gRxDone, gTxActive, gRxBuf, gCmdRing, gCmdWrite, gCmdRead,
                         rdy, applied, given, callbacks>>
Load_m2 == /\ pc = "send" /\ spi_ready
           /\ gTxDone' = FALSE /\ gRxDone' = FALSE
           /\ gTxBuf' = [gTxBuf EXCEPT ![1 - gTxActive] = gSeq] /\ gSeq' = (gSeq + 1) % SeqMod
           /\ UNCHANGED <<gTxActive, gRxBuf, gCmdRing, gCmdWrite, gCmdRead, rdy, applied, given, callbacks>>

(* spi_send up to the DMA, which may refuse; then READY is raised.         *)
Load == /\ pc = "send" /\ spi_ready
        /\ gTxDone' = FALSE /\ gRxDone' = FALSE
        /\ gTxBuf' = [gTxBuf EXCEPT ![gTxActive] = gSeq] /\ gSeq' = (gSeq + 1) % SeqMod
        /\ UNCHANGED <<gTxActive, gRxBuf, gCmdRing, gCmdWrite, gCmdRead, rdy, applied, given, callbacks>>

spi_send ==
  /\ Load
  /\ \/ gSpiReady' = FALSE /\ dma' = "armed" /\ pc' = "raise" /\ UNCHANGED faults
     \/ /\ faults < setup.faults /\ faults' = faults + 1
        /\ gSpiReady' = TRUE /\ pc' = "process" /\ UNCHANGED dma
  /\ UNCHANGED master

RaiseReady == /\ pc = "raise" /\ rdy' = TRUE /\ pc' = "process"
              /\ UNCHANGED <<gTxDone, gRxDone, gSpiReady, gTxBuf, gTxActive, gRxBuf, gCmdRing,
                             gCmdWrite, gCmdRead, gSeq, applied, given>>
              /\ UNCHANGED <<master, dma, callbacks, faults>>

IPC_Bridge_Run == spi_process \/ spi_recv \/ NotReady \/ spi_send \/ RaiseReady

(* The DMA interrupts; the second of the two makes the transport ready.    *)
spi_dma_tx_cplt == /\ "tx" \in callbacks /\ callbacks' = callbacks \ {"tx"}
                   /\ gTxDone' = TRUE /\ gSpiReady' = (gSpiReady \/ gRxDone)
                   /\ UNCHANGED gRxDone
spi_dma_rx_cplt == /\ "rx" \in callbacks /\ callbacks' = callbacks \ {"rx"}
                   /\ gRxDone' = TRUE /\ gSpiReady' = (gSpiReady \/ gTxDone)
                   /\ UNCHANGED gTxDone
DmaDone == /\ spi_dma_tx_cplt \/ spi_dma_rx_cplt
           /\ UNCHANGED <<gTxBuf, gTxActive, gRxBuf, gCmdRing, gCmdWrite, gCmdRead, gSeq, rdy, pc, applied, given>>
           /\ UNCHANGED <<master, dma, faults>>

(* Mutant: the transport is not made ready again.                          *)
spi_dma_error_m ==
  /\ setup.harsh /\ dma # None /\ faults < setup.faults /\ faults' = faults + 1
  /\ dma' = None /\ gTxDone' = TRUE /\ gRxDone' = TRUE
  /\ wire' = IF wire = NoTransfer THEN wire ELSE [wire EXCEPT !.found = None]
  /\ UNCHANGED <<gSpiReady, gRxBuf, gTxBuf, gTxActive, gCmdRing, gCmdWrite, gCmdRead, gSeq, rdy,
                 pc, applied, given, issued, got, callbacks>>

(* An error may come before anything was received, or after.               *)
spi_dma_error ==
  /\ setup.harsh /\ dma # None /\ faults < setup.faults /\ faults' = faults + 1
  /\ dma' = None /\ gTxDone' = TRUE /\ gRxDone' = TRUE /\ gSpiReady' = TRUE
  /\ gRxBuf' \in {gRxBuf, Bad}
  /\ wire' = IF wire = NoTransfer THEN wire ELSE [wire EXCEPT !.found = None]
  /\ UNCHANGED <<gTxBuf, gTxActive, gCmdRing, gCmdWrite, gCmdRead, gSeq, rdy, pc, applied, given>>
  /\ UNCHANGED <<issued, got, callbacks>>

(* IpcSpi_Exchange: the master reads READY high and starts to clock.       *)
Begin == /\ wire = NoTransfer /\ rdy
         /\ \/ issued < setup.cmds /\ issued' = issued + 1 /\ wire' = [cmd |-> issued', found |-> dma]
            \/ wire' = [cmd |-> Bad, found |-> dma] /\ UNCHANGED issued
         /\ UNCHANGED <<slave, got, dma, callbacks, faults>>

(* The transfer is over.  Only a DMA that was armed before it began takes  *)
(* the whole frame; one that was armed meanwhile has part of it, and what  *)
(* it holds after the next transfer is no frame.                           *)
End ==
  /\ wire # NoTransfer /\ wire' = NoTransfer
  /\ CASE wire.found = "armed" ->
            /\ gRxBuf' = wire.cmd /\ got' = gTxBuf[gTxActive]
            /\ dma' = None /\ callbacks' = {"tx", "rx"}
       [] wire.found = "shifted" ->
            gRxBuf' = Bad /\ dma' = None /\ callbacks' = {"tx", "rx"} /\ UNCHANGED got
       [] wire.found = None /\ dma # None ->
            gRxBuf' = Bad /\ dma' = "shifted" /\ UNCHANGED <<got, callbacks>>
       [] wire.found = None /\ dma = None ->
            UNCHANGED <<gRxBuf, got, dma, callbacks>>
  /\ UNCHANGED <<gTxDone, gRxDone, gSpiReady, gTxBuf, gTxActive, gCmdRing, gCmdWrite, gCmdRead,
                 gSeq, rdy, pc, applied, given, issued, faults>>

IpcSpi_Exchange == Begin \/ End

Next == /\ UNCHANGED setup
        /\ IPC_Bridge_Run \/ DmaDone \/ spi_dma_error \/ IpcSpi_Exchange

(* The bridge runs at 100 Hz, the master loops, and interrupts are served. *)
Spec == /\ Init /\ [][Next]_vars
        /\ WF_vars(UNCHANGED setup /\ IPC_Bridge_Run)
        /\ WF_vars(UNCHANGED setup /\ DmaDone) /\ WF_vars(UNCHANGED setup /\ IpcSpi_Exchange)
-----------------------------------------------------------------------------
TypeOK ==
  /\ setup \in Setup /\ {gTxDone, gRxDone, gSpiReady, rdy} \subseteq BOOLEAN
  /\ gTxActive \in {0, 1} /\ gTxBuf \in [{0, 1} -> 0..SeqMod] /\ gRxBuf \in 0..issued
  /\ gCmdRing \in [Ring -> 0..issued] /\ gCmdWrite \in Ring /\ gCmdRead \in Ring
  /\ gSeq \in 0..SeqMod - 1 /\ dma \in {None, "armed", "shifted"}
  /\ callbacks \subseteq {"tx", "rx"} /\ pc \in {"process", "recv", "send", "raise"}
  /\ wire \in [cmd : 0..issued, found : {"idle", None, "armed", "shifted"}]
  /\ issued \in 0..setup.cmds /\ applied \in 0..issued
  /\ given \in 0..issued + faults /\ got \in 0..SeqMod /\ faults \in 0..setup.faults

(* No step loads the buffer that the DMA is sending (ipc_spi.c:225).        *)
BufferStable ==
  dma # None /\ dma' # None
  => gTxBuf'[gTxActive] = gTxBuf[gTxActive] /\ gTxActive' = gTxActive

(* A step in which the master accepts a report accepts the one that the    *)
(* bridge packed last.                                                     *)
ReportIsLatest == got' # got => got' = Previous(gSeq)

(* The commands reach the motor control in order, each at most once.       *)
Link == INSTANCE CommandLink
InOrder == Link!Spec

(* Refused transfers, DMA errors and frames out of step do not jam the     *)
(* link: unless the master goes on for ever to start transfers that the    *)
(* slave has not armed, reports keep arriving.                             *)
ReportsKeepComing == <>[](wire.found # None) => \A s \in 0..SeqMod - 1 : []<>(got = s)
=============================================================================
