------------------------------- MODULE MCIpc -------------------------------
(***************************************************************************)
(* A test bench for the two transports between the RK3566 and the M7, of   *)
(* which IPC_Transport_Select chooses one.  A set-up names it, bounds its  *)
(* commands and faults, and is harsh or not: with SPI, the DMA reports     *)
(* errors; with USB, resets come inside usb_send and usb_recv too, and the *)
(* host changes the configuration.                                         *)
(***************************************************************************)
EXTENDS Integers

CONSTANTS Setup,               \* set-ups: records of bus, cmds, faults, harsh
          SpiSeqMod, UsbSeqMod \* the widths of gSeq

VARIABLES setup,
          gTxDone, gRxDone, gSpiReady, gTxBuf, gTxActive, gRxBuf, gCmdRing, gCmdWrite,
          gCmdRead, gSeq, rdy, dma, callbacks, pc, wire, issued, applied, given, got,
          faults,
          gUsbConfigured, gTxHead, gTxTail, gTxBusy, gTxRing, gUsbRing, gCmdHead, gCmdTail,
          epIn, epOut, usb_pc, tail, next, usb_seq, usb_issued, usb_applied, usb_given,
          usb_got, attached, resets

Spi == INSTANCE IpcSpi WITH SeqMod <- SpiSeqMod

Usb == INSTANCE IpcUsb WITH
  SeqMod <- UsbSeqMod,
  gCmdRing <- gUsbRing, gSeq <- usb_seq, pc <- usb_pc, issued <- usb_issued,
  applied <- usb_applied, given <- usb_given, got <- usb_got

ASSUME SetupAssumption ==
  Spi!SpiAssumption /\ Usb!UsbAssumption /\ \A s \in Setup : s.bus \in {"spi", "usb"}

spi == <<gTxDone, gRxDone, gSpiReady, gTxBuf, gTxActive, gRxBuf, gCmdRing, gCmdWrite,
         gCmdRead, gSeq, rdy, dma, callbacks, pc, wire, issued, applied, given, got,
         faults>>
usb == <<gUsbConfigured, gTxHead, gTxTail, gTxBusy, gTxRing, gUsbRing, gCmdHead, gCmdTail,
         epIn, epOut, usb_pc, tail, next, usb_seq, usb_issued, usb_applied, usb_given,
         usb_got, attached, resets>>
vars == <<setup, spi, usb>>

Init == Spi!Init /\ Usb!Init

SpiStep(step) == setup.bus = "spi" /\ step /\ UNCHANGED <<setup, usb>>
UsbStep(step) == setup.bus = "usb" /\ step /\ UNCHANGED <<setup, spi>>

Next == SpiStep(Spi!Next) \/ UsbStep(Usb!Next)

(* The bridge runs at 100 Hz; interrupts are served; the master goes on to *)
(* exchange frames, and the USB host to enumerate the device and to poll.  *)
(* No progress is claimed, and so none assumed, of SPI without DMA errors. *)
Bridge == (setup.harsh /\ SpiStep(Spi!IPC_Bridge_Run)) \/ UsbStep(Usb!IPC_Bridge_Run)
Interrupts == (setup.harsh /\ SpiStep(Spi!DmaDone)) \/ (~setup.harsh /\ UsbStep(Usb!DataIn))
Exchange == setup.harsh /\ SpiStep(Spi!IpcSpi_Exchange)
Connect == ~setup.harsh /\ (UsbStep(Usb!Plug) \/ UsbStep(Usb!Configure))

Spec == /\ Init /\ [][Next]_vars
        /\ WF_vars(Bridge) /\ WF_vars(Interrupts) /\ WF_vars(Exchange)
        /\ SF_vars(Connect)

SpiCalm  == [bus |-> "spi", cmds |-> 4, faults |-> 0, harsh |-> FALSE]
SpiHarsh == [bus |-> "spi", cmds |-> 2, faults |-> 1, harsh |-> TRUE]
UsbCalm  == [bus |-> "usb", cmds |-> 4, faults |-> 2, harsh |-> FALSE]
UsbHarsh == [bus |-> "usb", cmds |-> 2, faults |-> 1, harsh |-> TRUE]
Setups   == {SpiCalm, SpiHarsh, UsbCalm, UsbHarsh}

-----------------------------------------------------------------------------
(* Every variable of the two transports stays in its type.                 *)
TypeOK == Spi!TypeOK /\ Usb!TypeOK

(* The buffer a DMA or a function is at work on is left alone: spi_send    *)
(* does not load the one that is being sent, and the USB controller does   *)
(* not fill the one that usb_recv copies.  So what the master or the host  *)
(* accepts is the report the bridge packed last, over DMA errors and       *)
(* resets of the bus.                                                      *)
BuffersHold ==
  [][/\ Spi!BufferStable /\ Spi!ReportIsLatest
     /\ ~setup.harsh => Usb!CopyIsStable' /\ Usb!ReportIsLatest]_vars

(* Either transport hands the commands of the RK3566 to the motor control  *)
(* in order and each at most once: it implements CommandLink.              *)
Link == INSTANCE CommandLink WITH
  issued  <- IF setup.harsh THEN 0 ELSE IF setup.bus = "spi" THEN issued ELSE usb_issued,
  applied <- IF setup.harsh THEN 0 ELSE IF setup.bus = "spi" THEN applied ELSE usb_applied,
  given   <- IF setup.harsh THEN 0 ELSE IF setup.bus = "spi" THEN given ELSE usb_given
InOrder == Link!Spec

(* Neither DMA errors and refused transfers, nor resets and unplugging     *)
(* between two functions, stop the reports: those of every number keep     *)
(* arriving (with SPI, unless the master for ever misses the armed slave). *)
(* Resets inside a function can stop them, but even then commands are      *)
(* still taken out of the ring.                                            *)
LinkRecovers == /\ setup = SpiHarsh => Spi!ReportsKeepComing
                /\ setup = UsbCalm => Usb!ReportsKeepComing
                /\ setup = UsbHarsh => Usb!RingDrains
=============================================================================
