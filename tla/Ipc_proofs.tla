----------------------------- MODULE Ipc_proofs -----------------------------
(***************************************************************************)
(* Proofs about the two transports, for every width of the report numbers  *)
(* and every set-up: the types, the buffers left alone, and the commands   *)
(* in order.                                                               *)
(***************************************************************************)
EXTENDS MCIpc, TLAPS

-----------------------------------------------------------------------------
(* A ring of four slots, read at r and written at w: how far behind r a    *)
(* slot is, and what is queued, oldest first, above low and up to high.    *)
Slots == 0..3
After(i) == IF i = 3 THEN 0 ELSE i + 1
Place(i, r) == IF i >= r THEN i - r ELSE i - r + 4

Queued(ring, r, w, low, high) ==
  /\ \A i \in Slots : Place(i, r) < Place(w, r) => low < ring[i] /\ ring[i] <= high
  /\ \A i, j \in Slots :
       Place(i, r) < Place(j, r) /\ Place(j, r) < Place(w, r) => ring[i] < ring[j]

(* The next slot, as the code computes it.                                 *)
LEMMA NextSlot == \A i \in Slots : (i + 1) % 4 = After(i) /\ After(i) \in Slots
  BY SMT DEF Slots, After

(* Writing a newer number at w, which is queued unless the ring is full.   *)
LEMMA Enqueued ==
  ASSUME NEW ring \in [Slots -> Nat], NEW r \in Slots, NEW w \in Slots,
         NEW low \in Nat, NEW high \in Int, NEW n \in Nat, high < n,
         Queued(ring, r, w, low, high), low <= high
  PROVE  LET to == IF After(w) # r THEN After(w) ELSE w
         IN  /\ Queued([ring EXCEPT ![w] = n], r, to, low, n)
             /\ Place(to, r) <= Place(w, r) + 1
<1> DEFINE to == IF After(w) # r THEN After(w) ELSE w
           ring2 == [ring EXCEPT ![w] = n]
<1>1. to \in Slots /\ Place(to, r) <= Place(w, r) + 1
  BY DEF Slots, After, Place
<1>2. \A i \in Slots : Place(i, r) < Place(to, r) => i = w \/ Place(i, r) < Place(w, r)
  BY DEF Slots, After, Place
<1>3. \A i, j \in Slots : i = w /\ Place(i, r) < Place(j, r) => ~(Place(j, r) < Place(to, r))
  BY DEF Slots, After, Place
<1>4. \A i \in Slots : ring2[i] = IF i = w THEN n ELSE ring[i]
  OBVIOUS
<1>5. \A i \in Slots : ring[i] \in Nat /\ Place(i, r) \in Int
  BY DEF Place, Slots
<1> HIDE DEF to, ring2
<1>6. ASSUME NEW i \in Slots, Place(i, r) < Place(to, r)
      PROVE  low < ring2[i] /\ ring2[i] <= n
  BY <1>2, <1>4, <1>5, <1>6 DEF Queued
<1>7. ASSUME NEW i \in Slots, NEW j \in Slots,
             Place(i, r) < Place(j, r), Place(j, r) < Place(to, r)
      PROVE  ring2[i] < ring2[j]
  <2>1. i # w /\ Place(i, r) < Place(to, r) /\ Place(to, r) \in Int
    BY <1>1, <1>3, <1>5, <1>7
  <2>2. Place(i, r) < Place(w, r)
    BY <1>2, <2>1
  <2>3. ring[i] <= high /\ ring2[i] = ring[i]
    BY <1>4, <2>1, <2>2 DEF Queued
  <2>4. CASE j = w
    BY <1>4, <1>5, <2>3, <2>4
  <2>5. CASE j # w
    BY <1>2, <1>4, <1>7, <2>3, <2>5 DEF Queued
  <2> QED
    BY <2>4, <2>5
<1>8. Queued(ring2, r, to, low, n)
  BY <1>6, <1>7 DEF Queued
<1> QED
  BY <1>1, <1>8 DEF to, ring2

(* The oldest number that is queued, and what is left without it.          *)
LEMMA Dequeued ==
  ASSUME NEW ring \in [Slots -> Nat], NEW r \in Slots, NEW w \in Slots, r # w,
         NEW low \in Nat, NEW high \in Int, Queued(ring, r, w, low, high)
  PROVE  /\ low < ring[r] /\ ring[r] <= high
         /\ Queued(ring, After(r), w, ring[r], high)
<1>1. \A i \in Slots :
        /\ Place(i, After(r)) < Place(w, After(r))
             => Place(r, r) < Place(i, r) /\ Place(i, r) < Place(w, r)
        /\ Place(r, r) < Place(w, r)
  BY DEF Slots, After, Place
<1>2. \A i, j \in Slots :
        Place(i, After(r)) < Place(j, After(r)) /\ Place(j, After(r)) < Place(w, After(r))
        => Place(i, r) < Place(j, r) /\ Place(j, r) < Place(w, r)
  BY DEF Slots, After, Place
<1> QED
  BY <1>1, <1>2 DEF Queued

LEMMA PlaceLeft ==
  ASSUME NEW r \in Slots, NEW w \in Slots
  PROVE  /\ Place(w, r) \in Nat
         /\ r # w => Place(w, After(r)) = Place(w, r) - 1
         /\ Place(r, r) = 0
  BY DEF Slots, After, Place

(* More room above; an empty ring; a slot written that is not queued.      *)
LEMMA QueuedUpTo ==
  ASSUME NEW ring \in [Slots -> Nat], NEW r \in Slots, NEW w \in Slots,
         NEW low \in Nat, NEW high \in Int, NEW more \in Int, high <= more,
         Queued(ring, r, w, low, high)
  PROVE  Queued(ring, r, w, low, more)
<1>1. \A i \in Slots : ring[i] \in Nat
  OBVIOUS
<1> QED
  BY <1>1 DEF Queued

LEMMA QueuedNone ==
  ASSUME NEW ring, NEW r \in Slots, NEW low, NEW high
  PROVE  Queued(ring, r, r, low, high)
  BY DEF Queued, Place, Slots

LEMMA QueuedStill ==
  ASSUME NEW ring \in [Slots -> Nat], NEW r \in Slots, NEW w \in Slots, NEW n,
         NEW low \in Nat, NEW high \in Nat, Queued(ring, r, w, low, high)
  PROVE  Queued([ring EXCEPT ![w] = n], r, w, low, high)
<1>1. \A i \in Slots : Place(i, r) < Place(w, r) => i # w
  BY DEF Place, Slots
<1>2. \A i, j \in Slots :
        Place(i, r) < Place(j, r) /\ Place(j, r) < Place(w, r) => Place(i, r) < Place(w, r)
  BY DEF Place, Slots
<1> QED
  BY <1>1, <1>2 DEF Queued

-----------------------------------------------------------------------------
(* SPI.  The types, but for the bound on the commands given.               *)
SpiTypes ==
  /\ setup \in Setup /\ {gTxDone, gRxDone, gSpiReady, rdy} \subseteq BOOLEAN
  /\ gTxActive \in {0, 1} /\ gTxBuf \in [{0, 1} -> 0..SpiSeqMod] /\ gRxBuf \in 0..issued
  /\ gCmdRing \in [Slots -> 0..issued] /\ gCmdWrite \in Slots /\ gCmdRead \in Slots
  /\ gSeq \in 0..SpiSeqMod - 1 /\ dma \in {"none", "armed", "shifted"}
  /\ callbacks \subseteq {"tx", "rx"} /\ pc \in {"process", "recv", "send", "raise"}
  /\ wire \in [cmd : 0..issued, found : {"idle", "none", "armed", "shifted"}]
  /\ issued \in 0..setup.cmds /\ applied \in 0..issued
  /\ given \in Nat /\ got \in 0..SpiSeqMod /\ faults \in 0..setup.faults

(* While the DMA is armed nothing is complete, and it sends the      *)
(* report packed last; a transfer that found the DMA armed keeps it so.    *)
SpiFlags ==
  /\ gSpiReady => callbacks = {} /\ dma = "none"
  /\ gTxDone /\ gRxDone => gSpiReady
  /\ "tx" \in callbacks => ~gTxDone
  /\ "rx" \in callbacks => ~gRxDone
  /\ dma # "none" => /\ ~gTxDone /\ ~gRxDone /\ callbacks = {}
                     /\ gTxBuf[gTxActive] = Spi!Previous(gSeq)
  /\ wire.found \in {"armed", "shifted"} => dma = wire.found
  /\ wire.found = "idle" => wire.cmd = 0

(* A command is received that spi_process has not queued yet; one is on    *)
(* the wire.                                                               *)
Fresh == /\ callbacks # {} \/ (gTxDone /\ gRxDone /\ pc \in {"process", "raise"})
         /\ gRxBuf # 0
OnWire == wire.cmd # 0

(* Every command is given once for each that was sent, or spoilt by a DMA  *)
(* error.                                                                  *)
SpiCount ==
  given + Place(gCmdWrite, gCmdRead) + (IF Fresh THEN 1 ELSE 0) + (IF OnWire THEN 1 ELSE 0)
  <= issued + faults

(* What is queued and what was applied is older than what was received,    *)
(* and that is older than what is on the wire.                             *)
SpiBelow(n) == applied <= n /\ Queued(gCmdRing, gCmdRead, gCmdWrite, applied, n)
SpiOrder ==
  /\ SpiBelow(issued)
  /\ Fresh => SpiBelow(gRxBuf - 1)
  /\ OnWire => wire.cmd = issued /\ SpiBelow(issued - 1) /\ (Fresh => gRxBuf < issued)

SpiInv == /\ SpiTypes /\ SpiFlags /\ SpiCount
          /\ ~setup.harsh => SpiOrder


(* The numbers of the reports go round.                                    *)
LEMMA SpiNumber ==
  ASSUME NEW g \in 0..SpiSeqMod - 1
  PROVE  /\ (g + 1) % SpiSeqMod \in 0..SpiSeqMod - 1
         /\ Spi!Previous((g + 1) % SpiSeqMod) = g
<1>1. SpiSeqMod \in Nat /\ SpiSeqMod > 1
  BY SetupAssumption DEF Spi!SpiAssumption
<1>2. CASE g = SpiSeqMod - 1
  <2>1. g + 1 = SpiSeqMod
    BY <1>1, <1>2
  <2>2. SpiSeqMod % SpiSeqMod = 0
    BY <1>1, SMT
  <2> QED
    BY <1>1, <1>2, <2>1, <2>2 DEF Spi!Previous
<1>3. CASE g # SpiSeqMod - 1
  <2>1. g + 1 \in 1..SpiSeqMod - 1
    BY <1>1, <1>3
  <2>2. (g + 1) % SpiSeqMod = g + 1
    BY <1>1, <2>1, SMT
  <2> QED
    BY <1>1, <2>1, <2>2 DEF Spi!Previous
<1> QED
  BY <1>2, <1>3

LEMMA SetupFields ==
  ASSUME NEW s \in Setup
  PROVE  s.cmds \in Nat /\ s.faults \in Nat /\ s.harsh \in BOOLEAN /\ s.bus \in {"spi", "usb"}
  BY SetupAssumption DEF Spi!SpiAssumption

(* The fields of the transfer under way, and after a DMA error.            *)
LEMMA WireFields ==
  ASSUME SpiTypes
  PROVE  /\ wire.cmd \in 0..issued /\ wire.found \in {"idle", "none", "armed", "shifted"}
         /\ wire = Spi!NoTransfer <=> wire.cmd = 0 /\ wire.found = "idle"
<1>1. wire \in [cmd : 0..issued, found : {"idle", "none", "armed", "shifted"}]
  BY DEF SpiTypes
<1> QED
  BY <1>1 DEF Spi!NoTransfer, Spi!Bad

LEMMA WireAfterError ==
  ASSUME SpiTypes, Spi!spi_dma_error
  PROVE  /\ wire'.cmd = wire.cmd /\ wire'.found \in {"none", "idle"}
         /\ wire'.found = "idle" => wire.found = "idle"
         /\ wire' \in [cmd : 0..issued, found : {"idle", "none", "armed", "shifted"}]
<1>1. wire \in [cmd : 0..issued, found : {"idle", "none", "armed", "shifted"}]
  BY DEF SpiTypes
<1>2. CASE wire = Spi!NoTransfer
  BY <1>1, <1>2, WireFields DEF Spi!spi_dma_error
<1>3. CASE wire # Spi!NoTransfer
  <2>1. wire' = [wire EXCEPT !.found = "none"]
    BY <1>3 DEF Spi!spi_dma_error, Spi!None
  <2> QED
    BY <1>1, <2>1
<1> QED
  BY <1>2, <1>3

(* What the end of a transfer does, by the DMA that it found.              *)
LEMMA Ends ==
  ASSUME SpiTypes, Spi!End
  PROVE  /\ wire'.cmd = 0 /\ wire'.found = "idle"
         /\ \/ wire.found = "armed" /\ gRxBuf' = wire.cmd /\ got' = gTxBuf[gTxActive]
               /\ dma' = "none" /\ callbacks' = {"tx", "rx"}
            \/ wire.found = "shifted" /\ gRxBuf' = 0 /\ got' = got
               /\ dma' = "none" /\ callbacks' = {"tx", "rx"}
            \/ wire.found = "none" /\ dma # "none" /\ gRxBuf' = 0 /\ got' = got
               /\ dma' = "shifted" /\ callbacks' = callbacks
            \/ wire.found = "none" /\ gRxBuf' = gRxBuf /\ got' = got
               /\ dma' = dma /\ callbacks' = callbacks
            \/ wire.found = "idle"
<1> wire.found \in {"idle", "none", "armed", "shifted"}
  BY DEF SpiTypes
<1>1. wire'.cmd = 0 /\ wire'.found = "idle"
  BY DEF Spi!End, Spi!NoTransfer, Spi!Bad
<1>2. CASE wire.found = "armed"
  BY <1>1, <1>2 DEF Spi!End, Spi!None
<1>3. CASE wire.found = "shifted"
  BY <1>1, <1>3 DEF Spi!End, Spi!None, Spi!Bad
<1>4. CASE wire.found = "none"
  BY <1>1, <1>4 DEF Spi!End, Spi!None, Spi!Bad
<1> QED
  BY <1>1, <1>2, <1>3, <1>4

(* Each step keeps the types.                                              *)
LEMMA SpiTypesKept ==
  ASSUME SpiTypes, SpiFlags, Spi!Next
  PROVE  SpiTypes'
<1> setup' = setup /\ setup.cmds \in Nat /\ setup.faults \in Nat
  BY SetupFields DEF SpiTypes, Spi!Next
<1>9. CASE Spi!End
  <2>1. wire' \in [cmd : 0..issued, found : {"idle", "none", "armed", "shifted"}]
    BY <1>9 DEF Spi!End, Spi!NoTransfer, Spi!Bad, SpiTypes
  <2>2. wire.found # "idle" /\ wire.cmd \in 0..issued
    BY <1>9, WireFields DEF Spi!End, SpiFlags
  <2>3. gTxBuf[gTxActive] \in 0..SpiSeqMod
    BY DEF SpiTypes
  <2>4. gRxBuf' \in 0..issued /\ got' \in 0..SpiSeqMod
        /\ dma' \in {"none", "armed", "shifted"} /\ callbacks' \subseteq {"tx", "rx"}
    <3>1. gRxBuf \in 0..issued /\ got \in 0..SpiSeqMod /\ issued \in Nat
          /\ dma \in {"none", "armed", "shifted"} /\ callbacks \subseteq {"tx", "rx"}
      BY DEF SpiTypes
    <3>2. gRxBuf' \in {wire.cmd, gRxBuf, 0}
      BY <1>9, <2>2, Ends
    <3>3. got' \in {got, gTxBuf[gTxActive]} /\ dma' \in {"none", "shifted", dma}
      BY <1>9, <2>2, Ends
    <3>4. callbacks' \in {callbacks, {"tx", "rx"}}
      BY <1>9, <2>2, Ends
    <3> QED
      BY <2>2, <2>3, <3>1, <3>2, <3>3, <3>4
  <2> QED
    BY <1>9, <2>1, <2>4 DEF Spi!End, SpiTypes
<1> gTxDone \in BOOLEAN /\ gRxDone \in BOOLEAN /\ gSpiReady \in BOOLEAN /\ rdy \in BOOLEAN
  BY DEF SpiTypes
<1> USE DEF SpiTypes, Slots
<1>1. CASE Spi!spi_process
  <2>1. /\ gCmdRing' \in [Slots -> 0..issued] /\ gCmdWrite' \in Slots
    BY <1>1, NextSlot DEF Spi!spi_process, Spi!Enqueue, Spi!Bad
  <2>2. gTxActive' \in {gTxActive, 1 - gTxActive} /\ rdy' \in {rdy, FALSE} /\ pc' = "recv"
    BY <1>1, Zenon DEF Spi!spi_process
  <2>3. gTxActive \in {0, 1} => gTxActive' \in {0, 1}
    BY <2>2
  <2>4. rdy' \in BOOLEAN
    BY <2>2
  <2> QED
    BY <1>1, <2>1, <2>2, <2>3, <2>4 DEF Spi!spi_process, Spi!master
<1>2. CASE Spi!spi_recv
  BY <1>2, NextSlot DEF Spi!spi_recv, Spi!master
<1>3. CASE Spi!NotReady
  BY <1>3 DEF Spi!NotReady, Spi!master
<1>4. CASE Spi!spi_send
  <2>1. gSeq' \in 0..SpiSeqMod - 1
    BY <1>4, SpiNumber DEF Spi!spi_send, Spi!Load
  <2>2. gTxBuf' \in [{0, 1} -> 0..SpiSeqMod]
    BY <1>4, SetupAssumption DEF Spi!SpiAssumption, Spi!spi_send, Spi!Load
  <2>3. /\ gTxDone' = FALSE /\ gRxDone' = FALSE /\ gSpiReady' \in BOOLEAN
        /\ dma' \in {"none", "armed", "shifted"} /\ pc' \in {"raise", "process"}
    BY <1>4 DEF Spi!spi_send, Spi!Load
  <2>4. faults' \in 0..setup.faults
    BY <1>4 DEF Spi!spi_send
  <2> QED
    BY <1>4, <2>1, <2>2, <2>3, <2>4 DEF Spi!spi_send, Spi!Load, Spi!master
<1>5. CASE Spi!RaiseReady
  BY <1>5 DEF Spi!RaiseReady, Spi!master
<1>6. CASE Spi!DmaDone
  BY <1>6 DEF Spi!DmaDone, Spi!spi_dma_tx_cplt, Spi!spi_dma_rx_cplt, Spi!master
<1>7. CASE Spi!spi_dma_error
  <2>1. wire' \in [cmd : 0..issued, found : {"idle", "none", "armed", "shifted"}]
    BY <1>7, WireAfterError
  <2> QED
    BY <1>7, <2>1 DEF Spi!spi_dma_error, Spi!None, Spi!Bad
<1>8. CASE Spi!Begin
  <2>1. issued <= issued' /\ issued' \in 0..setup.cmds
    BY <1>8 DEF Spi!Begin
  <2>2. wire' \in [cmd : 0..issued', found : {"idle", "none", "armed", "shifted"}]
    BY <1>8, <2>1 DEF Spi!Begin, Spi!Bad
  <2> QED
    BY <1>8, <2>1, <2>2 DEF Spi!Begin, Spi!slave
<1> QED
  BY <1>1, <1>2, <1>3, <1>4, <1>5, <1>6, <1>7, <1>8, <1>9
  DEF Spi!Next, Spi!IPC_Bridge_Run, Spi!IpcSpi_Exchange

(* Each step keeps the flags of the transport and of the DMA in step.      *)
LEMMA SpiFlagsKept ==
  ASSUME SpiTypes, SpiFlags, Spi!Next
  PROVE  SpiFlags'
<1>0. /\ wire.cmd \in 0..issued /\ wire.found \in {"idle", "none", "armed", "shifted"}
      /\ gTxDone \in BOOLEAN /\ gRxDone \in BOOLEAN /\ gSpiReady \in BOOLEAN
      /\ dma \in {"none", "armed", "shifted"} /\ callbacks \subseteq {"tx", "rx"}
  BY WireFields DEF SpiTypes
<1>1. CASE Spi!spi_process
  <2>1. CASE gTxDone /\ gRxDone
    <3>1. dma = "none"
      BY <2>1 DEF SpiFlags
    <3> QED
      BY <1>0, <1>1, <3>1 DEF SpiFlags, Spi!spi_process, Spi!master
  <2>2. CASE ~(gTxDone /\ gRxDone)
    BY <1>0, <1>1, <2>2 DEF SpiFlags, Spi!spi_process, Spi!master, Spi!Previous
  <2> QED
    BY <2>1, <2>2
<1>2. CASE Spi!spi_recv
  BY <1>2 DEF SpiFlags, Spi!spi_recv, Spi!master, Spi!Previous
<1>3. CASE Spi!NotReady
  BY <1>3 DEF SpiFlags, Spi!NotReady, Spi!master, Spi!Previous
<1>4. CASE Spi!spi_send
  <2>1. gSpiReady /\ dma = "none" /\ callbacks = {} /\ wire.found \notin {"armed", "shifted"}
    BY <1>4 DEF SpiFlags, Spi!spi_send, Spi!Load, Spi!spi_ready
  <2>2. gTxBuf'[gTxActive'] = Spi!Previous(gSeq)'
    <3>1. gSeq \in 0..SpiSeqMod - 1 /\ gTxBuf'[gTxActive'] = gSeq
      BY <1>4 DEF SpiTypes, Spi!spi_send, Spi!Load
    <3>2. Spi!Previous(gSeq') = gSeq
      BY <1>4, <3>1, SpiNumber DEF Spi!spi_send, Spi!Load
    <3> QED
      BY <3>1, <3>2 DEF Spi!Previous
  <2>3. wire' = wire /\ callbacks' = {} /\ gTxDone' = FALSE /\ gRxDone' = FALSE
        /\ (gSpiReady' => dma' = "none")
    BY <1>4, <2>1 DEF Spi!spi_send, Spi!Load, Spi!master
  <2> QED
    BY <2>1, <2>2, <2>3 DEF SpiFlags
<1>5. CASE Spi!RaiseReady
  BY <1>5 DEF SpiFlags, Spi!RaiseReady, Spi!master, Spi!Previous
<1>6. CASE Spi!DmaDone
  <2>1. dma = "none"
    BY <1>6 DEF SpiFlags, Spi!DmaDone, Spi!spi_dma_tx_cplt, Spi!spi_dma_rx_cplt
  <2>2. wire' = wire /\ dma' = "none" /\ wire.found \notin {"armed", "shifted"}
    BY <1>0, <1>6, <2>1 DEF SpiFlags, Spi!DmaDone, Spi!master
  <2>3. /\ gSpiReady' => callbacks' = {}
        /\ gTxDone' /\ gRxDone' => gSpiReady'
        /\ "tx" \in callbacks' => ~gTxDone'
        /\ "rx" \in callbacks' => ~gRxDone'
    <3>1. CASE Spi!spi_dma_tx_cplt
      BY <1>0, <3>1 DEF SpiFlags, Spi!spi_dma_tx_cplt
    <3>2. CASE Spi!spi_dma_rx_cplt
      BY <1>0, <3>2 DEF SpiFlags, Spi!spi_dma_rx_cplt
    <3> QED
      BY <1>6, <3>1, <3>2 DEF Spi!DmaDone
  <2> QED
    BY <2>2, <2>3 DEF SpiFlags
<1>7. CASE Spi!spi_dma_error
  <2>1. callbacks' = {} /\ dma' = "none" /\ gSpiReady'
    BY <1>7 DEF SpiFlags, Spi!spi_dma_error, Spi!None
  <2> QED
    BY <1>7, <2>1, WireAfterError DEF SpiFlags
<1>8. CASE Spi!Begin
  <2>1. wire'.found = dma
    BY <1>8 DEF Spi!Begin
  <2> QED
    BY <1>0, <1>8, <2>1 DEF SpiFlags, Spi!Begin, Spi!slave, Spi!Previous
<1>9. CASE Spi!End
  <2>1. wire.found # "idle"
    BY <1>9, WireFields DEF Spi!End, SpiFlags
  <2>2. CASE dma' = "none" /\ callbacks' = {"tx", "rx"} /\ wire.found \in {"armed", "shifted"}
    BY <1>9, <2>2, Ends DEF SpiFlags, Spi!End
  <2>3. CASE dma # "none" /\ callbacks' = callbacks /\ dma' = "shifted"
    BY <1>9, <2>3, Ends DEF SpiFlags, Spi!End, Spi!Previous
  <2>4. CASE callbacks' = callbacks /\ dma' = dma
    BY <1>9, <2>4, Ends DEF SpiFlags, Spi!End, Spi!Previous
  <2> QED
    BY <1>9, <2>1, <2>2, <2>3, <2>4, Ends
<1> QED
  BY <1>1, <1>2, <1>3, <1>4, <1>5, <1>6, <1>7, <1>8, <1>9
  DEF Spi!Next, Spi!IPC_Bridge_Run, Spi!IpcSpi_Exchange

(* A step leaves the buffer alone that is being sent, and what the master  *)
(* accepts was packed last.                                                *)
LEMMA SpiBuffers ==
  ASSUME SpiTypes, SpiFlags, Spi!Next
  PROVE  Spi!BufferStable /\ Spi!ReportIsLatest
<1>1. CASE Spi!spi_process
  BY <1>1 DEF SpiFlags, Spi!spi_process, Spi!master, Spi!BufferStable, Spi!ReportIsLatest, Spi!None
<1>2. CASE Spi!spi_send
  BY <1>2 DEF SpiFlags, Spi!spi_send, Spi!Load, Spi!spi_ready, Spi!master, Spi!BufferStable,
              Spi!ReportIsLatest, Spi!None
<1>3. CASE Spi!End
  <2>1. wire.found # "idle"
    BY <1>3, WireFields DEF Spi!End, SpiFlags
  <2>2. got' = got \/ (dma # "none" /\ got' = gTxBuf[gTxActive])
    BY <1>3, <2>1, Ends DEF SpiFlags
  <2> QED
    BY <1>3, <2>2 DEF SpiFlags, Spi!End, Spi!BufferStable, Spi!ReportIsLatest
<1>4. CASE Spi!spi_recv \/ Spi!NotReady \/ Spi!RaiseReady \/ Spi!DmaDone \/ Spi!spi_dma_error
           \/ Spi!Begin
  BY <1>4 DEF Spi!spi_recv, Spi!NotReady, Spi!RaiseReady, Spi!DmaDone, Spi!spi_dma_error,
              Spi!Begin, Spi!slave, Spi!master, Spi!BufferStable, Spi!ReportIsLatest
<1> QED
  BY <1>1, <1>2, <1>3, <1>4 DEF Spi!Next, Spi!IPC_Bridge_Run, Spi!IpcSpi_Exchange

(* What a step makes of the commands: one is queued, one is given, one     *)
(* goes on the wire, one arrives, one is spoilt by an error, or they stay  *)
(* where they are, if none is forgotten.                                   *)
SpiQueues ==
  /\ Fresh /\ ~Fresh' /\ UNCHANGED <<gCmdRead, applied, given, issued, faults, wire>>
  /\ gCmdRing' = [gCmdRing EXCEPT ![gCmdWrite] = gRxBuf]
  /\ gCmdWrite' = IF After(gCmdWrite) # gCmdRead THEN After(gCmdWrite) ELSE gCmdWrite
SpiGives ==
  /\ gCmdRead # gCmdWrite /\ gCmdRead' = After(gCmdRead)
  /\ applied' = gCmdRing[gCmdRead] /\ given' = given + 1
  /\ (Fresh' => Fresh) /\ UNCHANGED <<gRxBuf, gCmdRing, gCmdWrite, issued, faults, wire>>
SpiIssues ==
  /\ issued' = issued + 1 /\ wire'.cmd = issued' /\ ~OnWire
  /\ (Fresh' => Fresh) /\ UNCHANGED <<gRxBuf, gCmdRing, gCmdRead, gCmdWrite, applied, given, faults>>
SpiArrives ==
  /\ OnWire /\ ~Fresh /\ ~OnWire' /\ gRxBuf' = wire.cmd
  /\ UNCHANGED <<gCmdRing, gCmdRead, gCmdWrite, applied, given, faults, issued>>
SpiSpoils ==
  /\ setup.harsh /\ faults' = faults + 1 /\ (OnWire' => OnWire)
  /\ UNCHANGED <<gCmdRing, gCmdRead, gCmdWrite, applied, given, issued>>
SpiKeeps ==
  /\ (Fresh' => Fresh /\ gRxBuf' = gRxBuf) /\ (OnWire' => OnWire /\ wire'.cmd = wire.cmd)
  /\ faults' \in {faults, faults + 1}
  /\ UNCHANGED <<gCmdRing, gCmdRead, gCmdWrite, applied, given, issued>>

LEMMA SpiMoves ==
  ASSUME SpiTypes, SpiFlags, Spi!Next
  PROVE  \/ SpiQueues \/ SpiGives \/ SpiIssues \/ SpiArrives \/ SpiSpoils \/ SpiKeeps
<1>0. /\ wire.cmd \in 0..issued /\ wire.found \in {"idle", "none", "armed", "shifted"}
      /\ callbacks \subseteq {"tx", "rx"} /\ issued \in Nat /\ faults \in Nat
      /\ gCmdRead \in Slots /\ gCmdWrite \in Slots
  <2>1. setup.cmds \in Nat /\ setup.faults \in Nat
    BY SetupFields DEF SpiTypes
  <2> QED
    BY <2>1, WireFields DEF SpiTypes
<1>1. CASE Spi!spi_process
  <2>1. ASSUME gTxDone /\ gRxDone /\ gRxBuf # 0
        PROVE  SpiQueues
    <3>1. Fresh /\ ~Fresh'
      BY <1>1, <2>1 DEF Fresh, SpiFlags, Spi!spi_process
    <3> QED
      BY <1>0, <1>1, <2>1, <3>1, NextSlot
      DEF SpiQueues, Spi!spi_process, Spi!Enqueue, Spi!Bad, Spi!master
  <2>2. ASSUME ~(gTxDone /\ gRxDone /\ gRxBuf # 0)
        PROVE  SpiKeeps
    BY <1>0, <1>1, <2>2 DEF SpiKeeps, Fresh, OnWire, Spi!spi_process, Spi!Bad, Spi!master
  <2> QED
    BY <2>1, <2>2
<1>2. CASE Spi!spi_recv
  <2>1. CASE gCmdRead # gCmdWrite
    <3> SpiGives
      BY <1>0, <1>2, <2>1, NextSlot DEF SpiGives, Fresh, Spi!spi_recv, Spi!master
    <3> QED
      OBVIOUS
  <2>2. CASE gCmdRead = gCmdWrite
    <3> SpiKeeps
      BY <1>2, <2>2 DEF SpiKeeps, Fresh, OnWire, Spi!spi_recv, Spi!master
    <3> QED
      OBVIOUS
  <2> QED
    BY <2>1, <2>2
<1>3. ASSUME Spi!NotReady
      PROVE  SpiKeeps
  BY <1>3 DEF SpiKeeps, SpiFlags, Fresh, OnWire, Spi!NotReady, Spi!spi_ready, Spi!master
<1>4. ASSUME Spi!spi_send
      PROVE  SpiKeeps
  BY <1>4 DEF SpiKeeps, Fresh, OnWire, Spi!spi_send, Spi!Load, Spi!master
<1>5. ASSUME Spi!RaiseReady
      PROVE  SpiKeeps
  BY <1>5 DEF SpiKeeps, Fresh, OnWire, Spi!RaiseReady, Spi!master
<1>6. ASSUME Spi!DmaDone
      PROVE  SpiKeeps
  BY <1>6 DEF SpiKeeps, Fresh, OnWire, Spi!DmaDone, Spi!spi_dma_tx_cplt, Spi!spi_dma_rx_cplt, Spi!master
<1>7. ASSUME Spi!spi_dma_error
      PROVE  SpiSpoils
  BY <1>7, WireAfterError DEF SpiSpoils, OnWire, Spi!spi_dma_error
<1>8. CASE Spi!Begin
  <2>1. wire.cmd = 0
    BY <1>8 DEF Spi!Begin, Spi!NoTransfer, Spi!Bad
  <2>2. CASE issued' = issued + 1 /\ wire' = [cmd |-> issued', found |-> dma]
    <3> SpiIssues
      BY <1>8, <2>1, <2>2 DEF SpiIssues, OnWire, Fresh, Spi!Begin, Spi!slave
    <3> QED
      OBVIOUS
  <2>3. CASE wire' = [cmd |-> 0, found |-> dma] /\ issued' = issued
    <3> SpiKeeps
      BY <1>8, <2>1, <2>3 DEF SpiKeeps, OnWire, Fresh, Spi!Begin, Spi!slave
    <3> QED
      OBVIOUS
  <2> QED
    BY <1>8, <2>2, <2>3 DEF Spi!Begin, Spi!Bad
<1>9. CASE Spi!End
  <2>1. wire.found # "idle" /\ ~OnWire'
    BY <1>9, WireFields, Ends DEF Spi!End, SpiFlags, OnWire
  <2>2. CASE wire.found = "armed" /\ OnWire
    <3>1. ~Fresh /\ gRxBuf' = wire.cmd
      BY <1>9, <2>2, Ends DEF SpiFlags, Fresh
    <3> SpiArrives
      BY <1>9, <2>1, <2>2, <3>1 DEF SpiArrives, Spi!End
    <3> QED
      OBVIOUS
  <2>3. CASE ~(wire.found = "armed" /\ OnWire)
    <3>1. Fresh' => Fresh /\ gRxBuf' = gRxBuf
      BY <1>9, <2>1, <2>3, Ends DEF SpiFlags, Fresh, OnWire, Spi!End
    <3> SpiKeeps
      BY <1>9, <2>1, <3>1 DEF SpiKeeps, Spi!End
    <3> QED
      OBVIOUS
  <2> QED
    BY <2>2, <2>3
<1> QED
  BY <1>1, <1>2, <1>3, <1>4, <1>5, <1>6, <1>7, <1>8, <1>9
  DEF Spi!Next, Spi!IPC_Bridge_Run, Spi!IpcSpi_Exchange

(* Each step keeps the count of the commands, and their order.             *)
LEMMA SpiNumbers ==
  ASSUME SpiTypes
  PROVE  /\ issued \in Nat /\ applied \in Nat /\ given \in Nat /\ faults \in Nat
         /\ gRxBuf \in Nat /\ wire.cmd \in Nat /\ gCmdRing \in [Slots -> Nat]
         /\ gCmdRead \in Slots /\ gCmdWrite \in Slots /\ applied <= issued
         /\ Place(gCmdWrite, gCmdRead) \in Nat
         /\ \A i \in Slots : gCmdRing[i] \in Nat
<1>1. setup.cmds \in Nat /\ setup.faults \in Nat
  BY SetupFields DEF SpiTypes
<1>2. wire.cmd \in 0..issued /\ issued \in Nat
  BY <1>1, WireFields DEF SpiTypes
<1> QED
  BY <1>1, <1>2, PlaceLeft DEF SpiTypes

LEMMA SpiCountKept ==
  ASSUME SpiTypes, SpiFlags, SpiCount, Spi!Next, SpiTypes'
  PROVE  SpiCount'
<1> DEFINE len == Place(gCmdWrite, gCmdRead)
<1>0. len \in Nat /\ issued \in Nat /\ given \in Nat /\ faults \in Nat
      /\ len' = Place(gCmdWrite', gCmdRead')
  BY SpiNumbers DEF Place
<1>1. ASSUME SpiQueues
      PROVE  SpiCount'
  <2>1. len' <= len + 1 /\ len' \in Nat
    <3>1. \A r, w \in Slots : After(w) # r => Place(After(w), r) = Place(w, r) + 1
      BY DEF Slots, After, Place
    <3>2. gCmdRead \in Slots /\ gCmdWrite \in Slots /\ gCmdRead' = gCmdRead
      BY <1>1, SpiNumbers DEF SpiQueues
    <3>3. gCmdWrite' = IF After(gCmdWrite) # gCmdRead THEN After(gCmdWrite) ELSE gCmdWrite
      BY <1>1 DEF SpiQueues
    <3> QED
      BY <1>0, <3>1, <3>2, <3>3
  <2>2. OnWire' = OnWire /\ Fresh /\ ~Fresh'
    BY <1>1 DEF SpiQueues, OnWire
  <2> HIDE DEF len
  <2> QED
    BY <1>0, <1>1, <2>1, <2>2 DEF SpiQueues, SpiCount, len
<1>2. ASSUME SpiGives
      PROVE  SpiCount'
  <2>1. len' = len - 1
    BY <1>2, PlaceLeft, SpiNumbers DEF SpiGives
  <2> QED
    BY <1>0, <1>2, <2>1 DEF SpiGives, SpiCount, OnWire
<1>3. ASSUME SpiIssues \/ SpiArrives \/ SpiKeeps \/ SpiSpoils
      PROVE  SpiCount'
  <2>1. len' = len
    BY <1>3 DEF SpiIssues, SpiArrives, SpiKeeps, SpiSpoils, Place
  <2> HIDE DEF len
  <2> QED
    BY <1>0, <1>3, <2>1 DEF SpiIssues, SpiArrives, SpiKeeps, SpiSpoils, SpiCount, len
<1> QED
  BY <1>1, <1>2, <1>3, SpiMoves

LEMMA SpiOrderKept ==
  ASSUME SpiTypes, SpiFlags, SpiOrder, ~setup.harsh, Spi!Next
  PROVE  SpiOrder'
<1> DEFINE Below(ring, r, w, low, n) == low <= n /\ Queued(ring, r, w, low, n)
<1>0. /\ issued \in Nat /\ gRxBuf \in Nat /\ wire.cmd \in Nat /\ applied \in Nat
      /\ gCmdRing \in [Slots -> Nat] /\ gCmdRead \in Slots /\ gCmdWrite \in Slots
      /\ After(gCmdRead) \in Slots /\ After(gCmdWrite) \in Slots
      /\ gRxBuf <= issued
  BY SpiNumbers, NextSlot DEF SpiTypes
<1>1. \A ring \in [Slots -> Nat], r, w \in Slots, low \in Nat, m, n \in Int :
        m <= n /\ Below(ring, r, w, low, m) => Below(ring, r, w, low, n)
  BY QueuedUpTo
<1>2. \A n : /\ SpiBelow(n) <=> Below(gCmdRing, gCmdRead, gCmdWrite, applied, n)
             /\ SpiBelow(n)' <=> Below(gCmdRing', gCmdRead', gCmdWrite', applied', n)
  BY DEF SpiBelow
<1> HIDE DEF Below
<1>3. ASSUME SpiQueues
      PROVE  SpiOrder'
  <2>1. /\ Below(gCmdRing, gCmdRead, gCmdWrite, applied, gRxBuf - 1)
        /\ OnWire => gRxBuf <= issued - 1 /\ wire.cmd = issued
    BY <1>0, <1>2, <1>3 DEF SpiOrder, SpiQueues
  <2>2. Queued(gCmdRing', gCmdRead, gCmdWrite', applied, gRxBuf) /\ applied <= gRxBuf
    <3>1. /\ Queued(gCmdRing, gCmdRead, gCmdWrite, applied, gRxBuf - 1)
          /\ applied <= gRxBuf - 1 /\ gRxBuf - 1 \in Int /\ gRxBuf - 1 < gRxBuf
      BY <1>0, <2>1 DEF Below
    <3>2. Queued([gCmdRing EXCEPT ![gCmdWrite] = gRxBuf], gCmdRead,
                 IF After(gCmdWrite) # gCmdRead THEN After(gCmdWrite) ELSE gCmdWrite,
                 applied, gRxBuf)
      BY ONLY <1>0, <3>1, Enqueued
    <3> QED
      BY <1>0, <1>3, <3>1, <3>2 DEF SpiQueues
  <2>3. gCmdRing' \in [Slots -> Nat] /\ gCmdWrite' \in Slots
    BY <1>0, <1>3 DEF SpiQueues
  <2>4. \A n \in Int : gRxBuf <= n => SpiBelow(n)'
    <3>1. Below(gCmdRing', gCmdRead, gCmdWrite', applied, gRxBuf)
      BY <2>2 DEF Below
    <3>2. \A n \in Int : gRxBuf <= n => Below(gCmdRing', gCmdRead, gCmdWrite', applied, n)
      BY ONLY <1>0, <1>1, <2>3, <3>1
    <3> QED
      BY <1>2, <1>3, <3>2 DEF SpiQueues
  <2> QED
    BY <1>0, <1>3, <2>1, <2>4 DEF SpiQueues, SpiOrder, OnWire
<1>4. ASSUME SpiGives
      PROVE  SpiOrder'
  <2>1. \A n \in Int : SpiBelow(n) => SpiBelow(n)'
    BY <1>0, <1>2, <1>4, Dequeued DEF SpiGives, Below
  <2>2. UNCHANGED <<issued, gRxBuf, wire>> /\ (Fresh' => Fresh)
    BY <1>4 DEF SpiGives
  <2> QED
    BY <1>0, <2>1, <2>2 DEF SpiOrder, OnWire
<1>5. ASSUME SpiIssues
      PROVE  SpiOrder'
  <2>1. \A n : SpiBelow(n)' <=> SpiBelow(n)
    BY <1>2, <1>5 DEF SpiIssues
  <2>2. SpiBelow(issued) /\ SpiBelow(issued + 1)
    BY <1>0, <1>1, <1>2 DEF SpiOrder
  <2> QED
    BY <1>0, <1>5, <2>1, <2>2 DEF SpiIssues, SpiOrder, OnWire
<1>6. ASSUME SpiArrives
      PROVE  SpiOrder'
  <2>1. \A n : SpiBelow(n)' <=> SpiBelow(n)
    BY <1>2, <1>6 DEF SpiArrives
  <2> QED
    BY <1>0, <1>6, <2>1 DEF SpiArrives, SpiOrder
<1>7. ASSUME SpiKeeps
      PROVE  SpiOrder'
  <2>1. \A n : SpiBelow(n)' <=> SpiBelow(n)
    BY <1>2, <1>7 DEF SpiKeeps
  <2> QED
    BY <1>0, <1>7, <2>1 DEF SpiKeeps, SpiOrder
<1> QED
  BY <1>3, <1>4, <1>5, <1>6, <1>7, SpiMoves DEF SpiSpoils

(* Without faults harsher than a refusal, a step issues a command, or      *)
(* gives one that is newer than the last.                                  *)
LEMMA SpiLink ==
  ASSUME SpiTypes, SpiFlags, SpiOrder, ~setup.harsh, Spi!Next
  PROVE  \/ issued' = issued + 1 /\ UNCHANGED <<applied, given>>
         \/ applied' \in applied + 1 .. issued /\ given' = given + 1 /\ UNCHANGED issued
         \/ UNCHANGED <<issued, applied, given>>
<1>1. ASSUME SpiGives
      PROVE  applied' \in applied + 1 .. issued /\ given' = given + 1 /\ UNCHANGED issued
  <2>1. Queued(gCmdRing, gCmdRead, gCmdWrite, applied, issued)
    BY DEF SpiOrder, SpiBelow
  <2>2. applied < gCmdRing[gCmdRead] /\ gCmdRing[gCmdRead] <= issued
    BY <1>1, <2>1, SpiNumbers, Dequeued DEF SpiGives
  <2> QED
    BY <1>1, <2>2, SpiNumbers DEF SpiGives
<1> QED
  BY <1>1, SpiMoves DEF SpiQueues, SpiIssues, SpiArrives, SpiKeeps, SpiSpoils

-----------------------------------------------------------------------------
(* USB.  The types, but for the bound on the commands given.               *)
UsbTypes ==
  /\ setup \in Setup /\ gUsbConfigured \in BOOLEAN /\ gTxHead \in Slots /\ gTxTail \in Slots
  /\ gTxBusy \in BOOLEAN /\ gTxRing \in [Slots -> 0..UsbSeqMod]
  /\ gUsbRing \in [Slots -> 0..usb_issued] /\ gCmdHead \in Slots /\ gCmdTail \in Slots
  /\ usb_seq \in 0..UsbSeqMod - 1 /\ epIn \in Slots \cup {4} /\ epOut \in Slots \cup {4}
  /\ usb_pc \in {"recv", "commit", "send", "store", "busy", "transmit"}
  /\ tail \in Slots /\ next \in Slots
  /\ usb_issued \in 0..setup.cmds /\ usb_applied \in 0..usb_issued /\ usb_given \in Nat
  /\ usb_got \in 0..UsbSeqMod /\ attached \in BOOLEAN /\ resets \in 0..setup.faults

(* The slot armed for the controller is the one to be written next.        *)
UsbArmed == epOut # 4 => epOut = gCmdHead

(* Unless resets come inside functions, usb_recv holds the tail it read    *)
(* and the commands are in order, and the ring of reports has at most the  *)
(* one that is on its way.                                                 *)
UsbOrder ==
  /\ usb_pc = "commit" => tail = gCmdTail /\ gCmdTail # gCmdHead
  /\ usb_given <= usb_applied
  /\ Queued(gUsbRing, gCmdTail, gCmdHead, usb_applied, usb_issued)

Packed == gTxHead = After(gTxTail) /\ gTxRing[gTxTail] = Usb!Previous(usb_seq)

UsbReports ==
  /\ usb_pc \in {"recv", "commit", "send"} =>
       IF gTxBusy THEN gTxHead = After(gTxTail) /\ (epIn # 4 => Packed /\ epIn = gTxTail)
       ELSE gTxHead = gTxTail /\ epIn = 4
  /\ usb_pc = "store" => ~gTxBusy /\ gTxHead = gTxTail /\ next = After(gTxHead) /\ epIn = 4
  /\ usb_pc = "busy" => ~gTxBusy /\ Packed /\ epIn = 4
  /\ usb_pc = "transmit" => gTxBusy /\ Packed /\ epIn = 4

UsbInv == /\ UsbTypes /\ UsbArmed
          /\ ~setup.harsh => UsbOrder /\ UsbReports

(* The numbers of the reports go round.                                    *)
LEMMA UsbNumber ==
  ASSUME NEW g \in 0..UsbSeqMod - 1
  PROVE  /\ (g + 1) % UsbSeqMod \in 0..UsbSeqMod - 1
         /\ Usb!Previous((g + 1) % UsbSeqMod) = g
<1>1. UsbSeqMod \in Nat /\ UsbSeqMod > 1
  BY SetupAssumption DEF Usb!UsbAssumption
<1>2. CASE g = UsbSeqMod - 1
  <2>1. g + 1 = UsbSeqMod
    BY <1>1, <1>2
  <2>2. UsbSeqMod % UsbSeqMod = 0
    BY <1>1, SMT
  <2> QED
    BY <1>1, <1>2, <2>1, <2>2 DEF Usb!Previous
<1>3. CASE g # UsbSeqMod - 1
  <2>1. g + 1 \in 1..UsbSeqMod - 1
    BY <1>1, <1>3
  <2>2. (g + 1) % UsbSeqMod = g + 1
    BY <1>1, <2>1, SMT
  <2> QED
    BY <1>1, <2>1, <2>2 DEF Usb!Previous
<1> QED
  BY <1>2, <1>3

LEMMA UsbSlot == \A i \in Slots : Usb!Succ(i) = After(i) /\ After(i) \in Slots
  BY NextSlot DEF Usb!Succ

(* What the host sends: a command, which is queued if there is room, or    *)
(* something else.                                                         *)
UsbQueues ==
  /\ usb_issued < setup.cmds /\ usb_issued' = usb_issued + 1 /\ epOut' = gCmdHead'
  /\ gUsbRing' = [gUsbRing EXCEPT ![gCmdHead] = usb_issued + 1]
  /\ gCmdHead' = IF After(gCmdHead) # gCmdTail THEN After(gCmdHead) ELSE gCmdHead
UsbSpoils ==
  /\ gUsbRing' = [gUsbRing EXCEPT ![gCmdHead] = 0]
  /\ UNCHANGED <<usb_issued, gCmdHead>> /\ epOut' = gCmdHead'

LEMMA UsbOut ==
  ASSUME UsbTypes, UsbArmed, Usb!DataOut
  PROVE  UsbQueues \/ UsbSpoils
<1>1. epOut = gCmdHead /\ Usb!Succ(gCmdHead) = After(gCmdHead)
  BY UsbSlot DEF UsbTypes, UsbArmed, Usb!DataOut, Usb!None
<1> QED
  BY <1>1 DEF UsbQueues, UsbSpoils, Usb!DataOut, Usb!cdc_data_out, Usb!Bad

(* Each step keeps the types.                                              *)
LEMMA UsbTypesKept ==
  ASSUME UsbTypes, UsbArmed, Usb!Next
  PROVE  UsbTypes' /\ UsbArmed'
<1>0. setup' = setup /\ setup.cmds \in Nat /\ setup.faults \in Nat /\ 0 \in Slots
      /\ UsbSeqMod \in Nat /\ UsbSeqMod > 1 /\ resets \in 0..setup.faults
      /\ usb_issued \in 0..setup.cmds
  BY SetupFields, SetupAssumption DEF UsbTypes, Usb!Next, Slots, Usb!UsbAssumption
<1>a. resets < setup.faults /\ resets' = resets + 1 => resets' \in 0..setup.faults
  BY <1>0
<1> USE DEF UsbTypes, UsbArmed, Usb!tx, Usb!rx, Usb!bridge, Usb!None
<1>1. CASE Usb!usb_recv
  BY <1>0, <1>1 DEF Usb!usb_recv
<1>2. CASE Usb!usb_recv_end
  <2>1. gUsbRing[tail] \in 0..usb_issued
    OBVIOUS
  <2> QED
    BY <1>0, <1>2, <2>1, UsbSlot DEF Usb!usb_recv_end
<1>3. CASE Usb!usb_send
  <2>1. usb_seq' \in 0..UsbSeqMod - 1 /\ next' \in Slots /\ usb_pc' \in {"store", "recv"}
    BY <1>3, UsbNumber, UsbSlot DEF Usb!usb_send
  <2> QED
    BY <1>0, <1>3, <2>1 DEF Usb!usb_send
<1>4. CASE Usb!usb_send_store
  <2>1. Usb!Previous(usb_seq) \in 0..UsbSeqMod
    BY <1>0 DEF Usb!Previous
  <2> QED
    BY <1>0, <1>4, <2>1 DEF Usb!usb_send_store
<1>5. CASE Usb!usb_send_busy
  BY <1>0, <1>5 DEF Usb!usb_send_busy
<1>6. CASE Usb!usb_send_transmit
  BY <1>0, <1>6 DEF Usb!usb_send_transmit
<1>7. CASE Usb!DataOut
  <2>1. UNCHANGED <<gUsbConfigured, gTxHead, gTxTail, gTxBusy, gTxRing, epIn, usb_got, usb_seq,
                    gCmdTail, usb_pc, tail, next, usb_applied, usb_given, attached, resets>>
    BY <1>7 DEF Usb!DataOut
  <2>2. CASE UsbQueues
    <3>1. usb_issued + 1 \in 0..setup.cmds
      BY <1>0, <2>2 DEF UsbQueues
    <3>2. gUsbRing' \in [Slots -> 0..usb_issued']
      BY <1>0, <2>2 DEF UsbQueues
    <3> QED
      BY <1>0, <2>1, <2>2, <3>1, <3>2, UsbSlot DEF UsbQueues
  <2>3. CASE UsbSpoils
    BY <1>0, <2>1, <2>3 DEF UsbSpoils
  <2> QED
    BY <1>7, <2>2, <2>3, UsbOut
<1>8. CASE Usb!DataIn
  <2>1. gTxRing[epIn] \in 0..UsbSeqMod /\ gTxTail' \in Slots
    BY <1>8, UsbSlot DEF Usb!DataIn, Usb!cdc_data_in
  <2> QED
    BY <1>0, <1>8, <2>1 DEF Usb!DataIn, Usb!cdc_data_in
<1>9. CASE Usb!Configure
  BY <1>0, <1>9 DEF Usb!Configure
<1>10. CASE Usb!SetConfigurationZero
  <2>1. resets' \in 0..setup.faults
    BY <1>10, <1>a DEF Usb!SetConfigurationZero
  <2> QED
    BY <1>0, <1>10, <2>1 DEF Usb!SetConfigurationZero
<1>11. CASE Usb!Plug \/ Usb!ResetAgain
  <2>1. resets' \in 0..setup.faults /\ attached' \in BOOLEAN
    BY <1>0, <1>11, <1>a DEF Usb!Plug, Usb!ResetAgain
  <2>2. Usb!Reset
    BY <1>11 DEF Usb!Plug, Usb!ResetAgain
  <2> QED
    BY <1>0, <2>1, <2>2 DEF Usb!Reset, Usb!cdc_reset
<1>12. CASE Usb!cdc_disconnect
  <2>1. resets' \in 0..setup.faults
    BY <1>12, <1>a DEF Usb!cdc_disconnect
  <2> QED
    BY <1>0, <1>12, <2>1 DEF Usb!cdc_disconnect
<1> QED
  BY <1>1, <1>2, <1>3, <1>4, <1>5, <1>6, <1>7, <1>8, <1>9, <1>10, <1>11, <1>12
  DEF Usb!Next, Usb!IPC_Bridge_Run, Usb!Usb

(* Unless resets come inside functions, each step keeps the commands in    *)
(* order: it issues one, gives one newer than the last, or does neither.   *)
LEMMA UsbOrderKept ==
  ASSUME UsbTypes, UsbArmed, UsbOrder, ~setup.harsh, Usb!Next
  PROVE  /\ UsbOrder'
         /\ \/ usb_issued' = usb_issued + 1 /\ UNCHANGED <<usb_applied, usb_given>>
            \/ /\ usb_applied' \in usb_applied + 1 .. usb_issued
               /\ usb_given' = usb_given + 1 /\ UNCHANGED usb_issued
            \/ UNCHANGED <<usb_issued, usb_applied, usb_given>>
<1>0. /\ usb_issued \in Nat /\ usb_applied \in Nat /\ usb_applied <= usb_issued
      /\ usb_given \in Nat /\ gUsbRing \in [Slots -> Nat]
      /\ gCmdHead \in Slots /\ gCmdTail \in Slots /\ 0 \in Slots
      /\ Queued(gUsbRing, gCmdTail, gCmdHead, usb_applied, usb_issued)
  BY SetupFields DEF UsbTypes, UsbOrder, Slots
<1>1. CASE Usb!usb_recv
  BY <1>1 DEF Usb!usb_recv, UsbOrder, Usb!rx, Usb!tx
<1>2. CASE Usb!usb_recv_end
  <2>1. tail = gCmdTail /\ gCmdTail # gCmdHead /\ gCmdTail' = After(gCmdTail)
    BY <1>0, <1>2, UsbSlot DEF UsbOrder, Usb!usb_recv_end
  <2>2. /\ usb_applied < gUsbRing[tail] /\ gUsbRing[tail] <= usb_issued
        /\ Queued(gUsbRing, After(gCmdTail), gCmdHead, gUsbRing[tail], usb_issued)
    BY <1>0, <2>1, Dequeued
  <2>3. gUsbRing[tail] \in Nat
    BY <1>0, <2>1
  <2>4. usb_applied' = gUsbRing[tail] /\ usb_given' = usb_given + 1
    BY <1>0, <1>2, <2>2, <2>3 DEF Usb!usb_recv_end, Usb!Bad
  <2>5. UNCHANGED <<gUsbRing, gCmdHead, usb_issued>> /\ usb_pc' = "send"
    BY <1>2 DEF Usb!usb_recv_end
  <2>6. Queued(gUsbRing', gCmdTail', gCmdHead', usb_applied', usb_issued')
    BY <2>1, <2>2, <2>4, <2>5
  <2>7. usb_given' <= usb_applied'
    BY <1>0, <2>2, <2>3, <2>4 DEF UsbOrder
  <2> QED
    BY <1>0, <2>2, <2>3, <2>4, <2>5, <2>6, <2>7 DEF UsbOrder
<1>3. CASE Usb!usb_send \/ Usb!usb_send_store \/ Usb!usb_send_busy \/ Usb!usb_send_transmit
  <2>1. UNCHANGED <<gUsbRing, gCmdHead, gCmdTail, usb_issued, usb_applied, usb_given>>
        /\ usb_pc' # "commit"
    BY <1>3 DEF Usb!usb_send, Usb!usb_send_store, Usb!usb_send_busy, Usb!usb_send_transmit, Usb!rx
  <2> QED
    BY <2>1 DEF UsbOrder
<1>4. CASE Usb!DataOut
  <2>1. UNCHANGED <<gCmdTail, usb_pc, tail, usb_applied, usb_given>>
    BY <1>4 DEF Usb!DataOut, Usb!bridge
  <2>2. CASE UsbQueues
    <3>1. Queued([gUsbRing EXCEPT ![gCmdHead] = usb_issued + 1], gCmdTail,
                 IF After(gCmdHead) # gCmdTail THEN After(gCmdHead) ELSE gCmdHead,
                 usb_applied, usb_issued + 1)
      <4>1. usb_issued + 1 \in Nat /\ usb_issued < usb_issued + 1 /\ usb_issued \in Int
        BY <1>0
      <4> QED
        BY ONLY <1>0, <4>1, Enqueued
    <3>2. Queued(gUsbRing', gCmdTail', gCmdHead', usb_applied', usb_issued')
      BY <2>1, <2>2, <3>1 DEF UsbQueues
    <3>3. usb_pc' = "commit" => gCmdTail' # gCmdHead'
      BY <2>1, <2>2 DEF UsbQueues, UsbOrder
    <3> QED
      BY <2>1, <2>2, <3>2, <3>3 DEF UsbQueues, UsbOrder
  <2>3. CASE UsbSpoils
    <3>1. Queued([gUsbRing EXCEPT ![gCmdHead] = 0], gCmdTail, gCmdHead, usb_applied, usb_issued)
      BY <1>0, QueuedStill
    <3>2. Queued(gUsbRing', gCmdTail', gCmdHead', usb_applied', usb_issued')
      BY <2>1, <2>3, <3>1 DEF UsbSpoils
    <3> QED
      BY <2>1, <2>3, <3>2 DEF UsbSpoils, UsbOrder
  <2> QED
    BY <1>4, <2>2, <2>3, UsbOut
<1>5. CASE Usb!DataIn \/ Usb!Configure \/ Usb!SetConfigurationZero \/ Usb!cdc_disconnect
  BY <1>5 DEF Usb!DataIn, Usb!Configure, Usb!SetConfigurationZero, Usb!cdc_disconnect,
              Usb!rx, Usb!bridge, UsbOrder
<1>6. CASE Usb!Plug \/ Usb!ResetAgain
  <2>1. /\ gCmdTail' = 0 /\ gCmdHead' = 0 /\ usb_pc # "commit"
        /\ UNCHANGED <<gUsbRing, usb_issued, usb_pc, tail, usb_applied, usb_given>>
    BY <1>6 DEF Usb!Plug, Usb!ResetAgain, Usb!Reset, Usb!cdc_reset, Usb!MayInterrupt, Usb!bridge
  <2>2. Queued(gUsbRing', gCmdTail', gCmdHead', usb_applied', usb_issued')
    BY <1>0, <2>1, QueuedNone
  <2> QED
    BY <2>1, <2>2 DEF UsbOrder
<1> QED
  BY <1>1, <1>2, <1>3, <1>4, <1>5, <1>6 DEF Usb!Next, Usb!IPC_Bridge_Run, Usb!Usb

(* Unless resets come inside functions, each step keeps the ring of        *)
(* reports in step with usb_send, and what the host receives was packed    *)
(* last.                                                                   *)
LEMMA UsbReportsKept ==
  ASSUME UsbTypes, UsbReports, ~setup.harsh, Usb!Next
  PROVE  UsbReports' /\ Usb!ReportIsLatest
<1>0. /\ gTxHead \in Slots /\ gTxTail \in Slots /\ gTxBusy \in BOOLEAN /\ next \in Slots
      /\ usb_pc \in {"recv", "commit", "send", "store", "busy", "transmit"}
      /\ \A i \in Slots : After(i) # i
  BY DEF UsbTypes, Slots, After
<1>1. CASE Usb!usb_recv
  BY <1>1 DEF Usb!usb_recv, Usb!tx, UsbReports, Packed, Usb!ReportIsLatest, Usb!Previous
<1>2. CASE Usb!usb_recv_end
  BY <1>2 DEF Usb!usb_recv_end, Usb!tx, UsbReports, Packed, Usb!ReportIsLatest, Usb!Previous
<1>3. CASE Usb!usb_send
  <2>1. CASE gUsbConfigured /\ ~gTxBusy
    <3>1. gTxHead = gTxTail /\ epIn = 4
      BY <1>3, <2>1 DEF Usb!usb_send, UsbReports
    <3>2. UNCHANGED <<gTxHead, gTxTail, gTxBusy, gTxRing, epIn, usb_got>>
          /\ usb_pc' = "store" /\ next' = After(gTxHead)
      BY <1>0, <1>3, <2>1, <3>1, UsbSlot DEF Usb!usb_send
    <3> QED
      BY <2>1, <3>1, <3>2 DEF UsbReports, Usb!ReportIsLatest
  <2>2. CASE ~(gUsbConfigured /\ ~gTxBusy)
    BY <1>3, <2>2 DEF Usb!usb_send, UsbReports, Packed, Usb!ReportIsLatest, Usb!Previous
  <2> QED
    BY <2>1, <2>2
<1>4. CASE Usb!usb_send_store
  <2>1. gTxRing'[gTxTail] = Usb!Previous(usb_seq)
    BY <1>0, <1>4 DEF Usb!usb_send_store, UsbReports, UsbTypes
  <2> QED
    BY <1>4, <2>1 DEF Usb!usb_send_store, UsbReports, Packed, Usb!ReportIsLatest, Usb!Previous
<1>5. CASE Usb!usb_send_busy
  BY <1>5 DEF Usb!usb_send_busy, UsbReports, Packed, Usb!ReportIsLatest, Usb!Previous
<1>6. CASE Usb!usb_send_transmit
  BY <1>6 DEF Usb!usb_send_transmit, UsbReports, Packed, Usb!ReportIsLatest, Usb!Previous
<1>7. CASE Usb!DataIn
  <2>1. usb_pc \in {"recv", "commit", "send"} /\ gTxBusy /\ Packed /\ epIn = gTxTail
    BY <1>0, <1>7 DEF Usb!DataIn, UsbReports, Usb!None
  <2>2. gTxTail' = After(gTxTail) /\ gTxBusy' = FALSE /\ epIn' = 4
        /\ usb_got' = gTxRing[gTxTail] /\ UNCHANGED <<gTxHead, usb_pc, usb_seq>>
    BY <1>0, <1>7, <2>1, UsbSlot DEF Usb!DataIn, Usb!cdc_data_in, Usb!None, Usb!bridge
  <2> QED
    BY <2>1, <2>2 DEF UsbReports, Packed, Usb!ReportIsLatest
<1>8. CASE Usb!DataOut \/ Usb!Configure
  <2>1. UNCHANGED <<gTxHead, gTxTail, gTxBusy, gTxRing, epIn, usb_got, usb_seq, usb_pc, next>>
    BY <1>8 DEF Usb!DataOut, Usb!Configure, Usb!tx, Usb!bridge
  <2> QED
    BY <2>1 DEF UsbReports, Packed, Usb!ReportIsLatest, Usb!Previous
<1>9. CASE Usb!Plug \/ Usb!ResetAgain
  BY <1>9 DEF Usb!Plug, Usb!ResetAgain, Usb!Reset, Usb!cdc_reset, Usb!MayInterrupt, Usb!bridge,
              Usb!None, UsbReports, Usb!ReportIsLatest
<1>10. CASE Usb!cdc_disconnect
  BY <1>10 DEF Usb!cdc_disconnect, Usb!MayInterrupt, Usb!bridge, Usb!None, UsbReports,
               Usb!ReportIsLatest
<1> QED
  BY <1>1, <1>2, <1>3, <1>4, <1>5, <1>6, <1>7, <1>8, <1>9, <1>10
  DEF Usb!Next, Usb!IPC_Bridge_Run, Usb!Usb, Usb!SetConfigurationZero

-----------------------------------------------------------------------------
(* The bench.  One transport is in use and the other one stays as it is.   *)
IpcInv == SpiInv /\ UsbInv

LEMMA SpiInvKept ==
  ASSUME SpiInv, Spi!Next
  PROVE  SpiInv'
<1>1. SpiTypes' /\ SpiFlags' /\ setup' = setup
  BY SpiTypesKept, SpiFlagsKept DEF SpiInv, Spi!Next
<1>2. SpiCount'
  BY <1>1, SpiCountKept DEF SpiInv
<1>3. ~setup.harsh => SpiOrder'
  BY SpiOrderKept DEF SpiInv
<1> QED
  BY <1>1, <1>2, <1>3 DEF SpiInv

LEMMA UsbInvKept ==
  ASSUME UsbInv, Usb!Next
  PROVE  UsbInv'
<1>1. UsbTypes' /\ UsbArmed' /\ setup' = setup
  BY UsbTypesKept DEF UsbInv, Usb!Next
<1>2. ~setup.harsh => UsbOrder' /\ UsbReports'
  BY UsbOrderKept, UsbReportsKept DEF UsbInv
<1> QED
  BY <1>1, <1>2 DEF UsbInv

LEMMA SpiInvStays == SpiInv /\ UNCHANGED <<setup, spi>> => SpiInv'
  BY DEF SpiInv, spi, SpiTypes, SpiFlags, SpiCount, SpiOrder, SpiBelow, Fresh, OnWire,
         Spi!Previous, Queued, Place

LEMMA UsbInvStays == UsbInv /\ UNCHANGED <<setup, usb>> => UsbInv'
  BY DEF UsbInv, usb, UsbTypes, UsbArmed, UsbOrder, UsbReports, Packed, Usb!Previous, Queued, Place

LEMMA IpcInvInitially == Init => IpcInv
<1> SUFFICES ASSUME Init PROVE IpcInv
  OBVIOUS
<1>0. /\ setup \in Setup /\ setup.cmds \in Nat /\ setup.faults \in Nat
      /\ SpiSeqMod \in Nat /\ SpiSeqMod > 1 /\ UsbSeqMod \in Nat /\ UsbSeqMod > 1
  BY SetupFields, SetupAssumption
  DEF Init, Spi!Init, Spi!SpiAssumption, Usb!UsbAssumption
<1>1. SpiTypes
  <2>1. /\ gTxBuf \in [{0, 1} -> 0..SpiSeqMod] /\ got \in 0..SpiSeqMod /\ gSeq \in 0..SpiSeqMod - 1
        /\ gCmdRing \in [Slots -> 0..issued] /\ gCmdWrite \in Slots /\ gCmdRead \in Slots
    BY <1>0 DEF Init, Spi!Init, Slots, Spi!Ring, Spi!Bad, Spi!NoSeq
  <2>2. /\ issued \in 0..setup.cmds /\ applied \in 0..issued /\ given \in Nat /\ gRxBuf \in 0..issued
        /\ faults \in 0..setup.faults
    BY <1>0 DEF Init, Spi!Init, Spi!Bad
  <2>3. wire \in [cmd : 0..issued, found : {"idle", "none", "armed", "shifted"}]
    BY <2>2 DEF Init, Spi!Init, Spi!NoTransfer, Spi!Bad
  <2>4. /\ gTxDone = FALSE /\ gRxDone = FALSE /\ gSpiReady = TRUE /\ rdy = FALSE
        /\ gTxActive = 0 /\ dma = "none" /\ callbacks = {} /\ pc = "process"
    BY DEF Init, Spi!Init, Spi!None
  <2> QED
    BY <1>0, <2>1, <2>2, <2>3, <2>4 DEF SpiTypes
<1>2. wire.cmd = 0 /\ wire.found = "idle"
  BY DEF Init, Spi!Init, Spi!NoTransfer, Spi!Bad
<1>3. SpiFlags
  BY <1>2 DEF Init, Spi!Init, SpiFlags, Spi!None
<1>4. SpiCount
  BY <1>2 DEF Init, Spi!Init, SpiCount, Fresh, OnWire, Place, Spi!Bad
<1>5. SpiOrder
  <2>1. Queued(gCmdRing, 0, 0, 0, 0)
    BY QueuedNone DEF Slots
  <2> QED
    BY <1>2, <2>1 DEF Init, Spi!Init, SpiOrder, SpiBelow, Fresh, OnWire, Spi!Bad
<1>6. UsbTypes /\ UsbArmed
  <2>1. /\ usb_issued \in 0..setup.cmds /\ usb_applied \in 0..usb_issued /\ usb_given \in Nat
        /\ resets \in 0..setup.faults
    BY <1>0 DEF Init, Usb!Init
  <2>2. /\ gTxRing \in [Slots -> 0..UsbSeqMod] /\ gUsbRing \in [Slots -> 0..usb_issued]
        /\ usb_seq \in 0..UsbSeqMod - 1 /\ usb_got \in 0..UsbSeqMod
    BY <1>0 DEF Init, Usb!Init, Slots, Usb!Ring, Usb!Bad, Usb!NoSeq
  <2>3. /\ gUsbConfigured = FALSE /\ gTxBusy = FALSE /\ attached = FALSE
        /\ gTxHead = 0 /\ gTxTail = 0 /\ gCmdHead = 0 /\ gCmdTail = 0 /\ tail = 0 /\ next = 0
        /\ epIn = 4 /\ epOut = 4 /\ usb_pc = "recv"
    BY DEF Init, Usb!Init, Usb!None
  <2>4. gTxHead \in Slots /\ gTxTail \in Slots /\ gCmdHead \in Slots /\ gCmdTail \in Slots
        /\ tail \in Slots /\ next \in Slots
    BY <2>3 DEF Slots
  <2> QED
    BY <1>0, <2>1, <2>2, <2>3, <2>4 DEF UsbTypes, UsbArmed
<1>7. UsbOrder
  <2>1. Queued(gUsbRing, 0, 0, 0, 0)
    BY QueuedNone DEF Slots
  <2> QED
    BY <2>1 DEF Init, Usb!Init, UsbOrder
<1>8. UsbReports
  BY DEF Init, Usb!Init, UsbReports, Usb!None
<1> QED
  BY <1>1, <1>3, <1>4, <1>5, <1>6, <1>7, <1>8 DEF IpcInv, SpiInv, UsbInv

LEMMA IpcInvKept == IpcInv /\ [Next]_vars => IpcInv'
<1> SUFFICES ASSUME IpcInv, [Next]_vars PROVE IpcInv'
  OBVIOUS
<1>1. CASE SpiStep(Spi!Next)
  BY <1>1, SpiInvKept, UsbInvStays DEF SpiStep, IpcInv
<1>2. CASE UsbStep(Usb!Next)
  BY <1>2, UsbInvKept, SpiInvStays DEF UsbStep, IpcInv
<1>3. CASE UNCHANGED vars
  BY <1>3, SpiInvStays, UsbInvStays DEF vars, IpcInv
<1> QED
  BY <1>1, <1>2, <1>3 DEF Next

LEMMA IpcInvAlways == Spec => []IpcInv
  BY IpcInvInitially, IpcInvKept, PTL DEF Spec

(* Every variable of the two transports stays in its type; in particular   *)
(* no command is given more often than it was sent, or spoilt by an error. *)
THEOREM IpcTyped == Spec => []TypeOK
<1>1. IpcInv => TypeOK
  <2> SUFFICES ASSUME IpcInv PROVE TypeOK
    OBVIOUS
  <2>1. given \in 0..issued + faults
    <3>1. given \in Nat /\ issued \in Nat /\ faults \in Nat
          /\ Place(gCmdWrite, gCmdRead) \in Nat
      BY SpiNumbers DEF IpcInv, SpiInv
    <3> QED
      BY <3>1 DEF IpcInv, SpiInv, SpiCount
  <2>2. ~setup.harsh => usb_given <= usb_issued
    <3>1. usb_given \in Nat /\ usb_issued \in Nat /\ usb_applied \in 0..usb_issued
      BY SetupFields DEF IpcInv, UsbInv, UsbTypes
    <3> QED
      BY <3>1 DEF IpcInv, UsbInv, UsbOrder
  <2>3. Spi!TypeOK
    BY <2>1 DEF IpcInv, SpiInv, SpiTypes, Spi!TypeOK, Slots, Spi!Ring, Spi!None
  <2>4. Usb!TypeOK
    BY <2>2 DEF IpcInv, UsbInv, UsbTypes, Usb!TypeOK, Slots, Usb!Ring, Usb!None
  <2> QED
    BY <2>3, <2>4 DEF TypeOK
<1> QED
  BY <1>1, IpcInvAlways, PTL

(* The buffer a DMA or a function is at work on is left alone, and what    *)
(* the master or the host accepts is the report packed last.               *)
THEOREM BuffersAlwaysHold == Spec => BuffersHold
<1>1. IpcInv /\ [Next]_vars
      => [/\ Spi!BufferStable /\ Spi!ReportIsLatest
          /\ ~setup.harsh => Usb!CopyIsStable' /\ Usb!ReportIsLatest]_vars
  <2> SUFFICES ASSUME IpcInv, Next
               PROVE  /\ Spi!BufferStable /\ Spi!ReportIsLatest
                      /\ ~setup.harsh => Usb!CopyIsStable' /\ Usb!ReportIsLatest
    OBVIOUS
  <2>1. Spi!BufferStable /\ Spi!ReportIsLatest
    <3>1. CASE SpiStep(Spi!Next)
      BY <3>1, SpiBuffers DEF SpiStep, IpcInv, SpiInv
    <3>2. CASE UsbStep(Usb!Next)
      BY <3>2 DEF UsbStep, spi, Spi!BufferStable, Spi!ReportIsLatest
    <3> QED
      BY <3>1, <3>2 DEF Next
  <2>2. ~setup.harsh => Usb!CopyIsStable'
    <3>1. UsbInv' /\ setup' = setup
      BY IpcInvKept DEF IpcInv, Next, SpiStep, UsbStep
    <3> QED
      BY <3>1 DEF UsbInv, UsbArmed, UsbOrder, UsbTypes, Slots, Usb!CopyIsStable
  <2>3. ~setup.harsh => Usb!ReportIsLatest
    <3>1. CASE SpiStep(Spi!Next)
      BY <3>1 DEF SpiStep, usb, Usb!ReportIsLatest
    <3>2. CASE UsbStep(Usb!Next)
      BY <3>2, UsbReportsKept DEF UsbStep, IpcInv, UsbInv
    <3> QED
      BY <3>1, <3>2 DEF Next
  <2> QED
    BY <2>1, <2>2, <2>3
<1> QED
  BY <1>1, IpcInvAlways, PTL DEF Spec, BuffersHold

(* Either transport implements CommandLink: the commands reach the motor   *)
(* control in order, each at most once.                                    *)
THEOREM TransportsImplementLink == Spec => InOrder
<1>1. Init => Link!Init
  BY DEF Init, Spi!Init, Usb!Init, Link!Init
<1>2. IpcInv /\ [Next]_vars => [Link!Next]_(Link!vars)
  <2> SUFFICES ASSUME IpcInv, [Next]_vars
               PROVE  [Link!Next]_(Link!vars)
    OBVIOUS
  <2>1. CASE UNCHANGED vars
    BY <2>1 DEF vars, spi, usb, Link!vars
  <2>2. CASE Next /\ setup.harsh
    BY <2>2 DEF Next, SpiStep, UsbStep, Link!vars, Spi!Next, Usb!Next
  <2>3. CASE SpiStep(Spi!Next) /\ ~setup.harsh
    <3>1. setup' = setup /\ setup.bus = "spi"
      BY <2>3 DEF SpiStep
    <3>2. \/ issued' = issued + 1 /\ UNCHANGED <<applied, given>>
          \/ applied' \in applied + 1 .. issued /\ given' = given + 1 /\ UNCHANGED issued
          \/ UNCHANGED <<issued, applied, given>>
      BY <2>3, SpiLink DEF SpiStep, IpcInv, SpiInv
    <3> QED
      BY <2>3, <3>1, <3>2 DEF Link!Next, Link!Issue, Link!Apply, Link!vars
  <2>4. CASE UsbStep(Usb!Next) /\ ~setup.harsh
    <3>1. setup' = setup /\ setup.bus = "usb"
      BY <2>4 DEF UsbStep
    <3>2. \/ usb_issued' = usb_issued + 1 /\ UNCHANGED <<usb_applied, usb_given>>
          \/ /\ usb_applied' \in usb_applied + 1 .. usb_issued
             /\ usb_given' = usb_given + 1 /\ UNCHANGED usb_issued
          \/ UNCHANGED <<usb_issued, usb_applied, usb_given>>
      BY <2>4, UsbOrderKept DEF UsbStep, IpcInv, UsbInv
    <3> QED
      BY <2>4, <3>1, <3>2 DEF Link!Next, Link!Issue, Link!Apply, Link!vars
  <2> QED
    BY <2>1, <2>2, <2>3, <2>4 DEF Next
<1> QED
  BY <1>1, <1>2, IpcInvAlways, PTL DEF Spec, InOrder, Link!Spec
=============================================================================
