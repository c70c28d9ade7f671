CONSTANTS
  Setup <- Setups
  SpiSeqMod = 3
  UsbSeqMod = 2
SPECIFICATION Spec
INVARIANT TypeOK
PROPERTY BuffersHold InOrder LinkRecovers
CHECK_DEADLOCK FALSE
