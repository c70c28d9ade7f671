CONSTANTS
  a = a
  b = b
  Node = {a, b}
  Sender = {a}
  Window = 2
  SeqCount = 8
  MaxRetries = 1
  Rto = 1
  MaxSends = 10
  Setup <- Setups
SPECIFICATION Spec
INVARIANT TypeOK WindowIsSound
PROPERTY Flushes ImplementsFifo
CONSTRAINT NothingGivenUp
CHECK_DEADLOCK FALSE
