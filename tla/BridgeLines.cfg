SPECIFICATION FairSpec
CONSTANTS
  Uart = uart
  Listeners = {tcp1}
  Dialers = {}
  Commands <- LineCommands
  MaxSubs = 4
  RxCap = 2
  RxBatch = 2
  HwFifo = 2
  CounterMod = 16
  MaxChunk = 2
  MaxFrames = 0
  MaxTx = 1
  tcp1 = tcp1
PROPERTY ChunkServed
INVARIANT TxWithinIn
