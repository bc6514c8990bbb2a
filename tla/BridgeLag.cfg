SPECIFICATION Spec
CONSTANTS
  Uart = uart
  Listeners = {tcp1}
  Dialers = {}
  Commands <- FlowCommands
  MaxSubs = 4
  RxCap = 2
  RxBatch = 2
  HwFifo = 2
  CounterMod = 1
  MaxChunk = 1
  MaxFrames = 4
  MaxTx = 9
  tcp1 = tcp1
INVARIANT NoFrameLost
