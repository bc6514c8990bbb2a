SPECIFICATION FairSpec
CONSTANTS
  Uart = uart
  Listeners = {}
  Dialers = {dial}
  Commands <- FlowCommands
  MaxSubs = 4
  RxCap = 1
  RxBatch = 2
  HwFifo = 2
  CounterMod = 16
  MaxChunk = 1
  MaxFrames = 2
  MaxTx = 9
  dial = dial
INVARIANT SerialOutTaken
PROPERTY DeadLinkReleases
PROPERTY BacklogServed
PROPERTY FramesPublished
