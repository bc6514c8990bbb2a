SPECIFICATION Spec
CONSTANTS
  Uart = uart
  Listeners = {tcp1}
  Dialers = {dial}
  Commands <- ChannelCommands
  MaxSubs = 4
  RxCap = 2
  RxBatch = 2
  HwFifo = 2
  CounterMod = 1
  MaxChunk = 1
  MaxFrames = 0
  MaxTx = 9
  tcp1 = tcp1
  dial = dial
INVARIANT TypeOK
INVARIANT OpenCountExact
INVARIANT OnBusIffOpen
INVARIANT BitrateInForce
INVARIANT SubscribersExact
INVARIANT SubscriberSlotFree
INVARIANT ClientsExact
PROPERTY ControllerStable
PROPERTY BusOffUntilClosed
PROPERTY ImplementsChannel
