SPECIFICATION PortSpec
CONSTANTS
  LineCap = 26
  ReadCap = 3
  MaxSeg = 60
  Streams <- HostStreams
  Filler = 120
  Clock <- ClockValues
INVARIANT Framing
INVARIANT Delivered
INVARIANT NothingElse
INVARIANT OutFits
PROPERTY DispatchExact
