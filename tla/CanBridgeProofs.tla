--------------------------- MODULE CanBridgeProofs ---------------------------
(***************************************************************************)
(* Theorems about CanBridge, for any number of listeners and dialers, any  *)
(* host lines and any bounds.                                              *)
(***************************************************************************)
EXTENDS CanBridge, TLAPS, FiniteSetTheorems, SequenceTheorems

-----------------------------------------------------------------------------
(* The operators the model is built from. *)

\* The ports are finitely many.
LEMMA PortsFinite == IsFiniteSet(Ports) /\ IsFiniteSet(TcpPorts)
<1>1. IsFiniteSet(TcpPorts)
  BY PortsAssumption
<1>2. Ports = TcpPorts \cup {Uart}
  BY DEF Ports
<1> QED
  BY <1>1, <1>2, FS_AddElement

\* Counting a part of the ports is well defined.
LEMMA CountPorts ==
  ASSUME NEW T, T \subseteq Ports
  PROVE  IsFiniteSet(T) /\ Cardinality(T) \in Nat /\ (Cardinality(T) = 0 <=> T = {})
<1>1. IsFiniteSet(T)
  BY PortsFinite, FS_Subset
<1> QED
  BY <1>1, FS_CardinalityType, FS_EmptySet

\* baud_from_s answers a supported bitrate or None.
LEMMA BaudTyping == \A d : BaudFromS(d) \in BitRates \cup {NoBaud}
<1>1. Timing(80, 15, 4) = 50 /\ Timing(40, 15, 4) = 100 /\ Timing(4, 16, 8) = 800
  BY DEF Timing
<1> QED
  BY <1>1 DEF BaudFromS, BitRates, NoBaud

\* A counter stays a natural number.
LEMMA BumpTyping == \A n \in Nat, b \in BOOLEAN : Bump(n, b) \in Nat /\ Bump(n, b) <= n + 1
<1> SUFFICES ASSUME NEW n \in Nat, NEW b \in BOOLEAN
             PROVE  Bump(n, b) \in Nat /\ Bump(n, b) <= n + 1
  OBVIOUS
<1>1. CASE b
  <2>1. (n + 1) % CounterMod \in Nat /\ (n + 1) % CounterMod <= n + 1
    BY BoundsAssumption
  <2> QED
    BY <1>1, <2>1 DEF Bump
<1>2. CASE ~b
  BY <1>2 DEF Bump
<1> QED
  BY <1>1, <1>2

\* A chunk that a read delivers is a non-empty sequence of lines.
LEMMA ChunkTyping == \A c \in Chunks : c \in Seq(Commands) /\ c # <<>>
<1> SUFFICES ASSUME NEW c \in Chunks
             PROVE  c \in Seq(Commands) /\ c # <<>>
  OBVIOUS
<1>1. PICK n \in 1..MaxChunk : c \in [1..n -> Commands]
  BY DEF Chunks
<1>2. n \in Nat /\ n >= 1
  BY <1>1, BoundsAssumption
<1>3. c \in Seq(Commands)
  BY <1>1, <1>2, SeqDef
<1>4. 1 \in DOMAIN c
  BY <1>1, <1>2
<1>5. c # <<>>
  BY <1>4
<1> QED
  BY <1>3, <1>5

\* Counting with one port more or less.
LEMMA CountAdd ==
  ASSUME NEW T, T \subseteq Ports, NEW p \in Ports, p \notin T
  PROVE  Cardinality(T \cup {p}) = Cardinality(T) + 1
  BY CountPorts, FS_AddElement

\* A set of ports that loses one member counts one less.
LEMMA CountDel ==
  ASSUME NEW T, T \subseteq Ports, NEW p \in T
  PROVE  Cardinality(T \ {p}) = Cardinality(T) - 1 /\ Cardinality(T) > 0
<1>1. IsFiniteSet(T) /\ Cardinality(T) \in Nat /\ Cardinality(T) # 0
  BY CountPorts
<1>2. Cardinality(T \ {p}) = Cardinality(T) - 1
  BY <1>1, FS_RemoveElement
<1> QED
  BY <1>1, <1>2

-----------------------------------------------------------------------------
(* The inductive invariant holds initially. *)

\* The firmware starts in a state of the invariant: all ports closed, the UART task
\* alone subscribed.
LEMMA InitInv == Init => Inv
<1> SUFFICES ASSUME Init PROVE Inv
  OBVIOUS
<1>1. TypeOK
  BY EmptySeq DEF Init, TypeOK, BitRates, NoBaud, DEFAULT_BAUD, PcSet, Ports
<1>2. ChannelInv
  <2>1. OpenPorts = {}
    BY DEF Init, OpenPorts, IsOpen
  <2> QED
    BY <2>1, FS_EmptySet DEF Init, ChannelInv, OpenCountExact, OnBusIffOpen,
                             BitrateInForce, BusOffOnBus
<1>3. SubscribersExact
  <2>1. Subscribed = {Uart}
    BY DEF Init, Subscribed, Ports
  <2> QED
    BY <2>1, FS_Singleton DEF Init, SubscribersExact
<1>4. ClientsExact
  <2>1. Connected = {}
    BY PortsAssumption DEF Init, Connected, Ports
  <2> QED
    BY <2>1, FS_EmptySet DEF Init, ClientsExact
<1>5. ClosedOutsideRunPort /\ BusyHasLine /\ UartNeverStops
  BY DEF Init, ClosedOutsideRunPort, IsOpen, BusyHasLine, UartNeverStops, Ports,
         InRunPort
<1>6. SerialOutTaken
  BY DEF Init, SerialOutTaken, Ports, CounterNames
<1> QED
  BY <1>1, <1>2, <1>3, <1>4, <1>5, <1>6 DEF Inv, SessionInv

-----------------------------------------------------------------------------
(* The controller follows the open flags. *)

\* A port that opens: the manager counts one port more.
LEMMA OpenStep ==
  ASSUME Inv, NEW p \in Ports, NEW mode \in {"normal", "listen"}, ~IsOpen(p),
         ManagerOpen(mode), open' = [open EXCEPT ![p] = mode]
  PROVE  ChannelInv' /\ OpenPorts' = OpenPorts \cup {p}
<1>1. OpenPorts' = OpenPorts \cup {p}
  BY DEF OpenPorts, IsOpen, Inv, TypeOK
<1>2. p \notin OpenPorts /\ OpenPorts \subseteq Ports
  BY DEF OpenPorts
<1>3. Cardinality(OpenPorts') = Cardinality(OpenPorts) + 1
  BY <1>1, <1>2, CountAdd
<1>4. open_count = 0 <=> twai = "none"
  BY <1>2, CountPorts DEF Inv, ChannelInv, OpenCountExact, OnBusIffOpen
<1>5. OpenCountExact'
  BY <1>3 DEF OpenCountExact, ManagerOpen, Inv, ChannelInv
<1>6. OnBusIffOpen'
  BY <1>1, <1>4 DEF OnBusIffOpen, ManagerOpen, Controller
<1>7. BitrateInForce'
  BY DEF BitrateInForce, ManagerOpen, Controller, Inv, ChannelInv
<1>8. BusOffOnBus'
  BY DEF BusOffOnBus, ManagerOpen, Controller, Inv, ChannelInv
<1> QED
  BY <1>1, <1>5, <1>6, <1>7, <1>8 DEF ChannelInv

\* A port that closes, if it was open: one port less.
LEMMA CloseStep ==
  ASSUME Inv, NEW p \in Ports, Deactivate(p)
  PROVE  ChannelInv' /\ OpenPorts' = OpenPorts \ {p}
<1>1. CASE ~IsOpen(p)
  <2>1. UNCHANGED <<manager, open>>
    BY <1>1 DEF Deactivate
  <2>2. OpenPorts' = OpenPorts /\ p \notin OpenPorts
    BY <1>1, <2>1 DEF OpenPorts, IsOpen
  <2> QED
    BY <2>1, <2>2 DEF manager, ChannelInv, OpenCountExact, OnBusIffOpen,
                      BitrateInForce, BusOffOnBus, Inv
<1>2. CASE IsOpen(p)
  <2>1. ManagerClose /\ open' = [open EXCEPT ![p] = "closed"]
    BY <1>2 DEF Deactivate
  <2>2. OpenPorts' = OpenPorts \ {p} /\ p \in OpenPorts /\ OpenPorts \subseteq Ports
    BY <1>2, <2>1 DEF OpenPorts, IsOpen, Inv, TypeOK
  <2>3. Cardinality(OpenPorts') = Cardinality(OpenPorts) - 1 /\ Cardinality(OpenPorts) > 0
    BY <2>2, CountDel
  <2>4. open_count > 0 /\ open_count = Cardinality(OpenPorts) /\ open_count \in Nat
    BY <2>3 DEF Inv, ChannelInv, OpenCountExact, TypeOK
  <2>5. open_count' = open_count - 1
    BY <2>1, <2>4 DEF ManagerClose
  <2>6. OpenCountExact'
    BY <2>3, <2>4, <2>5 DEF OpenCountExact
  <2>7. OpenPorts' = {} <=> open_count - 1 = 0
    <3>1. OpenPorts \ {p} \subseteq Ports
      BY <2>2
    <3>2. Cardinality(OpenPorts \ {p}) = 0 <=> OpenPorts \ {p} = {}
      BY <3>1, CountPorts
    <3> QED
      BY <3>2, <2>2, <2>3, <2>4
  <2>8. OnBusIffOpen' /\ BitrateInForce' /\ BusOffOnBus'
    BY <2>1, <2>2, <2>4, <2>7
       DEF ManagerClose, Controller, OnBusIffOpen, BitrateInForce, BusOffOnBus, Inv,
           ChannelInv
  <2> QED
    BY <2>2, <2>6, <2>8 DEF ChannelInv
<1> QED
  BY <1>1, <1>2

\* Steps that touch neither the manager's settings nor an open flag.
LEMMA ChannelIdle ==
  ASSUME ChannelInv, UNCHANGED <<twai, twai_baud, baud, open_count, open>>,
         bus_off' = bus_off \/ twai # "none"
  PROVE  ChannelInv' /\ OpenPorts' = OpenPorts
<1>1. OpenPorts' = OpenPorts
  BY DEF OpenPorts, IsOpen
<1> QED
  BY <1>1 DEF ChannelInv, OpenCountExact, OnBusIffOpen, BitrateInForce, BusOffOnBus

\* run_port starts with the flag closed, which it already is outside run_port.
LEMMA FreshOpen ==
  ASSUME Inv, NEW p \in Ports, pc[p] \notin InRunPort, FreshLocals(p)
  PROVE  open' = open
<1>1. open[p] = "closed" /\ open \in [Ports -> {"closed", "normal", "listen"}]
  BY DEF Inv, SessionInv, ClosedOutsideRunPort, IsOpen, TypeOK
<1> QED
  BY <1>1 DEF FreshLocals

\* The controller is on the bus exactly while a port is open, at the configured
\* bitrate, and the reference count is exact: preserved by every step.
LEMMA ChannelStep ==
  ASSUME Inv, [Next]_vars
  PROVE  ChannelInv'
<1> USE DEF Inv
<1>1. ASSUME NEW p \in Ports, DispatchOpen(p) PROVE ChannelInv'
  <2>1. CASE IsOpen(p)
    BY <1>1, <2>1, ChannelIdle DEF DispatchOpen, manager
  <2>2. CASE ~IsOpen(p)
    <3>1. PICK mode \in {"normal", "listen"} :
            ManagerOpen(mode) /\ open' = [open EXCEPT ![p] = mode]
      BY <1>1, <2>2 DEF DispatchOpen
    <3> QED
      BY <2>2, <3>1, OpenStep
  <2> QED
    BY <2>1, <2>2
<1>2. ASSUME NEW p \in Ports, DispatchClose(p) \/ StopPort(p) PROVE ChannelInv'
  BY <1>2, CloseStep DEF DispatchClose, StopPort
<1>3. ASSUME NEW p \in Ports, DispatchSetBitrate(p) PROVE ChannelInv'
  <2>1. UNCHANGED <<twai, twai_baud, bus_off, open_count, open>>
    BY <1>3 DEF DispatchSetBitrate
  <2>2. CASE UNCHANGED baud
    BY <2>1, <2>2, ChannelIdle
  <2>3. CASE open_count = 0
    <3>1. OpenPorts' = OpenPorts /\ OpenPorts \subseteq Ports
      BY <2>1 DEF OpenPorts, IsOpen
    <3>2. OpenPorts = {}
      BY <2>3, <3>1, CountPorts DEF ChannelInv, OpenCountExact
    <3> QED
      BY <2>1, <2>3, <3>1, <3>2
         DEF ChannelInv, OpenCountExact, OnBusIffOpen, BitrateInForce, BusOffOnBus
  <2> QED
    BY <1>3, <2>2, <2>3 DEF DispatchSetBitrate, SetBitrateOk
<1>4. ASSUME NEW p \in Ports, Accept(p) \/ HandshakeOk(p) PROVE ChannelInv'
  <2>1. pc[p] \notin InRunPort /\ FreshLocals(p) /\ UNCHANGED manager
    BY <1>4 DEF Accept, HandshakeOk, SessionUp, InRunPort
  <2> QED
    BY <2>1, FreshOpen, ChannelIdle DEF manager
<1>5. ASSUME NEW p \in Ports,
             \/ Read(p) \/ ReadEof(p) \/ TakeFrame(p) \/ FrameWritten(p)
             \/ DispatchTimestamp(p) \/ DispatchOther(p) \/ DispatchTransmit(p)
             \/ ReplyWritten(p) \/ HandshakeFail(p) \/ Closed(p) \/ Rejoin(p)
             \/ Dial(p) \/ HostSend(p) \/ HostDrop(p)
      PROVE ChannelInv'
  <2>1. UNCHANGED <<twai, twai_baud, bus_off, baud, open_count, open>>
    BY <1>5 DEF Read, ReadEof, TakeFrame, FrameWritten, DispatchTimestamp,
       DispatchOther, DispatchTransmit, ReplyWritten, HandshakeFail, Closed, Rejoin,
       Dial, SessionUp, HostSend, HostDrop, manager, locals
  <2> QED
    BY <2>1, ChannelIdle
<1>6. ASSUME BusFrame \/ BusOff \/ PollRx \/ UNCHANGED vars PROVE ChannelInv'
  BY <1>6, ChannelIdle DEF BusFrame, BusOff, PollRx, vars, manager, locals
<1> QED
  BY <1>1, <1>2, <1>3, <1>4, <1>5, <1>6 DEF Next, RunPort, Session, Dispatch

-----------------------------------------------------------------------------
(* Sessions: who holds a subscriber and who counts as a client. *)

\* A task that moves inside a connection.
LEMMA SameSession ==
  ASSUME Inv, NEW p \in Ports, NEW x \in PcSet \ {"off", "linger"},
         pc[p] \notin {"off", "linger"}, pc' = [pc EXCEPT ![p] = x],
         UNCHANGED <<subscribers, TCP_CLIENTS>>
  PROVE  SubscribersExact' /\ ClientsExact'
<1>1. Subscribed' = Subscribed /\ Connected' = Connected
  BY DEF Subscribed, Connected, Inv, TypeOK
<1> QED
  BY <1>1 DEF SubscribersExact, ClientsExact, Inv, SessionInv

\* Subscribers and TCP clients are counted exactly: preserved by every step.
LEMMA SessionCounts ==
  ASSUME Inv, [Next]_vars
  PROVE  SubscribersExact' /\ ClientsExact'
<1> USE DEF Inv, SessionInv
<1>0. Subscribed \subseteq Ports /\ Connected \subseteq Ports
  BY DEF Subscribed, Connected, Ports
<1>1. ASSUME NEW p \in Ports, Accept(p) \/ Dial(p)
      PROVE  SubscribersExact' /\ ClientsExact'
  <2>1. PICK x \in {"idle", "handshake"} : pc' = [pc EXCEPT ![p] = x]
    BY <1>1 DEF Accept, Dial
  <2>2. pc[p] = "off" /\ p \in TcpPorts
    BY <1>1 DEF Accept, Dial, SessionUp, TcpPorts
  <2>3. /\ Subscribed' = Subscribed \cup {p} /\ p \notin Subscribed
        /\ Connected' = Connected \cup {p} /\ p \notin Connected
    BY <2>1, <2>2 DEF Subscribed, Connected, TypeOK
  <2>4. subscribers' = subscribers + 1 /\ TCP_CLIENTS' = TCP_CLIENTS + 1
    BY <1>1 DEF Accept, Dial, SessionUp, Subscribe
  <2> QED
    BY <1>0, <2>3, <2>4, CountAdd DEF SubscribersExact, ClientsExact
<1>2. ASSUME NEW p \in Ports,
             (StopPort(p) /\ p \in Listeners) \/ Closed(p)
      PROVE  SubscribersExact' /\ ClientsExact'
  <2>1. pc[p] \in {"stop", "closing"} /\ pc' = [pc EXCEPT ![p] = "linger"]
    BY <1>2 DEF StopPort, Closed
  <2>2. p \in TcpPorts
    BY <1>2, <2>1 DEF UartNeverStops, Ports, InRunPort
  <2>3. Subscribed' = Subscribed /\ Connected' = Connected \ {p} /\ p \in Connected
    BY <2>1, <2>2 DEF Subscribed, Connected, TypeOK
  <2>4. subscribers' = subscribers /\ TCP_CLIENTS' = TCP_CLIENTS - 1
    BY <1>2 DEF StopPort, Closed, rxbus
  <2> QED
    BY <1>0, <2>3, <2>4, CountDel DEF SubscribersExact, ClientsExact
<1>3. ASSUME NEW p \in Ports, Rejoin(p)
      PROVE  SubscribersExact' /\ ClientsExact'
  <2>1. /\ pc[p] = "linger" /\ pc' = [pc EXCEPT ![p] = "off"]
        /\ subscribers' = subscribers - 1 /\ TCP_CLIENTS' = TCP_CLIENTS
    BY <1>3 DEF Rejoin
  <2>2. Subscribed' = Subscribed \ {p} /\ p \in Subscribed /\ Connected' = Connected
    BY <2>1 DEF Subscribed, Connected, TypeOK
  <2> QED
    BY <1>0, <2>1, <2>2, CountDel DEF SubscribersExact, ClientsExact
<1>4. ASSUME NEW p \in Ports,
             \/ Read(p) \/ ReadEof(p) \/ TakeFrame(p) \/ FrameWritten(p)
             \/ Dispatch(p) \/ ReplyWritten(p) \/ HandshakeOk(p) \/ HandshakeFail(p)
             \/ StopPort(p) /\ p \notin Listeners
      PROVE  SubscribersExact' /\ ClientsExact'
  <2>1. UNCHANGED <<subscribers, TCP_CLIENTS>>
    BY <1>4 DEF Read, ReadEof, TakeFrame, FrameWritten, Dispatch, DispatchOpen,
       DispatchClose, DispatchSetBitrate, DispatchTimestamp, DispatchOther,
       DispatchTransmit, Reply, ReplyWritten, HandshakeOk, HandshakeFail, StopPort,
       rxbus
  <2>2. PICK x \in PcSet \ {"off", "linger"} : pc' = [pc EXCEPT ![p] = x]
    BY <1>4 DEF Read, ReadEof, TakeFrame, FrameWritten, Dispatch, DispatchOpen,
       DispatchClose, DispatchSetBitrate, DispatchTimestamp, DispatchOther,
       DispatchTransmit, Reply, ReplyWritten, HandshakeOk, HandshakeFail, StopPort,
       PcSet
  <2>3. pc[p] \notin {"off", "linger"}
    BY <1>4 DEF Read, ReadEof, TakeFrame, FrameWritten, Dispatch, DispatchOpen,
       DispatchClose, DispatchSetBitrate, DispatchTimestamp, DispatchOther,
       DispatchTransmit, AtLine, ReplyWritten, HandshakeOk, HandshakeFail, StopPort
  <2> QED
    BY <2>1, <2>2, <2>3, SameSession
<1>5. ASSUME UNCHANGED <<pc, subscribers, TCP_CLIENTS>>
      PROVE  SubscribersExact' /\ ClientsExact'
  BY <1>5 DEF SubscribersExact, ClientsExact, Subscribed, Connected
<1>6. ASSUME \/ \E p \in Ports : HostSend(p) \/ HostDrop(p)
             \/ BusFrame \/ BusOff \/ PollRx \/ UNCHANGED vars
      PROVE  UNCHANGED <<pc, subscribers, TCP_CLIENTS>>
  BY <1>6 DEF HostSend, HostDrop, BusFrame, BusOff, PollRx, vars, rxbus
<1> QED
  BY <1>1, <1>2, <1>3, <1>4, <1>5, <1>6 DEF Next, RunPort, Session

\* A port task outside run_port is closed, a task in a chunk has a line, and the
\* UART task never leaves run_port: preserved by every step.
LEMMA SessionLocals ==
  ASSUME Inv, [Next]_vars
  PROVE  (ClosedOutsideRunPort /\ BusyHasLine /\ UartNeverStops)'
<1> USE DEF Inv, SessionInv, TypeOK
<1> DEFINE Goal == (ClosedOutsideRunPort /\ BusyHasLine /\ UartNeverStops)'
<1>1. ASSUME NEW p \in Ports, DispatchOpen(p) \/ DispatchClose(p) PROVE Goal
  <2>1. /\ pc' = [pc EXCEPT ![p] = "reply"] /\ pc[p] = "busy"
        /\ \A q \in Ports \ {p} : open'[q] = open[q] /\ chunk'[q] = chunk[q]
        /\ link' = link
    BY <1>1 DEF DispatchOpen, DispatchClose, Deactivate, AtLine, Reply
  <2> QED
    BY <2>1 DEF ClosedOutsideRunPort, IsOpen, BusyHasLine, UartNeverStops, InRunPort,
                Ports
<1>2. ASSUME NEW p \in Ports,
             \/ DispatchSetBitrate(p) \/ DispatchTimestamp(p) \/ DispatchOther(p)
             \/ DispatchTransmit(p)
      PROVE Goal
  <2>1. /\ pc' = [pc EXCEPT ![p] = "reply"] /\ pc[p] = "busy" /\ open' = open
        /\ \A q \in Ports \ {p} : chunk'[q] = chunk[q]
        /\ link' = link
    BY <1>2 DEF DispatchSetBitrate, DispatchTimestamp, DispatchOther,
                DispatchTransmit, AtLine, Reply
  <2> QED
    BY <2>1 DEF ClosedOutsideRunPort, IsOpen, BusyHasLine, UartNeverStops, InRunPort,
                Ports
<1>3. ASSUME NEW p \in Ports, Read(p) PROVE Goal
  <2>1. PICK c \in Chunks : chunk' = [chunk EXCEPT ![p] = c]
    BY <1>3 DEF Read
  <2>2. c # <<>>
    BY <2>1, ChunkTyping
  <2> QED
    BY <1>3, <2>1, <2>2 DEF Read, ClosedOutsideRunPort, IsOpen, BusyHasLine,
                            UartNeverStops, InRunPort, Ports
<1>4. ASSUME NEW p \in Ports,
             TakeFrame(p) \/ FrameWritten(p) \/ ReplyWritten(p) \/ ReadEof(p)
      PROVE Goal
  <2>1. /\ UNCHANGED <<open, chunk, link>> /\ pc[p] \in InRunPort
        /\ \E x \in InRunPort : pc' = [pc EXCEPT ![p] = x]
    BY <1>4 DEF TakeFrame, FrameWritten, ReplyWritten, ReadEof, locals, InRunPort
  <2>2. /\ pc'[p] = "busy" => chunk[p] # <<>>
        /\ pc'[p] = "stop" => link[p] = "dead"
    BY <1>4 DEF TakeFrame, FrameWritten, ReplyWritten, ReadEof
  <2>3. ClosedOutsideRunPort'
    BY <2>1 DEF ClosedOutsideRunPort, IsOpen
  <2>4. BusyHasLine'
    BY <2>1, <2>2 DEF BusyHasLine
  <2>5. UartNeverStops'
    BY <2>1, <2>2 DEF UartNeverStops, Ports
  <2> QED
    BY <2>3, <2>4, <2>5
<1>5. ASSUME NEW p \in Ports, Accept(p) \/ HandshakeOk(p) PROVE Goal
  <2>1. pc[p] \notin InRunPort /\ FreshLocals(p) /\ pc' = [pc EXCEPT ![p] = "idle"]
    BY <1>5 DEF Accept, HandshakeOk, SessionUp, InRunPort
  <2>2. open' = open /\ p # Uart
    BY <2>1, FreshOpen DEF UartNeverStops
  <2>3. link'[Uart] = link[Uart]
    BY <1>5, <2>2 DEF Accept, HandshakeOk, SessionUp, Ports
  <2> QED
    BY <2>1, <2>2, <2>3 DEF FreshLocals, ClosedOutsideRunPort, IsOpen, BusyHasLine,
                            UartNeverStops, InRunPort, Ports
<1>6. ASSUME NEW p \in Ports,
             Dial(p) \/ HandshakeFail(p) \/ Closed(p) \/ Rejoin(p)
      PROVE Goal
  <2>1. /\ pc[p] \notin InRunPort /\ locals' = locals
        /\ \E x \in PcSet \ {"busy"} : pc' = [pc EXCEPT ![p] = x]
    BY <1>6 DEF Dial, HandshakeFail, Closed, Rejoin, SessionUp, InRunPort, PcSet
  <2>2. p # Uart
    BY <2>1 DEF UartNeverStops
  <2>3. link'[Uart] = link[Uart]
    BY <1>6, <2>2 DEF Dial, HandshakeFail, Closed, Rejoin, SessionUp, Ports
  <2> QED
    BY <2>1, <2>2, <2>3 DEF locals, ClosedOutsideRunPort, IsOpen, BusyHasLine,
                            UartNeverStops, InRunPort, Ports
<1>7. ASSUME NEW p \in Ports, StopPort(p) PROVE Goal
  <2>1. /\ \E x \in PcSet \ {"busy"} : pc' = [pc EXCEPT ![p] = x]
        /\ link' = [link EXCEPT ![p] = "down"] /\ chunk' = chunk /\ p # Uart
    BY <1>7 DEF StopPort, PcSet, UartNeverStops
  <2>2. open'[p] = "closed" /\ \A q \in Ports \ {p} : open'[q] = open[q]
    BY <1>7 DEF StopPort, Deactivate, IsOpen
  <2> QED
    BY <2>1, <2>2 DEF ClosedOutsideRunPort, IsOpen, BusyHasLine, UartNeverStops,
                      Ports
<1>8. ASSUME NEW p \in Ports, HostSend(p) \/ HostDrop(p) PROVE Goal
  <2>1. UNCHANGED <<pc, open, chunk>> /\ link'[Uart] = link[Uart]
    BY <1>8, PortsAssumption DEF HostSend, HostDrop, locals, Ports
  <2> QED
    BY <2>1 DEF ClosedOutsideRunPort, IsOpen, BusyHasLine, UartNeverStops
<1>9. ASSUME BusFrame \/ BusOff \/ PollRx \/ UNCHANGED vars PROVE Goal
  BY <1>9 DEF BusFrame, BusOff, PollRx, vars, locals, ClosedOutsideRunPort, IsOpen,
              BusyHasLine, UartNeverStops
<1> QED
  BY <1>1, <1>2, <1>3, <1>4, <1>5, <1>6, <1>7, <1>8, <1>9
     DEF Next, RunPort, Session, Dispatch

-----------------------------------------------------------------------------
(* Frames: the UART's count stays behind its subscriber's cursor. *)

\* No frame is handed twice to the UART: preserved by every step.
LEMMA FlowStep ==
  ASSUME Inv, [Next]_vars
  PROVE  SerialOutTaken'
<1> USE DEF Inv, TypeOK
<1> DEFINE Goal == SerialOutTaken'
<1>0. Uart \in Ports
  BY DEF Ports
<1>1. ASSUME NEW p \in Ports, TakeFrame(p) PROVE Goal
  <2>1. /\ next' = [next EXCEPT ![p] = OldestKept(p) + 1] /\ next[p] < RX_COUNT
        /\ pc' = [pc EXCEPT ![p] = IF IsOpen(p) THEN "frame" ELSE "idle"]
        /\ pc[p] = "idle" /\ RX_COUNT' = RX_COUNT /\ cnt' = cnt
    BY <1>1 DEF TakeFrame, Advance
  <2>2. OldestKept(p) \in Nat /\ next[p] <= OldestKept(p)
    BY <2>1, BoundsAssumption DEF OldestKept
  <2> QED
    BY <1>0, <2>1, <2>2 DEF SerialOutTaken, CounterNames
<1>2. ASSUME NEW p \in Ports, FrameWritten(p) PROVE Goal
  <2>1. /\ cnt' = [cnt EXCEPT ![OutCounter(p)] = Bump(cnt[OutCounter(p)], TRUE)]
        /\ pc[p] = "frame" /\ pc' = [pc EXCEPT ![p] = "idle"]
        /\ next' = next /\ RX_COUNT' = RX_COUNT
    BY <1>2 DEF FrameWritten, rxbus
  <2>2. CASE p = Uart
    <3>1. cnt'["ser_out"] <= cnt["ser_out"] + 1 /\ cnt'["ser_out"] \in Nat
      BY <2>1, <2>2, BumpTyping DEF OutCounter, CounterNames
    <3>2. cnt["ser_out"] + 1 <= next[Uart] /\ cnt["ser_out"] \in Nat
      BY <2>1, <2>2 DEF SerialOutTaken, CounterNames
    <3>3. pc'[Uart] = "idle" /\ next'[Uart] = next[Uart] /\ next[Uart] \in Nat
      BY <1>0, <2>1, <2>2
    <3> QED
      BY <3>1, <3>2, <3>3 DEF SerialOutTaken
  <2>3. CASE p # Uart
    BY <1>0, <2>1, <2>3 DEF SerialOutTaken, OutCounter, CounterNames
  <2> QED
    BY <2>2, <2>3
<1>3. ASSUME NEW p \in Ports, DispatchTransmit(p) PROVE Goal
  <2>1. /\ cnt'["ser_out"] = cnt["ser_out"] /\ UNCHANGED rxbus
        /\ pc[p] = "busy" /\ pc' = [pc EXCEPT ![p] = "reply"]
    BY <1>3 DEF DispatchTransmit, InCounter, AtLine, Reply, CounterNames
  <2> QED
    BY <1>0, <2>1 DEF rxbus, SerialOutTaken, CounterNames
<1>4. ASSUME NEW p \in Ports, Accept(p) \/ Dial(p) PROVE Goal
  <2>1. /\ next' = [next EXCEPT ![p] = RX_COUNT] /\ RX_COUNT' = RX_COUNT
        /\ cnt' = cnt /\ p # Uart
        /\ \E x \in PcSet : pc' = [pc EXCEPT ![p] = x]
    BY <1>4, PortsAssumption DEF Accept, Dial, SessionUp, Subscribe, TcpPorts, PcSet
  <2> QED
    BY <1>0, <2>1 DEF SerialOutTaken, CounterNames
<1>5. ASSUME NEW p \in Ports,
             \/ Read(p) \/ ReadEof(p) \/ ReplyWritten(p)
             \/ DispatchOpen(p) \/ DispatchClose(p) \/ DispatchSetBitrate(p)
             \/ DispatchTimestamp(p) \/ DispatchOther(p)
             \/ HandshakeOk(p) \/ HandshakeFail(p) \/ StopPort(p) \/ Closed(p)
             \/ Rejoin(p)
      PROVE Goal
  <2>1. UNCHANGED <<RX_COUNT, next, cnt>>
    BY <1>5 DEF Read, ReadEof, ReplyWritten, DispatchOpen, DispatchClose,
       DispatchSetBitrate, DispatchTimestamp, DispatchOther, Reply, HandshakeOk,
       HandshakeFail, StopPort, Closed, Rejoin, rxbus
  <2>2. \E x \in PcSet \ {"frame"} : pc' = [pc EXCEPT ![p] = x]
    BY <1>5 DEF Read, ReadEof, ReplyWritten, DispatchOpen, DispatchClose,
       DispatchSetBitrate, DispatchTimestamp, DispatchOther, Reply, HandshakeOk,
       HandshakeFail, StopPort, Closed, Rejoin, PcSet
  <2> QED
    BY <1>0, <2>1, <2>2 DEF SerialOutTaken, CounterNames
<1>6. ASSUME NEW p \in Ports, HostSend(p) \/ HostDrop(p) PROVE Goal
  BY <1>6 DEF HostSend, HostDrop, rxbus, SerialOutTaken
<1>7. ASSUME PollRx PROVE Goal
  BY <1>7 DEF PollRx, SerialOutTaken
<1>8. ASSUME BusFrame \/ BusOff \/ UNCHANGED vars PROVE Goal
  BY <1>8 DEF BusFrame, BusOff, vars, rxbus, SerialOutTaken
<1> QED
  BY <1>1, <1>2, <1>3, <1>4, <1>5, <1>6, <1>7, <1>8
     DEF Next, RunPort, Session, Dispatch

-----------------------------------------------------------------------------
(* Types. *)

ManagerType ==
  /\ twai \in {"none", "normal", "listen"} /\ twai_baud \in BitRates \cup {NoBaud}
  /\ bus_off \in BOOLEAN /\ fifo \in Nat /\ baud \in BitRates /\ open_count \in Nat

\* CanManager::open and CanManager::close keep the manager's types.
LEMMA ManagerTyping ==
  ASSUME ManagerType, \/ \E m \in {"normal", "listen"} : ManagerOpen(m)
                      \/ ManagerClose
                      \/ UNCHANGED manager
  PROVE  ManagerType'
<1> USE DEF ManagerType
<1>1. CASE UNCHANGED manager
  BY <1>1 DEF manager
<1>2. ASSUME ~UNCHANGED manager
      PROVE  /\ baud' = baud /\ open_count' \in Nat
             /\ \/ \E m \in {"none", "normal", "listen"} :
                     Controller(m, baud) \/ Controller(m, NoBaud)
                \/ UNCHANGED <<twai, twai_baud, bus_off, fifo>>
  BY <1>2 DEF ManagerOpen, ManagerClose
<1>3. ASSUME NEW m \in {"none", "normal", "listen"},
             Controller(m, baud) \/ Controller(m, NoBaud)
      PROVE  /\ twai' \in {"none", "normal", "listen"}
             /\ twai_baud' \in BitRates \cup {NoBaud}
             /\ bus_off' \in BOOLEAN /\ fifo' \in Nat
  <2>1. bus_off' \in BOOLEAN
    BY <1>3 DEF Controller
  <2> QED
    BY <1>3, <2>1 DEF Controller
<1> QED
  BY <1>1, <1>2, <1>3

\* Every step keeps the types of the manager, the bus, the links and run_port's locals.
LEMMA TypeStep ==
  ASSUME Inv, [Next]_vars
  PROVE  TypeOK'
<1> USE DEF Inv, TypeOK
<1>0. \A p \in Ports : Bump(cnt[OutCounter(p)], TRUE) \in Nat
  BY BumpTyping DEF OutCounter, CounterNames
<1>1. (subscribers \in Nat /\ TCP_CLIENTS \in Nat)'
  <2>1. Subscribed' \subseteq Ports /\ Connected' \subseteq Ports
    BY DEF Subscribed, Connected, Ports
  <2> QED
    BY <2>1, SessionCounts, CountPorts DEF SubscribersExact, ClientsExact
<1> DEFINE Rest ==
      /\ twai' \in {"none", "normal", "listen"}
      /\ twai_baud' \in BitRates \cup {NoBaud}
      /\ bus_off' \in BOOLEAN
      /\ fifo' \in Nat
      /\ baud' \in BitRates
      /\ open_count' \in Nat
      /\ RX_COUNT' \in Nat
      /\ next' \in [Ports -> Nat]
      /\ cnt' \in [CounterNames -> Nat]
      /\ link' \in [Ports -> {"down", "up", "dead"}]
      /\ pending' \in [Ports -> BOOLEAN]
      /\ pc' \in [Ports -> PcSet]
      /\ open' \in [Ports -> {"closed", "normal", "listen"}]
      /\ ts' \in [Ports -> BOOLEAN]
      /\ chunk' \in [Ports -> Seq(Commands)]
      /\ reply' \in [Ports -> {"none", "CR", "BELL", "ack"}]
<1>2. ASSUME NEW p \in Ports, Dispatch(p) PROVE Rest
  <2>1. PICK r \in {"CR", "BELL", "ack"} : Reply(p, r)
    BY <1>2 DEF Dispatch, DispatchOpen, DispatchClose, DispatchSetBitrate,
                DispatchTimestamp, DispatchOther, DispatchTransmit
  <2>2. pc[p] = "busy"
    BY <1>2 DEF Dispatch, DispatchOpen, DispatchClose, DispatchSetBitrate,
                DispatchTimestamp, DispatchOther, DispatchTransmit, AtLine
  <2>3. Tail(chunk[p]) \in Seq(Commands)
    BY <2>2, HeadTailProperties DEF SessionInv, BusyHasLine
  <2>4. /\ RX_COUNT' \in Nat /\ next' \in [Ports -> Nat]
        /\ link' \in [Ports -> {"down", "up", "dead"}]
        /\ pending' \in [Ports -> BOOLEAN] /\ pc' \in [Ports -> PcSet]
        /\ chunk' \in [Ports -> Seq(Commands)]
        /\ reply' \in [Ports -> {"none", "CR", "BELL", "ack"}]
    BY <2>1, <2>3 DEF Reply, rxbus, PcSet
  <2>5. CASE DispatchOpen(p)
    <3>1. UNCHANGED <<cnt, ts>>
      BY <2>5 DEF DispatchOpen
    <3>2. CASE IsOpen(p)
      BY <2>4, <2>5, <3>1, <3>2 DEF DispatchOpen, manager
    <3>3. CASE ~IsOpen(p)
      <4>1. PICK m \in {"normal", "listen"} :
              ManagerOpen(m) /\ open' = [open EXCEPT ![p] = m]
        BY <2>5, <3>3 DEF DispatchOpen
      <4>2. ManagerType'
        BY <4>1, ManagerTyping DEF ManagerType
      <4> QED
        BY <2>4, <3>1, <4>1, <4>2 DEF ManagerType
    <3> QED
      BY <3>2, <3>3
  <2>6. CASE DispatchClose(p)
    <3>1. ManagerType'
      BY <2>6, ManagerTyping DEF DispatchClose, Deactivate, ManagerType
    <3>2. open' \in [Ports -> {"closed", "normal", "listen"}] /\ UNCHANGED <<cnt, ts>>
      BY <2>6 DEF DispatchClose, Deactivate
    <3> QED
      BY <2>4, <3>1, <3>2 DEF ManagerType
  <2>7. CASE DispatchSetBitrate(p)
    <3>1. baud' \in BitRates
      BY <2>7, BaudTyping DEF DispatchSetBitrate, SetBitrateOk
    <3> QED
      BY <2>4, <2>7, <3>1 DEF DispatchSetBitrate
  <2>8. CASE DispatchTimestamp(p)
    <3>1. ts' \in [Ports -> BOOLEAN]
      BY <2>8 DEF DispatchTimestamp
    <3> QED
      BY <2>4, <2>8, <3>1 DEF DispatchTimestamp, manager
  <2>9. CASE DispatchOther(p)
    BY <2>4, <2>9 DEF DispatchOther, manager
  <2>10. CASE DispatchTransmit(p)
    <3>1. PICK ok \in BOOLEAN :
            cnt' = [cnt EXCEPT ![InCounter(p)] = Bump(@, Head(chunk[p]).op # "txbad"),
                               !["tx"] = Bump(@, ok)]
      BY <2>10 DEF DispatchTransmit
    <3>2. /\ \A k \in CounterNames :
               Bump(cnt[k], Head(chunk[p]).op # "txbad") \in Nat /\ Bump(cnt[k], ok) \in Nat
          /\ InCounter(p) \in CounterNames \ {"tx"}
      BY BumpTyping DEF InCounter, CounterNames
    <3>3. cnt' \in [CounterNames -> Nat]
      BY <3>1, <3>2 DEF CounterNames
    <3> QED
      BY <2>4, <2>10, <3>3 DEF DispatchTransmit, manager
  <2> QED
    BY <1>2, <2>5, <2>6, <2>7, <2>8, <2>9, <2>10 DEF Dispatch
<1>3. ASSUME NEW p \in Ports, Read(p) PROVE Rest
  <2>1. chunk' \in [Ports -> Seq(Commands)]
    BY <1>3, ChunkTyping DEF Read
  <2> QED
    BY <1>3, <2>1 DEF Read, manager, rxbus, PcSet
<1>4. ASSUME NEW p \in Ports, ReadEof(p) \/ ReplyWritten(p) PROVE Rest
  BY <1>4 DEF ReadEof, ReplyWritten, manager, rxbus, locals, PcSet
<1>5. ASSUME NEW p \in Ports, TakeFrame(p) PROVE Rest
  <2>1. OldestKept(p) \in Nat
    BY <1>5, BoundsAssumption DEF OldestKept
  <2>2. next' \in [Ports -> Nat]
    BY <1>5, <2>1 DEF TakeFrame, Advance
  <2> QED
    BY <1>5, <2>2 DEF TakeFrame, manager, locals, PcSet
<1>6. ASSUME NEW p \in Ports, FrameWritten(p) PROVE Rest
  BY <1>0, <1>6 DEF FrameWritten, manager, rxbus, locals, PcSet, OutCounter, CounterNames
<1>7. ASSUME NEW p \in Ports, Accept(p) \/ HandshakeOk(p) PROVE Rest
  <2>1. FreshLocals(p) /\ UNCHANGED <<manager, cnt, pending>>
    BY <1>7 DEF Accept, HandshakeOk, SessionUp
  <2>2. /\ open' \in [Ports -> {"closed", "normal", "listen"}]
        /\ chunk' \in [Ports -> Seq(Commands)]
        /\ reply' \in [Ports -> {"none", "CR", "BELL", "ack"}]
    BY <2>1, EmptySeq DEF FreshLocals
  <2>3. ts' \in [Ports -> BOOLEAN]
    BY <2>1 DEF FreshLocals
  <2>4. /\ link' \in [Ports -> {"down", "up", "dead"}] /\ pc' \in [Ports -> PcSet]
        /\ RX_COUNT' \in Nat /\ next' \in [Ports -> Nat]
    BY <1>7 DEF Accept, HandshakeOk, SessionUp, Subscribe, rxbus, PcSet
  <2> QED
    BY <2>1, <2>2, <2>3, <2>4 DEF manager
<1>8. ASSUME NEW p \in Ports,
             Dial(p) \/ HandshakeFail(p) \/ Closed(p) \/ Rejoin(p)
      PROVE Rest
  BY <1>8 DEF Dial, SessionUp, Subscribe, HandshakeFail, Closed, Rejoin, manager, rxbus,
              locals, PcSet
<1>9. ASSUME NEW p \in Ports, StopPort(p) PROVE Rest
  <2>1. /\ link' \in [Ports -> {"down", "up", "dead"}] /\ pending' \in [Ports -> BOOLEAN]
        /\ pc' \in [Ports -> PcSet] /\ UNCHANGED <<rxbus, cnt, ts, chunk, reply>>
    BY <1>9 DEF StopPort, PcSet
  <2>2. ManagerType'
    BY <1>9, ManagerTyping DEF StopPort, Deactivate, ManagerType
  <2>3. open' \in [Ports -> {"closed", "normal", "listen"}]
    BY <1>9 DEF StopPort, Deactivate
  <2> QED
    BY <2>1, <2>2, <2>3 DEF ManagerType, rxbus
<1>10. ASSUME NEW p \in Ports, HostSend(p) \/ HostDrop(p) PROVE Rest
  <2>1. pending' \in [Ports -> BOOLEAN]
    BY <1>10 DEF HostSend, HostDrop
  <2> QED
    BY <1>10, <2>1 DEF HostSend, HostDrop, manager, rxbus, locals
<1>11. ASSUME PollRx PROVE Rest
  BY <1>11, BoundsAssumption DEF PollRx, locals
<1>12. ASSUME BusFrame \/ BusOff \/ UNCHANGED vars PROVE Rest
  <2>1. bus_off' \in BOOLEAN
    BY <1>12 DEF BusFrame, BusOff, vars, manager
  <2> QED
    BY <1>12, <2>1 DEF BusFrame, BusOff, vars, manager, rxbus, locals
<1>13. Rest
  BY <1>2, <1>3, <1>4, <1>5, <1>6, <1>7, <1>8, <1>9, <1>10, <1>11, <1>12
     DEF Next, RunPort, Session
<1> QED
  BY <1>1, <1>13

-----------------------------------------------------------------------------
(* The theorems. *)

\* Every step of a task, a host or the bus keeps the inductive invariant.
LEMMA InvStep == Inv /\ [Next]_vars => Inv'
<1> SUFFICES ASSUME Inv, [Next]_vars PROVE Inv'
  OBVIOUS
<1>1. TypeOK'
  BY TypeStep
<1>2. ChannelInv'
  BY ChannelStep
<1>3. SessionInv'
  BY SessionCounts, SessionLocals DEF SessionInv
<1>4. SerialOutTaken'
  BY FlowStep
<1> QED
  BY <1>1, <1>2, <1>3, <1>4 DEF Inv

\* Every reachable state satisfies the inductive invariant.
THEOREM Invariance == Spec => []Inv
  BY InitInv, InvStep, PTL DEF Spec

\* Every variable keeps its type, however many ports there are and whatever
\* their hosts send.
THEOREM TypeCorrectness == Spec => []TypeOK
<1>1. Inv => TypeOK
  BY DEF Inv
<1> QED
  BY <1>1, Invariance, PTL

\* CanManager's count is the number of ports whose run_port has the channel open,
\* whichever way sessions end.
THEOREM OpenCountCorrect == Spec => []OpenCountExact
<1>1. Inv => OpenCountExact
  BY DEF Inv, ChannelInv
<1> QED
  BY <1>1, Invariance, PTL

\* The controller is on the bus exactly while some port has the channel open.
THEOREM OnBusCorrect == Spec => []OnBusIffOpen
<1>1. Inv => OnBusIffOpen
  BY DEF Inv, ChannelInv
<1> QED
  BY <1>1, Invariance, PTL

\* The controller runs at the bitrate that Sn configured last.
THEOREM BitrateCorrect == Spec => []BitrateInForce
<1>1. Inv => BitrateInForce
  BY DEF Inv, ChannelInv
<1> QED
  BY <1>1, Invariance, PTL

\* No session end or pause leaks an RX_BUS subscriber: the count is exact.
THEOREM SubscribersCorrect == Spec => []SubscribersExact
<1>1. Inv => SubscribersExact
  BY DEF Inv, SessionInv
<1> QED
  BY <1>1, Invariance, PTL

\* TCP_CLIENTS is the number of connected clients, failed handshakes included.
THEOREM ClientsCorrect == Spec => []ClientsExact
<1>1. Inv => ClientsExact
  BY DEF Inv, SessionInv
<1> QED
  BY <1>1, Invariance, PTL

\* rx_subscriber never panics: with a slot for every port task, at most MaxSubs
\* subscribers are alive.
THEOREM SubscriberSafety == Spec => []SubscriberSlotFree
<1>1. Inv => SubscriberSlotFree
  <2> SUFFICES ASSUME Inv PROVE SubscriberSlotFree
    OBVIOUS
  <2>1. Subscribed \subseteq Ports
    BY DEF Subscribed
  <2>2. Cardinality(Subscribed) <= Cardinality(Ports)
    BY <2>1, PortsFinite, FS_Subset
  <2>3. Cardinality(Ports) \in Nat /\ Cardinality(Subscribed) \in Nat
    BY <2>1, CountPorts
  <2> QED
    BY <2>2, <2>3, SubscriberSlots, BoundsAssumption
       DEF SubscriberSlotFree, Inv, SessionInv, SubscribersExact
<1> QED
  BY <1>1, Invariance, PTL

\* The UART is never handed more frames than its subscriber has passed.
THEOREM SerialOutCorrect == Spec => []SerialOutTaken
<1>1. Inv => SerialOutTaken
  BY DEF Inv
<1> QED
  BY <1>1, Invariance, PTL

-----------------------------------------------------------------------------
(* Transmit counters.  Neither TX_COUNT nor its bound survives a wrap-around of *)
(* the AtomicU32 counters, so the bound is proved up to the first one of SER_IN  *)
(* or TCP_IN.                                                                   *)

\* SER_IN and TCP_IN have not wrapped around: no step takes them back.
InForward == cnt'["ser_in"] >= cnt["ser_in"] /\ cnt'["tcp_in"] >= cnt["tcp_in"]
NoWrap == [][InForward]_cnt

\* A counter that is incremented and does not fall has grown by one, unless it can
\* only ever be zero.
LEMMA BumpForward ==
  ASSUME NEW n \in Nat, Bump(n, TRUE) >= n
  PROVE  Bump(n, TRUE) = n + 1 \/ CounterMod = 1
<1>1. PICK r, q : /\ r = (n + 1) % CounterMod /\ q = (n + 1) \div CounterMod
                  /\ r \in Nat /\ q \in Nat
  BY BoundsAssumption
<1>2. PICK m : m = CounterMod * q /\ m \in Nat /\ n + 1 = m + r
  BY <1>1, BoundsAssumption
<1>3. r >= n /\ Bump(n, TRUE) = r
  BY <1>1 DEF Bump
<1>4. m = 0 \/ m >= CounterMod
  BY <1>1, <1>2, BoundsAssumption
<1>5. r \in Nat /\ m \in Nat /\ n + 1 = m + r
  BY <1>1, <1>2
<1>6. CounterMod \in Nat /\ CounterMod # 0
  BY BoundsAssumption
<1>7. r = n + 1 \/ CounterMod = 1
  BY <1>3, <1>4, <1>5, <1>6
<1> QED
  BY <1>3, <1>7

\* A transmit line that reaches the bus was counted in on its port.
LEMMA TransmitStep ==
  ASSUME Inv, TxWithinIn, NEW p \in Ports, DispatchTransmit(p), InForward
  PROVE  TxWithinIn'
<1> DEFINE op == Head(chunk[p]).op
<1>0. /\ cnt \in [CounterNames -> Nat] /\ InCounter(p) \in {"ser_in", "tcp_in"}
      /\ cnt["tx"] \in Nat /\ cnt["ser_in"] \in Nat /\ cnt["tcp_in"] \in Nat
  BY DEF Inv, TypeOK, CounterNames, InCounter
<1>1. PICK ok \in BOOLEAN :
        /\ ok => op = "txgood"
        /\ cnt' = [cnt EXCEPT ![InCounter(p)] = Bump(@, op # "txbad"),
                              !["tx"] = Bump(@, ok)]
  BY DEF DispatchTransmit, MayTransmit
<1>2. /\ cnt'["tx"] = Bump(cnt["tx"], ok)
      /\ cnt'[InCounter(p)] = Bump(cnt[InCounter(p)], op # "txbad")
      /\ \A k \in {"ser_in", "tcp_in"} \ {InCounter(p)} : cnt'[k] = cnt[k]
  BY <1>0, <1>1 DEF CounterNames
<1>3. cnt'["tx"] \in Nat /\ cnt'["ser_in"] \in Nat /\ cnt'["tcp_in"] \in Nat
  BY TypeStep DEF Next, RunPort, Dispatch, TypeOK, CounterNames
<1>4. CASE ~ok
  <2>1. cnt'["tx"] = cnt["tx"]
    BY <1>2, <1>4 DEF Bump
  <2> QED
    BY <1>0, <1>3, <2>1 DEF TxWithinIn, InForward
<1>5. CASE ok
  <2>1. cnt'[InCounter(p)] = Bump(cnt[InCounter(p)], TRUE)
    BY <1>1, <1>2, <1>5
  <2>2. cnt'[InCounter(p)] = cnt[InCounter(p)] + 1 \/ CounterMod = 1
    BY <1>0, <2>1, BumpForward DEF InForward
  <2>3. cnt'["tx"] <= cnt["tx"] + 1
    BY <1>0, <1>2, BumpTyping
  <2>4. CASE cnt'[InCounter(p)] = cnt[InCounter(p)] + 1
    BY <1>0, <1>2, <1>3, <2>3, <2>4 DEF TxWithinIn
  <2>5. CASE CounterMod = 1
    <3>1. cnt'["tx"] = 0
      BY <1>0, <1>2, <1>5, <2>5 DEF Bump
    <3> QED
      BY <1>3, <3>1 DEF TxWithinIn
  <2> QED
    BY <2>2, <2>4, <2>5
<1> QED
  BY <1>4, <1>5

\* Every step that does not wrap an input counter keeps the bound.
LEMMA TxStep == Inv /\ TxWithinIn /\ [Next]_vars /\ [InForward]_cnt => TxWithinIn'
<1> SUFFICES ASSUME Inv, TxWithinIn, [Next]_vars, [InForward]_cnt PROVE TxWithinIn'
  OBVIOUS
<1>1. CASE UNCHANGED cnt
  BY <1>1 DEF TxWithinIn
<1>2. ASSUME NEW p \in Ports, DispatchTransmit(p) PROVE TxWithinIn'
  BY <1>1, <1>2, TransmitStep
<1>3. ASSUME NEW p \in Ports, FrameWritten(p) PROVE TxWithinIn'
  <2>1. \A k \in {"tx", "ser_in", "tcp_in"} : cnt'[k] = cnt[k]
    BY <1>3 DEF FrameWritten, OutCounter, Inv, TypeOK, CounterNames
  <2> QED
    BY <2>1 DEF TxWithinIn
<1>4. ASSUME NEW p \in Ports,
             \/ Read(p) \/ ReadEof(p) \/ TakeFrame(p) \/ ReplyWritten(p)
             \/ DispatchOpen(p) \/ DispatchClose(p) \/ DispatchSetBitrate(p)
             \/ DispatchTimestamp(p) \/ DispatchOther(p)
             \/ Session(p) \/ Accept(p) \/ Dial(p) \/ HostSend(p) \/ HostDrop(p)
      PROVE  UNCHANGED cnt
  BY <1>4 DEF Read, ReadEof, TakeFrame, ReplyWritten, DispatchOpen, DispatchClose,
     DispatchSetBitrate, DispatchTimestamp, DispatchOther, Session, HandshakeOk,
     HandshakeFail, StopPort, Closed, Rejoin, Accept, Dial, SessionUp, HostSend, HostDrop
<1>5. ASSUME BusFrame \/ BusOff \/ PollRx \/ UNCHANGED vars PROVE UNCHANGED cnt
  BY <1>5 DEF BusFrame, BusOff, PollRx, vars
<1> QED
  BY <1>1, <1>2, <1>3, <1>4, <1>5 DEF Next, RunPort, Dispatch

\* Until SER_IN or TCP_IN wraps around, TX_COUNT is at most what the ports counted in:
\* nothing is on the bus that no host sent, and a refused line is never counted out.
THEOREM TxBounded == Spec /\ NoWrap => []TxWithinIn
<1>1. Init => TxWithinIn
  BY DEF Init, TxWithinIn, CounterNames
<1> QED
  BY <1>1, Invariance, TxStep, PTL DEF Spec, NoWrap

-----------------------------------------------------------------------------
(* The bridge implements the channel. *)

\* Every step of the bridge is a step of the channel or leaves it alone.
LEMMA ChannelSimulation ==
  ASSUME Inv, [Next]_vars
  PROVE  [Channel!ChannelNext]_(Channel!cvars)
<1> USE DEF Inv
<1> DEFINE Bus == IF twai = "none" THEN OffBus ELSE OnBus
<1>0. (open_count = 0 <=> OpenPorts = {}) /\ (twai = "none" <=> OpenPorts = {})
  <2>1. OpenPorts \subseteq Ports
    BY DEF OpenPorts
  <2> QED
    BY <2>1, CountPorts DEF ChannelInv, OpenCountExact, OnBusIffOpen
<1>1. ASSUME UNCHANGED <<twai, twai_baud, baud, open_count, open>>
      PROVE  UNCHANGED Channel!cvars
  BY <1>1 DEF OpenPorts, IsOpen, OffBus, OnBus, Channel!cvars
<1>2. ASSUME NEW p \in Ports, NEW m \in {"normal", "listen"}, ~IsOpen(p),
             ManagerOpen(m), open' = [open EXCEPT ![p] = m]
      PROVE  Channel!ChannelNext
  <2>1. OpenPorts' = OpenPorts \cup {p}
    BY <1>2, OpenStep
  <2>2. p \notin OpenPorts /\ baud' = baud
    BY <1>2 DEF OpenPorts, ManagerOpen
  <2>3. Bus' = IF OpenPorts = {} THEN [mode |-> m, rate |-> baud] ELSE Bus
    BY <1>0, <1>2 DEF ManagerOpen, Controller, OffBus, OnBus
  <2>4. Channel!OpenPort(p, m)
    BY <2>1, <2>2, <2>3 DEF Channel!OpenPort
  <2> QED
    BY <1>2, <2>4 DEF Channel!ChannelNext, Channel!Modes
<1>3. ASSUME NEW p \in Ports, Deactivate(p)
      PROVE  Channel!ChannelNext \/ UNCHANGED Channel!cvars
  <2>1. CASE ~IsOpen(p)
    BY <1>1, <1>3, <2>1 DEF Deactivate, manager
  <2>2. CASE IsOpen(p)
    <3>1. OpenPorts' = OpenPorts \ {p} /\ ChannelInv'
      BY <1>3, CloseStep
    <3>2. p \in OpenPorts /\ open_count # 0 /\ baud' = baud
      BY <1>0, <1>3, <2>2 DEF OpenPorts, Deactivate, ManagerClose, manager
    <3>3. twai' = "none" <=> OpenPorts' = {}
      BY <3>1 DEF ChannelInv, OnBusIffOpen
    <3>4. Bus' = IF OpenPorts = {p} THEN OffBus ELSE Bus
      <4>1. OpenPorts' = {} <=> OpenPorts = {p}
        BY <3>1, <3>2
      <4>2. Controller("none", NoBaud) \/ UNCHANGED <<twai, twai_baud>>
        BY <1>3, <2>2 DEF Deactivate, ManagerClose, manager
      <4> QED
        BY <1>0, <3>2, <3>3, <4>1, <4>2 DEF Controller, OffBus, OnBus
    <3>5. Channel!ClosePort(p)
      BY <3>1, <3>2, <3>4 DEF Channel!ClosePort, OffBus
    <3> QED
      BY <3>5 DEF Channel!ChannelNext
  <2> QED
    BY <2>1, <2>2
<1>4. ASSUME NEW p \in Ports, DispatchOpen(p)
      PROVE  Channel!ChannelNext \/ UNCHANGED Channel!cvars
  <2>1. CASE IsOpen(p)
    BY <1>1, <1>4, <2>1 DEF DispatchOpen, manager
  <2>2. CASE ~IsOpen(p)
    <3>1. PICK m \in {"normal", "listen"} :
            ManagerOpen(m) /\ open' = [open EXCEPT ![p] = m]
      BY <1>4, <2>2 DEF DispatchOpen
    <3> QED
      BY <1>2, <2>2, <3>1
  <2> QED
    BY <2>1, <2>2
<1>5. ASSUME NEW p \in Ports, DispatchClose(p) \/ StopPort(p)
      PROVE  Channel!ChannelNext \/ UNCHANGED Channel!cvars
  BY <1>3, <1>5 DEF DispatchClose, StopPort
<1>6. ASSUME NEW p \in Ports, DispatchSetBitrate(p)
      PROVE  Channel!ChannelNext \/ UNCHANGED Channel!cvars
  <2>1. UNCHANGED <<twai, twai_baud, open_count, open>>
    BY <1>6 DEF DispatchSetBitrate
  <2>2. CASE UNCHANGED baud
    BY <1>1, <2>1, <2>2
  <2>3. CASE ~UNCHANGED baud
    <3>1. open_count = 0 /\ baud' \in BitRates
      BY <1>6, <2>3, BaudTyping DEF DispatchSetBitrate, SetBitrateOk
    <3>2. Channel!SetRate(baud')
      BY <1>0, <2>1, <3>1 DEF Channel!SetRate, OpenPorts, IsOpen, OffBus, OnBus
    <3> QED
      BY <3>1, <3>2 DEF Channel!ChannelNext
  <2> QED
    BY <2>2, <2>3
<1>7. ASSUME NEW p \in Ports, Accept(p) \/ HandshakeOk(p)
      PROVE  UNCHANGED Channel!cvars
  <2>1. pc[p] \notin InRunPort /\ FreshLocals(p) /\ UNCHANGED manager
    BY <1>7 DEF Accept, HandshakeOk, SessionUp, InRunPort
  <2> QED
    BY <1>1, <2>1, FreshOpen DEF manager
<1>8. ASSUME NEW p \in Ports,
             \/ Read(p) \/ ReadEof(p) \/ TakeFrame(p) \/ FrameWritten(p)
             \/ DispatchTimestamp(p) \/ DispatchOther(p) \/ DispatchTransmit(p)
             \/ ReplyWritten(p) \/ HandshakeFail(p) \/ Closed(p) \/ Rejoin(p)
             \/ Dial(p) \/ HostSend(p) \/ HostDrop(p)
      PROVE  UNCHANGED Channel!cvars
  <2>1. UNCHANGED <<twai, twai_baud, baud, open_count, open>>
    BY <1>8 DEF Read, ReadEof, TakeFrame, FrameWritten, DispatchTimestamp,
       DispatchOther, DispatchTransmit, ReplyWritten, HandshakeFail, Closed, Rejoin,
       Dial, SessionUp, HostSend, HostDrop, manager, locals
  <2> QED
    BY <1>1, <2>1
<1>9. ASSUME BusFrame \/ BusOff \/ PollRx \/ UNCHANGED vars
      PROVE  UNCHANGED Channel!cvars
  BY <1>1, <1>9 DEF BusFrame, BusOff, PollRx, vars, manager, locals
<1> QED
  BY <1>4, <1>5, <1>6, <1>7, <1>8, <1>9 DEF Next, RunPort, Session, Dispatch

\* The bridge implements CanChannel: the count, the per-task flags and the shared
\* manager together behave as one channel that ports open and close.
THEOREM Refinement == Spec => ImplementsChannel
<1>1. Init => Channel!ChannelInit
  BY DEF Init, Channel!ChannelInit, OpenPorts, IsOpen, OffBus
<1> QED
  BY <1>1, Invariance, ChannelSimulation, PTL
     DEF Spec, ImplementsChannel, Channel!ChannelSpec

\* No step changes the mode or the bitrate of the controller while some port
\* stays open through it.
THEOREM ControllerStability == Spec => ControllerStable
<1>1. ASSUME Inv, [Next]_vars, NEW p \in Ports, IsOpen(p), IsOpen(p)'
      PROVE  UNCHANGED <<twai, twai_baud, baud>>
  <2>1. p \in OpenPorts /\ p \in OpenPorts'
    BY <1>1 DEF OpenPorts
  <2>2. [Channel!ChannelNext]_(Channel!cvars)
    BY <1>1, ChannelSimulation
  <2>3. UNCHANGED <<baud, IF twai = "none" THEN OffBus ELSE OnBus>>
    BY <2>1, <2>2 DEF Channel!ChannelNext, Channel!OpenPort, Channel!ClosePort,
                      Channel!SetRate, Channel!cvars
  <2>4. twai # "none" /\ twai' # "none"
    BY <1>1, <2>1, ChannelStep DEF Inv, ChannelInv, OnBusIffOpen
  <2> QED
    BY <2>3, <2>4 DEF OnBus
<1>2. Inv /\ [Next]_vars
        => [ (\E p \in Ports : IsOpen(p) /\ IsOpen(p)')
               => UNCHANGED <<twai, twai_baud, baud>> ]_vars
  BY <1>1
<1> QED
  BY <1>2, Invariance, PTL DEF Spec, ControllerStable

\* A controller that went bus-off stays so while any port is open, whatever the
\* other ports do, and is gone when the last one closes.
THEOREM BusOffCorrect == Spec => BusOffUntilClosed
<1>1. ASSUME Inv, [Next]_vars, bus_off
      PROVE  bus_off' <=> OpenPorts' # {}
  <2> USE DEF Inv
  <2>1. ChannelInv'
    BY <1>1, ChannelStep
  <2>2. bus_off' => OpenPorts' # {}
    BY <2>1 DEF ChannelInv, OnBusIffOpen, BusOffOnBus
  <2>3. open_count # 0
    <3>1. OpenPorts # {} /\ OpenPorts \subseteq Ports
      BY <1>1 DEF ChannelInv, OnBusIffOpen, BusOffOnBus, OpenPorts
    <3> QED
      BY <1>1, <3>1, CountPorts DEF ChannelInv, OpenCountExact
  <2>4. ASSUME NEW p \in Ports, DispatchOpen(p) PROVE bus_off' = bus_off
    BY <2>3, <2>4 DEF DispatchOpen, ManagerOpen, manager
  <2>5. ASSUME NEW p \in Ports, DispatchClose(p) \/ StopPort(p)
        PROVE  bus_off' = bus_off \/ twai' = "none"
    BY <2>5 DEF DispatchClose, StopPort, Deactivate, ManagerClose, Controller, manager
  <2>6. ASSUME NEW p \in Ports,
               \/ Read(p) \/ ReadEof(p) \/ TakeFrame(p) \/ FrameWritten(p)
               \/ DispatchSetBitrate(p) \/ DispatchTimestamp(p) \/ DispatchOther(p)
               \/ DispatchTransmit(p) \/ ReplyWritten(p) \/ HandshakeOk(p)
               \/ HandshakeFail(p) \/ Closed(p) \/ Rejoin(p) \/ Accept(p) \/ Dial(p)
               \/ HostSend(p) \/ HostDrop(p)
        PROVE  bus_off' = bus_off
    BY <2>6 DEF Read, ReadEof, TakeFrame, FrameWritten, DispatchSetBitrate,
       DispatchTimestamp, DispatchOther, DispatchTransmit, ReplyWritten, HandshakeOk,
       HandshakeFail, Closed, Rejoin, Accept, Dial, SessionUp, HostSend, HostDrop, manager
  <2>7. ASSUME BusFrame \/ BusOff \/ PollRx \/ UNCHANGED vars PROVE bus_off' = bus_off
    BY <1>1, <2>7 DEF BusFrame, BusOff, PollRx, vars, manager
  <2>8. bus_off' = bus_off \/ twai' = "none"
    BY <1>1, <2>4, <2>5, <2>6, <2>7 DEF Next, RunPort, Session, Dispatch
  <2>9. twai' = "none" => OpenPorts' = {}
    BY <2>1 DEF ChannelInv, OnBusIffOpen
  <2> QED
    BY <1>1, <2>2, <2>8, <2>9
<1>2. Inv /\ [Next]_vars => [bus_off => (bus_off' <=> OpenPorts' # {})]_vars
  BY <1>1
<1> QED
  BY <1>2, Invariance, PTL DEF Spec, BusOffUntilClosed
=============================================================================
