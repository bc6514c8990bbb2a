------------------------------ MODULE CanBridge ------------------------------
(***************************************************************************)
(* The core of the bridge: every SLCAN port (UART, the two TCP listeners,  *)
(* the outbound auto-connect link) runs transport.rs:run_port over the one *)
(* CanManager of can.rs and the RX broadcast bus, and the tasks around     *)
(* run_port (main.rs:uart_port, main.rs:tcp_port, autoconnect.rs:          *)
(* autoconnect_task) start and end the sessions.                           *)
(*                                                                         *)
(* All tasks share one embassy executor, so a task runs undisturbed from   *)
(* one .await to the next; an action is such a stretch.  The CAN mutex is  *)
(* never held across an .await, so taking it, the manager's method and     *)
(* releasing it belong to one action.                                      *)
(*                                                                         *)
(* A host line is abstracted to a record [op, d]: op is the class of the   *)
(* line, d the second byte of an Sn line as a digit.  What a transmit line *)
(* contains is abstracted to whether parse_tx accepts it ("txgood",        *)
(* "txrange") and whether to_esp accepts its identifier ("txgood").        *)
(* A received bus frame is its number in order of reception.               *)
(***************************************************************************)
EXTENDS Integers, FiniteSets, Sequences

CONSTANTS
  Uart,        \* the UART port (main.rs:uart_port)
  Listeners,   \* the tcp_port tasks: one on the AP, one on the STA stack
  Dialers,     \* the autoconnect_task
  Commands,    \* the host lines considered
  MaxSubs,     \* subscriber slots of RX_BUS (4)
  RxCap,       \* frames RX_BUS keeps (16)
  RxBatch,     \* frames can_rx_task drains per lock (16)
  HwFifo,      \* frames the controller's receive FIFO holds
  CounterMod,  \* modulus of the AtomicU32 counters (2^32)
  MaxChunk,    \* bound: host lines per read
  MaxFrames,   \* bound: frames received from the bus in a behaviour
  MaxTx        \* bound: transmit lines in a behaviour

TcpPorts == Listeners \cup Dialers
Ports    == {Uart} \cup TcpPorts

Ops == {"O", "L", "C", "S", "Z0", "Z1", "query", "reject",
        "txgood", "txrange", "txbad"}
TxOps == {"txgood", "txrange", "txbad"}

\* can.rs:baud_from_s, in kbit/s; NoBaud is None.  The TWAI clock is 80 MHz and a
\* bit lasts brp * (1 + tseg_1 + tseg_2) of its cycles.
NoBaud == 0
Timing(brp, tseg1, tseg2) == 80000 \div (brp * (1 + tseg1 + tseg2))
BaudFromS(digit) ==
  CASE digit = 2 -> Timing(80, 15, 4)
    [] digit = 3 -> Timing(40, 15, 4)
    [] digit = 4 -> 125
    [] digit = 5 -> 250
    [] digit = 6 -> 500
    [] digit = 7 -> Timing(4, 16, 8)
    [] digit = 8 -> 1000
    [] OTHER     -> NoBaud

DEFAULT_BAUD == 500
BitRates == {50, 100, 125, 250, 500, 800, 1000}

CounterNames == {"tx", "ser_in", "ser_out", "tcp_in", "tcp_out"}

ASSUME PortsAssumption ==
  /\ Uart \notin TcpPorts
  /\ Listeners \cap Dialers = {}
  /\ IsFiniteSet(TcpPorts)
ASSUME CommandsAssumption == Commands \subseteq [op : Ops, d : 0..9]
ASSUME BoundsAssumption ==
  /\ MaxSubs \in Nat /\ RxCap \in Nat \ {0} /\ RxBatch \in Nat \ {0}
  /\ HwFifo \in Nat /\ CounterMod \in Nat \ {0}
  /\ MaxChunk \in Nat /\ MaxFrames \in Nat /\ MaxTx \in Nat
\* can.rs declares RX_BUS with four subscriber slots for the four port tasks.
ASSUME SubscriberSlots == Cardinality(Ports) <= MaxSubs

VARIABLES
  \* CanManager and the controller it owns
  twai,        \* "none", or the mode the controller was started in
  twai_baud,   \* the bitrate the controller was started with
  bus_off,     \* the controller has gone bus-off; nothing in src/ restarts it
  fifo,        \* frames waiting in the controller's receive FIFO
  baud,        \* CanManager.baud
  open_count,  \* CanManager.open_count
  \* RX_BUS and the statistics
  RX_COUNT,    \* frames received and published so far
  next,        \* each subscriber's next message
  subscribers, \* RX_BUS subscriber count
  TCP_CLIENTS, \* connected TCP SLCAN clients
  cnt,         \* TX_COUNT, SER_IN, SER_OUT, TCP_IN, TCP_OUT
  \* each port's link
  link,        \* "down", "up", or "dead": the next read reports EOF or an error
  pending,     \* lines have arrived and are not yet read
  \* each port's task: program counter and the locals of run_port
  pc,
  open,        \* run_port's open flag, with the command that set it
  ts,          \* run_port's timestamp flag
  chunk,       \* lines of the current read still to be dispatched
  reply        \* the reply being written

manager == <<twai, twai_baud, bus_off, fifo, baud, open_count>>
rxbus   == <<RX_COUNT, next, subscribers>>
locals  == <<open, ts, chunk, reply>>
vars == <<manager, rxbus, TCP_CLIENTS, cnt, link, pending, pc, locals>>

\* Program points of a port's task: "off" no connection (accepting, or before
\* the dial); "handshake" TLS being opened; "idle" in run_port's select; "busy"
\* lines left to dispatch; "reply" and "frame" writing to the host; "stop" left
\* the loop; "closing" closing the TLS connection; "linger" the pause before the
\* next connection, RX_BUS subscription still alive.
PcSet == {"off", "handshake", "idle", "busy", "reply", "frame", "stop",
          "closing", "linger"}
InRunPort == {"idle", "busy", "reply", "frame", "stop"}

IsOpen(p) == open[p] # "closed"
OpenPorts == {p \in Ports : IsOpen(p)}

Init ==
  /\ twai = "none" /\ twai_baud = NoBaud /\ bus_off = FALSE /\ fifo = 0
  /\ baud = DEFAULT_BAUD /\ open_count = 0
  /\ RX_COUNT = 0
  /\ next = [p \in Ports |-> 0]
  /\ subscribers = 1
  /\ TCP_CLIENTS = 0
  /\ cnt = [k \in CounterNames |-> 0]
  /\ link = [p \in Ports |-> IF p = Uart THEN "up" ELSE "down"]
  /\ pending = [p \in Ports |-> FALSE]
  /\ pc = [p \in Ports |-> IF p = Uart THEN "idle" ELSE "off"]
  /\ open = [p \in Ports |-> "closed"]
  /\ ts = [p \in Ports |-> FALSE]
  /\ chunk = [p \in Ports |-> <<>>]
  /\ reply = [p \in Ports |-> "none"]

-----------------------------------------------------------------------------
(* CanManager's methods and the counters. *)

\* open_twai, or the drop of the Twai (mode "none"): a fresh controller with an
\* empty FIFO and cleared error state.
Controller(mode, rate) ==
  twai' = mode /\ twai_baud' = rate /\ bus_off' = FALSE /\ fifo' = 0

\* Bug: every open restarts the controller.
ManagerOpenRestarts(mode) ==
  /\ open_count' = open_count + 1
  /\ Controller(mode, baud)
  /\ UNCHANGED baud

\* CanManager::open: the first port to open starts the controller.
ManagerOpen(mode) ==
  /\ open_count' = open_count + 1
  /\ IF open_count = 0
     THEN Controller(mode, baud)
     ELSE UNCHANGED <<twai, twai_baud, bus_off, fifo>>
  /\ UNCHANGED baud

\* Bug: any port to close drops the controller.
ManagerCloseDrops ==
  /\ open_count' = IF open_count > 0 THEN open_count - 1 ELSE 0
  /\ Controller("none", NoBaud)
  /\ UNCHANGED baud

\* CanManager::close: the last port to close drops the controller.
ManagerClose ==
  IF open_count > 0
  THEN /\ open_count' = open_count - 1
       /\ IF open_count - 1 = 0
          THEN Controller("none", NoBaud)
          ELSE UNCHANGED <<twai, twai_baud, bus_off, fifo>>
       /\ UNCHANGED baud
  ELSE UNCHANGED manager

\* Bug: set_bitrate without its open_count test.
SetBitrateOkWhileOpen(digit) == BaudFromS(digit) # NoBaud

\* CanManager::set_bitrate returns true.
SetBitrateOk(digit) == open_count = 0 /\ BaudFromS(digit) # NoBaud

\* Bug: dispatch transmits what parse_tx rejected.
MayTransmitUnparsed(p, op) == IsOpen(p) /\ twai # "none" /\ ~bus_off

\* The line may reach the bus: the port is open, the line parses, the
\* controller exists, the identifier is in range and the controller is not
\* bus-off.  try_transmit still gives up when the controller stays busy for
\* TX_RETRIES tries.
MayTransmit(p, op) == IsOpen(p) /\ twai # "none" /\ ~bus_off /\ op = "txgood"

Bump(n, b) == IF b THEN (n + 1) % CounterMod ELSE n
InCounter(p)  == IF p = Uart THEN "ser_in" ELSE "tcp_in"
OutCounter(p) == IF p = Uart THEN "ser_out" ELSE "tcp_out"

-----------------------------------------------------------------------------
(* The hosts and the network. *)

HasTx(c) == \E i \in DOMAIN c : c[i].op \in TxOps
TxInFlight ==
  cnt["ser_in"] + cnt["tcp_in"]
    + Cardinality({q \in Ports : HasTx(chunk[q])})

\* Lines arrive on p's link.  Which ones is decided when they are read.
HostSend(p) ==
  /\ link[p] = "up" /\ pc[p] \in InRunPort /\ ~pending[p]
  /\ pending' = [pending EXCEPT ![p] = TRUE]
  /\ UNCHANGED <<manager, rxbus, TCP_CLIENTS, cnt, link, pc, locals>>

\* A TCP peer closes, resets or times out (300 s); what has arrived is still
\* read after a close, and is gone after a reset.
HostDrop(p) ==
  /\ p \in TcpPorts /\ link[p] = "up"
  /\ link' = [link EXCEPT ![p] = "dead"]
  /\ \/ UNCHANGED pending
     \/ pending' = [pending EXCEPT ![p] = FALSE]
  /\ UNCHANGED <<manager, rxbus, TCP_CLIENTS, cnt, pc, locals>>

\* A frame on the bus enters the controller's FIFO; with the FIFO full it is lost.
BusFrame ==
  /\ twai # "none" /\ ~bus_off /\ fifo < HwFifo /\ RX_COUNT + fifo < MaxFrames
  /\ fifo' = fifo + 1
  /\ UNCHANGED <<twai, twai_baud, bus_off, baud, open_count, rxbus, TCP_CLIENTS,
                 cnt, link, pending, pc, locals>>

\* The error counters reach the bus-off limit; a listen-only controller never
\* transmits, so it never gets there.  receive() and transmit() fail from then on.
BusOff ==
  /\ twai = "normal" /\ ~bus_off
  /\ bus_off' = TRUE
  /\ UNCHANGED <<twai, twai_baud, fifo, baud, open_count, rxbus, TCP_CLIENTS, cnt,
                 link, pending, pc, locals>>

\* Bug: the FIFO is drained only when it is full.
PollRxFull ==
  /\ twai # "none" /\ ~bus_off /\ fifo = HwFifo
  /\ fifo' = 0
  /\ RX_COUNT' = RX_COUNT + HwFifo
  /\ UNCHANGED <<twai, twai_baud, bus_off, baud, open_count, next, subscribers,
                 TCP_CLIENTS, cnt, link, pending, pc, locals>>

\* One round of can_rx_task.  receive() may report an error before the FIFO is
\* empty, which ends the round.
PollRx ==
  /\ twai # "none" /\ ~bus_off
  /\ \E n \in 1..RxBatch :
       /\ n <= fifo
       /\ fifo' = fifo - n
       /\ RX_COUNT' = RX_COUNT + n
  /\ UNCHANGED <<twai, twai_baud, bus_off, baud, open_count, next, subscribers,
                 TCP_CLIENTS, cnt, link, pending, pc, locals>>

-----------------------------------------------------------------------------
(* Sessions: tcp_port and autoconnect_task around run_port. *)

\* What run_port starts with.
FreshLocals(p) ==
  /\ open' = [open EXCEPT ![p] = "closed"]
  /\ ts' = [ts EXCEPT ![p] = FALSE]
  /\ chunk' = [chunk EXCEPT ![p] = <<>>]
  /\ reply' = [reply EXCEPT ![p] = "none"]

\* rx_subscriber and TCP_CLIENTS.fetch_add on a connection that came up.
Subscribe(p) ==
  /\ subscribers' = subscribers + 1
  /\ next' = [next EXCEPT ![p] = RX_COUNT]
  /\ UNCHANGED RX_COUNT

SessionUp(p) ==
  /\ pc[p] = "off"
  /\ Subscribe(p)
  /\ TCP_CLIENTS' = TCP_CLIENTS + 1
  /\ link' = [link EXCEPT ![p] = "up"]
  /\ UNCHANGED <<manager, cnt, pending>>

\* tcp_port: accept returned a connection.
Accept(p) ==
  /\ p \in Listeners
  /\ SessionUp(p)
  /\ pc' = [pc EXCEPT ![p] = "idle"]
  /\ FreshLocals(p)

\* autoconnect_task: the TCP connection is up; TLS is opened next.
Dial(p) ==
  /\ p \in Dialers
  /\ SessionUp(p)
  /\ pc' = [pc EXCEPT ![p] = "handshake"]
  /\ UNCHANGED locals

\* autoconnect_task: TLS is open (or plain tcp://), the token is sent.
HandshakeOk(p) ==
  /\ pc[p] = "handshake"
  /\ pc' = [pc EXCEPT ![p] = "idle"]
  /\ FreshLocals(p)
  /\ UNCHANGED <<manager, rxbus, TCP_CLIENTS, cnt, link, pending>>

\* Bug: the failure path takes the client count back, and so does Closed.
HandshakeFailReleases(p) ==
  /\ pc[p] = "handshake"
  /\ TCP_CLIENTS' = TCP_CLIENTS - 1
  /\ pc' = [pc EXCEPT ![p] = "closing"]
  /\ link' = [link EXCEPT ![p] = "down"]
  /\ UNCHANGED <<manager, rxbus, cnt, pending, locals>>

HandshakeFail(p) ==
  /\ pc[p] = "handshake"
  /\ pc' = [pc EXCEPT ![p] = "closing"]
  /\ link' = [link EXCEPT ![p] = "down"]
  /\ UNCHANGED <<manager, rxbus, TCP_CLIENTS, cnt, pending, locals>>

\* Bug: the port forgets that it was open without closing the manager.
DeactivateLeaks(p) == open' = [open EXCEPT ![p] = "closed"] /\ UNCHANGED manager

\* The end of run_port: deactivate the port if it was open.
Deactivate(p) ==
  IF IsOpen(p)
  THEN ManagerClose /\ open' = [open EXCEPT ![p] = "closed"]
  ELSE UNCHANGED <<manager, open>>

\* run_port returns.  tcp_port goes on at once; autoconnect_task first waits
\* for the TLS connection to close (plain tcp:// does not wait there, which is the
\* case of Closed following at once).
StopPort(p) ==
  /\ pc[p] = "stop"
  /\ Deactivate(p)
  /\ link' = [link EXCEPT ![p] = "down"]
  /\ pending' = [pending EXCEPT ![p] = FALSE]
  /\ IF p \in Listeners
     THEN /\ TCP_CLIENTS' = TCP_CLIENTS - 1
          /\ pc' = [pc EXCEPT ![p] = "linger"]
     ELSE /\ UNCHANGED TCP_CLIENTS
          /\ pc' = [pc EXCEPT ![p] = "closing"]
  /\ UNCHANGED <<rxbus, cnt, ts, chunk, reply>>

\* Bug: the client count is not taken back when the link ends.
ClosedLeaks(p) ==
  /\ pc[p] = "closing"
  /\ pc' = [pc EXCEPT ![p] = "linger"]
  /\ UNCHANGED <<manager, rxbus, TCP_CLIENTS, cnt, link, pending, locals>>

Closed(p) ==
  /\ pc[p] = "closing"
  /\ TCP_CLIENTS' = TCP_CLIENTS - 1
  /\ pc' = [pc EXCEPT ![p] = "linger"]
  /\ UNCHANGED <<manager, rxbus, cnt, link, pending, locals>>

\* Bug: the subscriber outlives its loop iteration.
RejoinLeaks(p) ==
  /\ pc[p] = "linger"
  /\ pc' = [pc EXCEPT ![p] = "off"]
  /\ UNCHANGED <<manager, rxbus, TCP_CLIENTS, cnt, link, pending, locals>>

\* The pause (50 ms, or the reconnect backoff) is over: the loop iteration ends
\* and drops the subscriber.
Rejoin(p) ==
  /\ pc[p] = "linger"
  /\ pc' = [pc EXCEPT ![p] = "off"]
  /\ subscribers' = subscribers - 1
  /\ UNCHANGED <<manager, RX_COUNT, next, TCP_CLIENTS, cnt, link, pending, locals>>

-----------------------------------------------------------------------------
(* run_port: the select loop.  select polls the read first, so a frame is   *)
(* taken only when the read has nothing to report.  PolledUart::read looks  *)
(* at the FIFO once per millisecond, so there a frame can also overtake     *)
(* bytes that have just arrived.                                            *)

Chunks == UNION {[1..n -> Commands] : n \in 1..MaxChunk}

Read(p) ==
  /\ pc[p] = "idle" /\ pending[p]
  /\ \E c \in Chunks : /\ HasTx(c) => TxInFlight < MaxTx
                       /\ chunk' = [chunk EXCEPT ![p] = c]
  /\ pending' = [pending EXCEPT ![p] = FALSE]
  /\ pc' = [pc EXCEPT ![p] = "busy"]
  /\ UNCHANGED <<manager, rxbus, TCP_CLIENTS, cnt, link, open, ts, reply>>

\* Bug: the loop goes on after EOF.
ReadEofIgnored(p) ==
  /\ pc[p] = "idle" /\ ~pending[p] /\ link[p] = "dead"
  /\ UNCHANGED vars

ReadEof(p) ==
  /\ pc[p] = "idle" /\ ~pending[p] /\ link[p] = "dead"
  /\ pc' = [pc EXCEPT ![p] = "stop"]
  /\ UNCHANGED <<manager, rxbus, TCP_CLIENTS, cnt, link, pending, locals>>

\* RX_BUS keeps the last RxCap frames; a subscriber further behind resumes at
\* the oldest one kept (next_message_pure skips the gap silently).
OldestKept(p) == IF next[p] < RX_COUNT - RxCap THEN RX_COUNT - RxCap ELSE next[p]

\* Bug: the frame is read without being consumed.
AdvanceNot(p) == next' = [next EXCEPT ![p] = OldestKept(p)]

Advance(p) == next' = [next EXCEPT ![p] = OldestKept(p) + 1]

TakeFrame(p) ==
  /\ pc[p] = "idle" /\ link[p] = "up"
  /\ ~pending[p] \/ p = Uart
  /\ next[p] < RX_COUNT
  /\ Advance(p)
  /\ pc' = [pc EXCEPT ![p] = IF IsOpen(p) THEN "frame" ELSE "idle"]
  /\ UNCHANGED <<manager, RX_COUNT, subscribers, TCP_CLIENTS, cnt, link, pending,
                 locals>>

\* Bug: a frame is written and counted again instead of being given up.
FrameWrittenRetries(p) ==
  /\ pc[p] = "frame"
  /\ cnt' = [cnt EXCEPT ![OutCounter(p)] = Bump(@, TRUE)]
  /\ \/ pc' = [pc EXCEPT ![p] = "idle"]
     \/ UNCHANGED pc
  /\ UNCHANGED <<manager, rxbus, TCP_CLIENTS, link, pending, locals>>

\* The frame is written and flushed (write errors are ignored) and counted.  On TCP
\* the task waits there; PolledUart's write never does, so for the UART the point
\* "frame" allows interleavings that the executor does not have.
FrameWritten(p) ==
  /\ pc[p] = "frame"
  /\ cnt' = [cnt EXCEPT ![OutCounter(p)] = Bump(@, TRUE)]
  /\ pc' = [pc EXCEPT ![p] = "idle"]
  /\ UNCHANGED <<manager, rxbus, TCP_CLIENTS, link, pending, locals>>

-----------------------------------------------------------------------------
(* dispatch: one line of the chunk. *)

AtLine(p, ops) == pc[p] = "busy" /\ Head(chunk[p]).op \in ops

Reply(p, r) ==
  /\ reply' = [reply EXCEPT ![p] = r]
  /\ chunk' = [chunk EXCEPT ![p] = Tail(@)]
  /\ pc' = [pc EXCEPT ![p] = "reply"]
  /\ UNCHANGED <<rxbus, TCP_CLIENTS, link, pending>>

DispatchOpen(p) ==
  /\ AtLine(p, {"O", "L"})
  /\ LET mode == IF Head(chunk[p]).op = "L" THEN "listen" ELSE "normal" IN
       IF IsOpen(p)
       THEN UNCHANGED <<manager, open>>
       ELSE ManagerOpen(mode) /\ open' = [open EXCEPT ![p] = mode]
  /\ Reply(p, "CR")
  /\ UNCHANGED <<cnt, ts>>

\* Bug: `C` closes the manager even when this port is not open.
DispatchCloseAlways(p) ==
  /\ AtLine(p, {"C"})
  /\ ManagerClose
  /\ open' = [open EXCEPT ![p] = "closed"]
  /\ Reply(p, "CR")
  /\ UNCHANGED <<cnt, ts>>

DispatchClose(p) ==
  /\ AtLine(p, {"C"})
  /\ Deactivate(p)
  /\ Reply(p, "CR")
  /\ UNCHANGED <<cnt, ts>>

DispatchSetBitrate(p) ==
  /\ AtLine(p, {"S"})
  /\ LET d == Head(chunk[p]).d IN
       IF SetBitrateOk(d)
       THEN baud' = BaudFromS(d) /\ Reply(p, "CR")
       ELSE UNCHANGED baud /\ Reply(p, "BELL")
  /\ UNCHANGED <<twai, twai_baud, bus_off, fifo, open_count, cnt, open, ts>>

DispatchTimestamp(p) ==
  /\ AtLine(p, {"Z0", "Z1"})
  /\ ts' = [ts EXCEPT ![p] = Head(chunk[p]).op = "Z1"]
  /\ Reply(p, "CR")
  /\ UNCHANGED <<manager, cnt, open>>

\* V, N, F, M, m, A answer without changing state; s, a bad Z or S and anything
\* unknown get BELL.
DispatchOther(p) ==
  /\ AtLine(p, {"query", "reject"})
  /\ Reply(p, IF Head(chunk[p]).op = "query" THEN "CR" ELSE "BELL")
  /\ UNCHANGED <<manager, cnt, open, ts>>

DispatchTransmit(p) ==
  /\ AtLine(p, TxOps)
  /\ \E ok \in BOOLEAN :
       LET op == Head(chunk[p]).op IN
       /\ ok => MayTransmit(p, op)
       /\ cnt' = [cnt EXCEPT ![InCounter(p)] = Bump(@, op # "txbad"),
                             !["tx"] = Bump(@, ok)]
       /\ Reply(p, IF ok THEN "ack" ELSE "BELL")
  /\ UNCHANGED <<manager, open, ts>>

Dispatch(p) ==
  \/ DispatchOpen(p) \/ DispatchClose(p) \/ DispatchSetBitrate(p)
  \/ DispatchTimestamp(p) \/ DispatchOther(p) \/ DispatchTransmit(p)

\* Bug: a failed write ends the session with lines of the chunk still unserved.
ReplyWrittenStops(p) ==
  /\ pc[p] = "reply"
  /\ pc' = [pc EXCEPT ![p] = CASE link[p] = "dead"   -> "stop"
                               [] chunk[p] = <<>>    -> "idle"
                               [] OTHER              -> "busy"]
  /\ reply' = [reply EXCEPT ![p] = "none"]
  /\ UNCHANGED <<manager, rxbus, TCP_CLIENTS, cnt, link, pending, open, ts, chunk>>

\* The reply is written (errors are ignored); after the last line, flush.
ReplyWritten(p) ==
  /\ pc[p] = "reply"
  /\ pc' = [pc EXCEPT ![p] = IF chunk[p] = <<>> THEN "idle" ELSE "busy"]
  /\ reply' = [reply EXCEPT ![p] = "none"]
  /\ UNCHANGED <<manager, rxbus, TCP_CLIENTS, cnt, link, pending, open, ts, chunk>>

-----------------------------------------------------------------------------
RunPort(p) ==
  \/ Read(p) \/ ReadEof(p) \/ TakeFrame(p) \/ FrameWritten(p)
  \/ Dispatch(p) \/ ReplyWritten(p)

Session(p) ==
  \/ HandshakeOk(p) \/ HandshakeFail(p) \/ StopPort(p) \/ Closed(p) \/ Rejoin(p)

Next ==
  \/ \E p \in Ports : \/ RunPort(p)
                      \/ Session(p)
                      \/ Accept(p) \/ Dial(p)
                      \/ HostSend(p) \/ HostDrop(p)
  \/ BusFrame
  \/ BusOff
  \/ PollRx

Spec == Init /\ [][Next]_vars

\* Every task keeps being scheduled: all waits of a port's task end (writes and
\* the TLS handshake by the 300 s socket timeout at the latest, pauses by their
\* timers) and can_rx_task polls every millisecond.  The hosts, the network and
\* the bus owe nothing.
Fairness ==
  /\ \A p \in Ports : WF_vars(RunPort(p)) /\ WF_vars(Session(p))
  /\ WF_vars(PollRx)

FairSpec == Spec /\ Fairness

-----------------------------------------------------------------------------
(* Properties. *)

\* Every variable keeps the type of the Rust field, atomic or local it models.
TypeOK ==
  /\ twai \in {"none", "normal", "listen"}
  /\ twai_baud \in BitRates \cup {NoBaud}
  /\ bus_off \in BOOLEAN
  /\ fifo \in Nat
  /\ baud \in BitRates
  /\ open_count \in Nat
  /\ RX_COUNT \in Nat
  /\ next \in [Ports -> Nat]
  /\ subscribers \in Nat
  /\ TCP_CLIENTS \in Nat
  /\ cnt \in [CounterNames -> Nat]
  /\ link \in [Ports -> {"down", "up", "dead"}]
  /\ pending \in [Ports -> BOOLEAN]
  /\ pc \in [Ports -> PcSet]
  /\ open \in [Ports -> {"closed", "normal", "listen"}]
  /\ ts \in [Ports -> BOOLEAN]
  /\ chunk \in [Ports -> Seq(Commands)]
  /\ reply \in [Ports -> {"none", "CR", "BELL", "ack"}]

\* The reference count agrees with the per-task open flags: run_port closes the
\* manager exactly once for every open, whichever way a session ends (C, EOF, a
\* drop in the middle of a chunk, reopening after a reconnect).
OpenCountExact == open_count = Cardinality(OpenPorts)

\* can.rs: "The controller is on-bus while any transport has the channel open" -
\* and only then.
OnBusIffOpen == (twai # "none") <=> (OpenPorts # {})

\* The controller runs at the bitrate last accepted by `Sn`: no interleaving of S
\* on one port with O on another leaves the two different.
BitrateInForce == twai # "none" => twai_baud = baud

\* A task outside run_port holds no share of open_count: the flag is a local of
\* run_port and dies with it.
ClosedOutsideRunPort == \A p \in Ports : IsOpen(p) => pc[p] \in InRunPort

\* Every task but those with no connection holds one RX_BUS subscriber, also
\* through the pause after the connection.
Subscribed == {p \in Ports : pc[p] # "off"}
SubscribersExact == subscribers = Cardinality(Subscribed)

\* rx_subscriber ("panics only if more than 4 are alive at once") never panics.
SubscriberSlotFree == subscribers <= MaxSubs

\* TCP_CLIENTS counts the connections between fetch_add and fetch_sub, so it
\* never wraps below zero and the LED never shows a client that is gone.
Connected == {p \in TcpPorts : pc[p] \notin {"off", "linger"}}
ClientsExact == TCP_CLIENTS = Cardinality(Connected)

\* SER_OUT counts each frame the UART's subscriber passed at most once, the one
\* being written included: frames taken while the port is closed, replies and
\* reopening never add to it, and lag only loses frames.
SerialOutTaken ==
  cnt["ser_out"] + (IF pc[Uart] = "frame" THEN 1 ELSE 0) <= next[Uart]

\* What is on the bus came in over a port: without wrap-around TX_COUNT never
\* exceeds the frames counted in.
TxWithinIn == cnt["tx"] <= cnt["ser_in"] + cnt["tcp_in"]

\* While a port stays open, no other port's open, close, S, disconnect or
\* reconnect changes the mode or the bitrate of the controller under it.
ControllerStable ==
  [][ (\E p \in Ports : IsOpen(p) /\ IsOpen(p)')
        => UNCHANGED <<twai, twai_baud, baud>> ]_vars

\* Nothing in can.rs restarts a controller that went bus-off, and one port's C and O
\* do not either while another port stays open: bus-off ends exactly when the last
\* open port closes, and then it does end.
BusOffUntilClosed ==
  [][ bus_off => (bus_off' <=> OpenPorts' # {}) ]_vars

\* The whole of it as one abstraction: the channel of CanChannel.
OnBus == [mode |-> twai, rate |-> twai_baud]
OffBus == [mode |-> "off", rate |-> 0]
Channel == INSTANCE CanChannel
             WITH DefaultRate <- DEFAULT_BAUD, opened <- OpenPorts, rate <- baud,
                  bus <- IF twai = "none" THEN OffBus ELSE OnBus
ImplementsChannel == Channel!ChannelSpec

\* A dropped connection is noticed and everything it held is given back: the
\* port's share of the controller, its subscriber, its client count.
DeadLinkReleases ==
  \A p \in TcpPorts : (link[p] = "dead") ~> (pc[p] = "off" /\ ~IsOpen(p))

\* Every line of every chunk that was read is dispatched, also when the link dies in
\* the middle of the chunk: write errors are ignored and only the next read stops the
\* port, so an O, C or transmit line behind a failed reply still takes effect.
ChunkServed == \A p \in Ports : (chunk[p] # <<>>) ~> (chunk[p] = <<>> /\ pc[p] = "idle")

\* Reads win the select, so a host that keeps sending can starve its own frames;
\* once it is quiet its backlog is served or its session ends.
BacklogServed ==
  \A p \in Ports : \A n \in 1..MaxFrames :
    (RX_COUNT >= n /\ [](~pending[p])) ~> (next[p] >= n \/ pc[p] = "off")

\* Received frames reach RX_BUS, unless the channel closes or goes bus-off first.
FramesPublished == (fifo > 0) ~> (fifo = 0 \/ bus_off)

\* The inductive invariant of CanBridgeProofs: the invariants above need each
\* other, that only a controller on the bus is bus-off, that a task in the middle of a
\* chunk has a line to dispatch, and that uart_port never leaves run_port (PolledUart::read reports neither EOF nor error).
BusyHasLine == \A p \in Ports : pc[p] = "busy" => chunk[p] # <<>>
UartNeverStops == link[Uart] = "up" /\ pc[Uart] \in InRunPort \ {"stop"}
BusOffOnBus == bus_off => twai # "none"
ChannelInv == OpenCountExact /\ OnBusIffOpen /\ BitrateInForce /\ BusOffOnBus
SessionInv == /\ ClosedOutsideRunPort /\ SubscribersExact /\ ClientsExact
              /\ BusyHasLine /\ UartNeverStops
Inv == TypeOK /\ ChannelInv /\ SessionInv /\ SerialOutTaken

\* What the documentation says and the code does not do; see the README.
\* "Open channel (normal mode)": a port that opened with O has a controller
\* that can transmit.
NormalPortCanSend == \A p \in Ports : open[p] = "normal" => twai = "normal"
\* "every received bus frame is broadcast to all open ports": the frames an open
\* port has still to read are all kept.
NoFrameLost == \A p \in Ports : IsOpen(p) => OldestKept(p) = next[p]
=============================================================================
